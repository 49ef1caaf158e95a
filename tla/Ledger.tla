------------------------------- MODULE Ledger -------------------------------
(***************************************************************************)
(* The acknowledgement ledger (internal/agent/ledger/ledger.go), as        *)
(* operators on its value.  A log position is the index of its line, and   *)
(* the tailer emits the lines of a session in order, so the ordered list   *)
(* of entries is the set of their positions.                               *)
(***************************************************************************)
EXTENDS Integers, FiniteSets

CONSTANTS
    MaxLines,         \* bound: lines OpenCanary ever writes
    IdOf,             \* event id of each line, NoId for a line with no '{'
    NoId,
    CollisionWindow   \* ledger.DefaultCollisionWindow

Lines == 1..MaxLines

ASSUME LedgerConstants ==
    /\ MaxLines \in Nat
    /\ DOMAIN IdOf = Lines
    /\ CollisionWindow \in Nat

LedgerType ==
    [entries : SUBSET Lines, resolved : SUBSET Lines, discarded : SUBSET Lines]

\* New.
NewLedger == [entries |-> {}, resolved |-> {}, discarded |-> {}]

\* Append's collision test: the id is live, or among the entries discarded
\* last (discardedSet).
Collides(l, p) == \E q \in l.entries \cup l.discarded : IdOf[q] = IdOf[p]

\* Append.
AppendEntry(l, p) == [l EXCEPT !.entries = @ \cup {p}]

\* Resolve: the oldest unresolved entry of this id, if it has one.
Resolve(l, id) ==
    LET open == {p \in l.entries \ l.resolved : IdOf[p] = id}
    IN  [l EXCEPT !.resolved = @ \cup {p \in open : \A q \in open : p <= q}]

ResolvedPrefix_SkipsGaps(l) == l.resolved

\* The unbroken run of resolved entries at the front of the ledger.
ResolvedPrefix(l) == {p \in l.entries : \A q \in l.entries : q <= p => q \in l.resolved}

\* The position Advance returns: the last of that run; none when it is empty.
Frontier(l) == {p \in ResolvedPrefix(l) : \A q \in ResolvedPrefix(l) : q <= p}

\* rememberDiscarded keeps the ids of the CollisionWindow last discarded.
Newest(S) == {p \in S : Cardinality({q \in S : q > p}) < CollisionWindow}

\* What Advance leaves: the resolved run is discarded.
Advance(l) ==
    [entries   |-> l.entries \ ResolvedPrefix(l),
     resolved  |-> l.resolved \ ResolvedPrefix(l),
     discarded |-> Newest(l.discarded \cup ResolvedPrefix(l))]
=============================================================================
