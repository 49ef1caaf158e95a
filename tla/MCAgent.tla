------------------------------ MODULE MCAgent ------------------------------
(***************************************************************************)
(* The agent's components that meet only through birdcage, checked side by *)
(* side: a behaviour is one of the component that part names, and the      *)
(* variables of the others stay as they were initially.                    *)
(***************************************************************************)
EXTENDS Enrolment, Tailer, SmbRoad, Upgrade, Poisoner, Portscan

VARIABLE part

agentSideVars ==
    <<part, enrolmentVars, tailerVars, smbVars, upgradeVars, poisonerVars, portscanVars>>

AgentSideInit ==
    /\ part \in {"enrolment", "tailer", "smb", "upgrade", "poisoner", "portscan"}
    /\ EnrolmentInit /\ TailerInit /\ SmbInit /\ UpgradeInit /\ PoisonerInit
    /\ PortscanInit
    /\ part # "upgrade" => ~cloned
    /\ part # "poisoner" => asker.wake = 0

AgentSideNext ==
    \/ /\ part = "enrolment" /\ EnrolmentNext
       /\ UNCHANGED <<part, tailerVars, smbVars, upgradeVars, poisonerVars, portscanVars>>
    \/ /\ part = "tailer" /\ TailerNext
       /\ UNCHANGED <<part, enrolmentVars, smbVars, upgradeVars, poisonerVars, portscanVars>>
    \/ /\ part = "smb" /\ SmbNext
       /\ UNCHANGED <<part, enrolmentVars, tailerVars, upgradeVars, poisonerVars, portscanVars>>
    \/ /\ part = "upgrade" /\ UpgradeNext
       /\ UNCHANGED <<part, enrolmentVars, tailerVars, smbVars, poisonerVars, portscanVars>>
    \/ /\ part = "poisoner" /\ PoisonerNext
       /\ UNCHANGED <<part, enrolmentVars, tailerVars, smbVars, upgradeVars, portscanVars>>
    \/ /\ part = "portscan" /\ PortscanNext
       /\ UNCHANGED <<part, enrolmentVars, tailerVars, smbVars, upgradeVars, poisonerVars>>

AgentSideSpec == AgentSideInit /\ [][AgentSideNext]_agentSideVars

----------------------------------------------------------------------------
Line(k, w, p, t) == [shape |-> k, who |-> w, path |-> p, at |-> t]
SomeAuditLines ==
    {Line("no header", 0, "", 0), Line("panic", 0, "", 0), Line("close", 1, "dir", 0),
     Line("close", 1, "file", 0), Line("close", 1, "file", 1), Line("close", 2, "file", 0)}

EveryDay == [start |-> 0, end |-> 3, days |-> {0, 1}]
OneNight == [start |-> 2, end |-> 1, days |-> {0}]
Setting(p, f, c, h) == [profile |-> p, pace |-> [floor |-> f, ceiling |-> c, hours |-> h]]
SlowSettings == {Setting("linux", 4, 2, EveryDay), Setting("off", 3, 0, OneNight)}
WithAFastFloor == SlowSettings \cup {Setting("linux", 1, 2, EveryDay)}

Packet(s, p, k, i) == [src |-> s, port |-> p, kind |-> k, inbound |-> i]
SomePackets ==
    {Packet("a", 1, "syn", TRUE), Packet("a", 2, "syn", TRUE), Packet("a", 3, "syn", TRUE),
     Packet("a", 1, "ack", TRUE), Packet("a", 2, "syn", FALSE), Packet("b", 1, "syn", TRUE),
     Packet("b", 2, "datagram", TRUE)}

\* The variables of every component hold what their declarations say.
AgentSideTypeOK ==
    EnrolmentTypeOK /\ TailerTypeOK /\ SmbTypeOK /\ UpgradeTypeOK /\ PoisonerTypeOK
    /\ PortscanTypeOK
=============================================================================
