---------------------------- MODULE ScheduleRuntimes ----------------------------
(***************************************************************************)
(* The three runtimes of the same registry entries.  An application binds  *)
(* one transport adapter, and the adapter brings its own scheduler: the    *)
(* others do not exist.                                                    *)
(***************************************************************************)
EXTENDS InProcessSchedule, BullmqSchedule, KafkaSchedule

VARIABLE transport

runtimeVars == <<transport, scheduleVars, bullVars, kafkaVars>>

RuntimesInit ==
    /\ transport \in {"in-process", "bullmq", "kafka"}
    /\ ScheduleInit /\ BullInit /\ KafkaInit

InProcess(A) == transport = "in-process" /\ A /\ UNCHANGED <<transport, bullVars, kafkaVars>>
Bullmq(A) == transport = "bullmq" /\ A /\ UNCHANGED <<transport, scheduleVars, kafkaVars>>
Kafka(A) == transport = "kafka" /\ A /\ UNCHANGED <<transport, scheduleVars, bullVars>>

RuntimesNext == InProcess(ScheduleNext) \/ Bullmq(BullNext) \/ Kafka(KafkaNext)

(***************************************************************************)
(* Launched jobs end.  Nothing obliges a tick to come, or a process to go  *)
(* on, stop or fail.                                                       *)
(***************************************************************************)
RuntimesSpec ==
    /\ RuntimesInit /\ [][RuntimesNext]_runtimeVars
    /\ \A s \in Installed : WF_runtimeVars(InProcess(\E at \in 1..MaxTicks : LaunchEnds(s, at)))

\* The state of the bound scheduler has its type.
RuntimesTypeOK == ScheduleTypeOK /\ BullTypeOK /\ KafkaTypeOK
=============================================================================
