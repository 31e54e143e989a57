---------------------------- MODULE BoundedCommand ----------------------------
(***************************************************************************)
(* scripts/dormant_app_install.py, _run_bounded_process: a fixed command   *)
(* runs as leader of its own process group.  The runner reads its output   *)
(* until a deadline, and ends the whole group before it reports: one       *)
(* SIGKILL while the unreaped leader still pins the group id, then the     *)
(* leader is reaped and the group is probed until it is empty.             *)
(***************************************************************************)
EXTENDS Naturals, FiniteSets

CONSTANTS Kids      \* descendants the command may leave behind

VARIABLES
    leader,     \* "running", "zombie" or "reaped"
    kid,        \* where each descendant is
    holds,      \* processes that hold the write end of an output pipe
    stranger,   \* an unrelated group that got the same id
    clock,      \* which deadlines have passed
    run         \* the runner

commandVars == <<leader, kid, holds, stranger, clock, run>>

Leader == "leader"
\* "group" may be signalled, "protected" refuses the signal, "escaped" left the group.
KidStates == {"unborn", "group", "protected", "escaped", "gone"}
IdleRun == [pc |-> "read", attempted |-> FALSE, exited |-> FALSE, primary |-> FALSE,
         failure |-> FALSE, outcome |-> "none"]

CommandTypeOK ==
    /\ leader \in {"running", "zombie", "reaped"} /\ kid \in [Kids -> KidStates]
    /\ holds \subseteq Kids \cup {Leader} /\ stranger \in {"none", "alive", "killed"}
    /\ clock \in [command : BOOLEAN, cleanup : BOOLEAN]
    /\ run \in [pc : {"read", "signal", "wait", "probe", "close", "done"}, attempted : BOOLEAN,
                exited : BOOLEAN, primary : BOOLEAN, failure : BOOLEAN,
                outcome : {"none", "result", "error"}]

Set(r) == run' = r
Members == {k \in Kids : kid[k] \in {"group", "protected"}}
\* The numeric group id names the command's group as long as it has a member.
GroupExists == leader # "reaped" \/ Members # {} \/ stranger = "alive"

-----------------------------------------------------------------------------
(* The command and its descendants (external).                             *)

Fork == \E k \in Kids, s \in {"group", "protected", "escaped"} :
    /\ kid[k] = "unborn" /\ (leader = "running" \/ \E j \in Kids : kid[j] = "group")
    /\ kid' = [kid EXCEPT ![k] = s] /\ holds' \in {holds, holds \cup {k}}
    /\ UNCHANGED <<leader, stranger, clock, run>>
KidEnds == \E k \in Kids :
    /\ kid[k] \in {"group", "protected", "escaped"}
    /\ kid' = [kid EXCEPT ![k] = "gone"] /\ holds' = holds \ {k}
    /\ UNCHANGED <<leader, stranger, clock, run>>
LeaderEnds ==
    /\ leader = "running" /\ leader' = "zombie" /\ holds' = holds \ {Leader}
    /\ UNCHANGED <<kid, stranger, clock, run>>
\* The system gives a free id to somebody else.
Reuse ==
    /\ ~GroupExists /\ stranger = "none" /\ stranger' = "alive"
    /\ UNCHANGED <<leader, kid, holds, clock, run>>
\* time.monotonic: the command deadline, and the one that cleanup shares.
CommandDeadline ==
    /\ ~clock.command /\ clock' = [clock EXCEPT !.command = TRUE]
    /\ UNCHANGED <<leader, kid, holds, stranger, run>>
CleanupDeadline ==
    /\ ~clock.cleanup /\ run.pc \in {"wait", "probe"}
    /\ clock' = [clock EXCEPT !.cleanup = TRUE]
    /\ UNCHANGED <<leader, kid, holds, stranger, run>>

-----------------------------------------------------------------------------
(* Reading the output.                                                     *)

Timeout ==
    /\ run.pc = "read" /\ clock.command /\ (holds # {} \/ ~run.exited)
    /\ Set([run EXCEPT !.pc = "close", !.primary = TRUE])
    /\ UNCHANGED <<leader, kid, holds, stranger, clock>>
\* Output over its bound, a failed read, an interruption.
ReadFails ==
    /\ run.pc = "read"
    /\ Set([run EXCEPT !.pc = "close", !.primary = TRUE])
    /\ UNCHANGED <<leader, kid, holds, stranger, clock>>
\* _leader_exited_without_reaping: observed with WNOWAIT, so not reaped.
LeaderSeen ==
    /\ run.pc = "read" /\ ~run.exited /\ leader = "zombie"
    /\ Set([run EXCEPT !.exited = TRUE, !.attempted = TRUE, !.pc = "signal"])
    /\ UNCHANGED <<leader, kid, holds, stranger, clock>>
\* Both pipes are at their end and the leader is reaped.
Complete ==
    /\ run.pc = "read" /\ run.exited /\ holds = {}
    /\ Set([run EXCEPT !.pc = "close", !.outcome = "result"])
    /\ UNCHANGED <<leader, kid, holds, stranger, clock>>

-----------------------------------------------------------------------------
(* _terminate_process_group.                                               *)

\* SIGKILL reaches every member that may be signalled.
Kill ==
    /\ leader' = IF leader = "running" THEN "zombie" ELSE leader
    /\ kid' = [k \in Kids |-> IF kid[k] = "group" THEN "gone" ELSE kid[k]]
    /\ holds' = {h \in holds : h # Leader /\ kid[h] # "group"}
    /\ stranger' = IF stranger = "alive" THEN "killed" ELSE stranger
Signal ==
    /\ run.pc = "signal" /\ Kill /\ Set([run EXCEPT !.pc = "wait"])
    /\ UNCHANGED clock
\* _kill_unreaped_leader: Popen.kill polls first, so it reaps a leader that has
\* ended; its own signal may be refused or interrupted as well.
KillUnreapedLeader ==
    \/ UNCHANGED <<leader, holds>>
    \/ /\ leader' = IF leader = "running" THEN "zombie" ELSE "reaped"
       /\ holds' = holds \ {Leader}
\* killpg is refused.  That is no failure of a leader seen to have ended;
\* otherwise, and when it cannot be observed, the leader alone is killed.
SignalRefused ==
    /\ run.pc = "signal"
    /\ \/ /\ leader = "zombie" /\ Set([run EXCEPT !.pc = "wait"])
          /\ UNCHANGED <<leader, holds>>
       \/ /\ Set([run EXCEPT !.pc = "wait", !.failure = TRUE])
          /\ KillUnreapedLeader
    /\ UNCHANGED <<kid, stranger, clock>>
\* process.wait: the only place where the leader is reaped.
Reap ==
    /\ run.pc = "wait" /\ leader \in {"zombie", "reaped"} /\ leader' = "reaped"
    /\ Set([run EXCEPT !.pc = "probe"])
    /\ UNCHANGED <<kid, holds, stranger, clock>>
\* An interruption is kept as the failure; cleanup goes on.
CleanupInterrupted ==
    /\ run.pc \in {"wait", "probe"} /\ ~run.failure
    /\ Set([run EXCEPT !.failure = TRUE])
    /\ UNCHANGED <<leader, kid, holds, stranger, clock>>
\* After cleanup: back to the pipes, or out when cleanup failed or was final.
AfterCleanup(failure) ==
    Set([run EXCEPT !.failure = failure,
                    !.pc = IF failure \/ run.primary THEN "close" ELSE "read"])
WaitDeadline ==
    /\ run.pc = "wait" /\ clock.cleanup /\ AfterCleanup(TRUE)
    /\ UNCHANGED <<leader, kid, holds, stranger, clock>>
\* killpg(group, 0) finds nobody.
ProbeAbsent ==
    /\ run.pc = "probe" /\ ~GroupExists /\ AfterCleanup(run.failure)
    /\ UNCHANGED <<leader, kid, holds, stranger, clock>>
\* Mutant: the group is probed for as long as it has a member.
ProbeForever ==
    /\ run.pc = "probe" /\ GroupExists /\ clock.cleanup
    /\ UNCHANGED commandVars
ProbeDeadline ==
    /\ run.pc = "probe" /\ GroupExists /\ clock.cleanup /\ AfterCleanup(TRUE)
    /\ UNCHANGED <<leader, kid, holds, stranger, clock>>

-----------------------------------------------------------------------------
(* The finally block: close the pipes, end the group unless that was done. *)

\* Mutant: cleanup runs again after it already reaped the leader.
CleanupAlways == run.pc = "close" /\ run.outcome = "none" /\ ~run.failure
CleanupDue == run.pc = "close" /\ ~run.attempted
Cleanup ==
    /\ CleanupDue /\ Set([run EXCEPT !.attempted = TRUE, !.pc = "signal"])
    /\ UNCHANGED <<leader, kid, holds, stranger, clock>>
Report ==
    /\ run.pc = "close" /\ ~CleanupDue
    /\ Set([run EXCEPT !.pc = "done",
                       !.outcome = IF run.outcome = "result" /\ ~run.failure
                                   THEN "result" ELSE "error"])
    /\ UNCHANGED <<leader, kid, holds, stranger, clock>>
CloseFails ==
    /\ run.pc = "close" /\ ~CleanupDue
    /\ Set([run EXCEPT !.pc = "done", !.outcome = "error"])
    /\ UNCHANGED <<leader, kid, holds, stranger, clock>>

CommandInit ==
    /\ leader = "running" /\ kid = [k \in Kids |-> "unborn"] /\ holds = {Leader}
    /\ stranger = "none" /\ clock = [command |-> FALSE, cleanup |-> FALSE] /\ run = IdleRun
Runner ==
    \/ Timeout \/ LeaderSeen \/ Complete \/ Signal \/ Reap \/ WaitDeadline
    \/ ProbeAbsent \/ ProbeDeadline \/ Cleanup \/ Report
CommandNext ==
    \/ Runner \/ ReadFails \/ SignalRefused \/ CleanupInterrupted \/ CloseFails
    \/ Fork \/ KidEnds \/ LeaderEnds \/ Reuse \/ CommandDeadline \/ CleanupDeadline
\* The runner keeps running and time passes; the command need not end.
Fairness == WF_commandVars(Runner) /\ WF_commandVars(CommandDeadline) /\ WF_commandVars(CleanupDeadline)
CommandSpec == CommandInit /\ [][CommandNext]_commandVars /\ Fairness

-----------------------------------------------------------------------------
(* The group id is never signalled once it may name somebody else's        *)
(* processes: the one SIGKILL is sent while the leader is unreaped.        *)
NoStrangerKilled == stranger # "killed"

(* A reported result means that the command's group is gone and that its   *)
(* output is complete, whatever descendants it left behind.                *)
ResultIsFinal ==
    run.outcome = "result" /\ run.pc = "done" =>
        leader = "reaped" /\ Members = {} /\ holds = {}

(* The runner returns even when the command never ends, when a descendant  *)
(* keeps a pipe open or refuses the signal, and when cleanup is interrupted. *)
AlwaysReturns == <>(run.pc = "done")
=============================================================================
