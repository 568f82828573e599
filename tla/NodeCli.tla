------------------------------- MODULE NodeCli -------------------------------
(***************************************************************************)
(* The commands of cli/node.py on one data directory: start, which spawns  *)
(* a _serve process and polls until it is ready, stop and status.  They    *)
(* meet in the pid file node.pid, which _pid_file_lock guards only in      *)
(* part: stop and the polling start read it without the lock, and a stop   *)
(* that found no pid removes it without the lock.                          *)
(*                                                                         *)
(* A process is named by its pid, start commands by the child they spawn.  *)
(* Pids are not reused.  status.json decides nothing and is left out.      *)
(***************************************************************************)
EXTENDS Naturals, FiniteSets, TLAPS

CONSTANTS Pids,                        \* the _serve processes
          Stops,                       \* the stop commands
          NoPid, Unwritten                 \* no pid file; created but not written yet

ASSUME CliAssumption == NoPid \notin Pids /\ Unwritten \notin Pids /\ NoPid # Unwritten

VARIABLES pid_file,
          lock,                        \* who is inside _write_pid, NoPid if nobody
          node,                        \* pid -> state of the _serve process
          term,                        \* pids that got SIGTERM
          start,                       \* pid -> progress of the start that spawns it
          stop,                        \* stop command -> progress
          target                       \* stop command -> the pid it read

cliVars == <<pid_file, lock, node, term, start, stop, target>>

CliInit == /\ pid_file = NoPid
        /\ lock = NoPid
        /\ node = [p \in Pids |-> "none"]
        /\ term = {}
        /\ start = [p \in Pids |-> "idle"]
        /\ stop = [s \in Stops |-> "idle"]
        /\ target = [s \in Stops |-> NoPid]
-----------------------------------------------------------------------------
\* os.kill(pid, 0) succeeds.
pid_is_running(p) == p \in Pids /\ node[p] \in {"spawned", "creating", "serving"}

\* What _running_pid_or_clear_stale leaves: a dead process's pid is removed.
\* It raises, and changes nothing, on a file that is not written yet.
cleared_pid_file ==
  IF pid_file \in Pids /\ ~pid_is_running(pid_file) THEN NoPid ELSE pid_file

\* _remove_pid_if_matches
removed_if_matches(p) == IF pid_file = p THEN NoPid ELSE pid_file
-----------------------------------------------------------------------------
(* The _serve process.                                                     *)

\* Faulty: a pid file is taken over whatever process it names.
open_pid_overwriting(p) ==
  /\ node[p] = "spawned" /\ lock = NoPid
  /\ pid_file' = Unwritten /\ lock' = p
  /\ node' = [node EXCEPT ![p] = "creating"]
  /\ UNCHANGED <<term, start, stop, target>>

\* _write_pid up to os.open(O_CREAT | O_EXCL): a dead process's file is removed.
open_pid(p) ==
  /\ node[p] = "spawned" /\ lock = NoPid
  /\ pid_file # Unwritten /\ ~pid_is_running(pid_file)
  /\ pid_file' = Unwritten /\ lock' = p
  /\ node' = [node EXCEPT ![p] = "creating"]
  /\ UNCHANGED <<term, start, stop, target>>

\* "node is already running", or the pid file is malformed: the process ends.
open_pid_refused(p) ==
  /\ node[p] = "spawned" /\ lock = NoPid
  /\ pid_file = Unwritten \/ pid_is_running(pid_file)
  /\ node' = [node EXCEPT ![p] = "dead"]
  /\ UNCHANGED <<pid_file, lock, term, start, stop, target>>

\* Faulty: the lock is kept while serving.
write_pid_keeping_lock(p) ==
  /\ node[p] = "creating"
  /\ pid_file' = IF pid_file = Unwritten THEN p ELSE pid_file
  /\ node' = [node EXCEPT ![p] = "serving"]
  /\ UNCHANGED <<lock, term, start, stop, target>>

\* os.write and the release of the lock.  Written to a file that was unlinked
\* in between, the pid is lost.
write_pid(p) ==
  /\ node[p] = "creating"
  /\ pid_file' = IF pid_file = Unwritten THEN p ELSE pid_file
  /\ lock' = NoPid
  /\ node' = [node EXCEPT ![p] = "serving"]
  /\ UNCHANGED <<term, start, stop, target>>

\* os.write fails: the file at the path is unlinked and the process ends.
write_pid_fails(p) ==
  /\ node[p] = "creating"
  /\ pid_file' = NoPid
  /\ lock' = NoPid
  /\ node' = [node EXCEPT ![p] = "dead"]
  /\ UNCHANGED <<term, start, stop, target>>

\* _cmd_serve leaves its loop after SIGTERM and removes its own pid.
serve_ends(p) ==
  /\ node[p] = "serving" /\ p \in term /\ lock = NoPid
  /\ pid_file' = removed_if_matches(p)
  /\ node' = [node EXCEPT ![p] = "dead"]
  /\ UNCHANGED <<lock, term, start, stop, target>>

\* The process is killed, fails to write its status, or gets SIGTERM before its
\* handler is installed; the kernel releases its lock.  A creator leaves the empty file behind.
crash(p) ==
  /\ pid_is_running(p)
  /\ node' = [node EXCEPT ![p] = IF node[p] = "creating" THEN "torn" ELSE "dead"]
  /\ lock' = IF lock = p THEN NoPid ELSE lock
  /\ UNCHANGED <<pid_file, term, start, stop, target>>
-----------------------------------------------------------------------------
(* start *)

start_check(p) ==
  /\ start[p] = "idle" /\ lock = NoPid
  /\ pid_file' = cleared_pid_file
  /\ start' = [start EXCEPT ![p] = CASE pid_file = Unwritten -> "failed"
                                     [] pid_is_running(pid_file) -> "reported"
                                     [] OTHER -> "checked"]
  /\ UNCHANGED <<lock, node, term, stop, target>>

start_spawn(p) ==
  /\ start[p] = "checked"
  /\ start' = [start EXCEPT ![p] = "polling"]
  /\ node' = [node EXCEPT ![p] = "spawned"]
  /\ UNCHANGED <<pid_file, lock, term, stop, target>>

\* The child has exited: another node may hold the pid file.
start_child_exited(p) ==
  /\ start[p] = "polling" /\ ~pid_is_running(p) /\ lock = NoPid
  /\ pid_file' = cleared_pid_file
  /\ start' = [start EXCEPT ![p] = IF pid_is_running(pid_file) THEN "reported" ELSE "failed"]
  /\ UNCHANGED <<lock, node, term, stop, target>>

\* The unlocked read of the loop: the child is ready, another node is running
\* and the child is terminated, or the file is half written.
start_poll(p) ==
  /\ start[p] = "polling" /\ pid_is_running(p)
  /\ pid_file = Unwritten \/ pid_is_running(pid_file)
  /\ start' = [start EXCEPT ![p] = IF pid_file = Unwritten THEN "failed" ELSE "reported"]
  /\ term' = IF pid_file \in Pids \ {p} THEN term \cup {p} ELSE term
  /\ UNCHANGED <<pid_file, lock, node, stop, target>>

\* START_TIMEOUT_SECONDS
start_timeout(p) ==
  /\ start[p] = "polling"
  /\ term' = term \cup {p}
  /\ start' = [start EXCEPT ![p] = "failed"]
  /\ UNCHANGED <<pid_file, lock, node, stop, target>>
-----------------------------------------------------------------------------
(* stop and status *)

\* The unlocked read.
stop_read(s) ==
  /\ stop[s] = "idle"
  /\ target' = [target EXCEPT ![s] = pid_file]
  /\ stop' = [stop EXCEPT ![s] = CASE pid_file = Unwritten -> "failed"
                                   [] pid_file = NoPid -> "absent"
                                   [] OTHER -> "read"]
  /\ UNCHANGED <<pid_file, lock, node, term, start>>

stop_signal(s) ==
  /\ stop[s] = "read"
  /\ stop' = [stop EXCEPT ![s] = IF pid_is_running(target[s]) THEN "waiting" ELSE "matched"]
  /\ term' = IF pid_is_running(target[s]) THEN term \cup {target[s]} ELSE term
  /\ UNCHANGED <<pid_file, lock, node, start, target>>

\* _wait_until_stopped returns, or gives up at its deadline.
stop_wait(s) ==
  /\ stop[s] = "waiting"
  /\ stop' = [stop EXCEPT ![s] = IF pid_is_running(target[s]) THEN "failed" ELSE "matched"]
  /\ UNCHANGED <<pid_file, lock, node, term, start, target>>

stop_remove(s) ==
  /\ stop[s] = "matched" /\ lock = NoPid
  /\ pid_file' = removed_if_matches(target[s])
  /\ stop' = [stop EXCEPT ![s] = IF pid_file = Unwritten THEN "failed" ELSE "stopped"]
  /\ UNCHANGED <<lock, node, term, start, target>>

\* A stop that found no pid file calls _remove_pid, without the lock.
stop_remove_unlocked(s) ==
  /\ stop[s] = "absent"
  /\ pid_file' = NoPid
  /\ stop' = [stop EXCEPT ![s] = "stopped"]
  /\ UNCHANGED <<lock, node, term, start, target>>

status ==
  /\ lock = NoPid
  /\ pid_file' = cleared_pid_file
  /\ UNCHANGED <<lock, node, term, start, stop, target>>
-----------------------------------------------------------------------------
Serve(p) == \/ open_pid(p) \/ open_pid_refused(p)
            \/ write_pid(p) \/ write_pid_fails(p) \/ serve_ends(p)

Start(p) == \/ start_check(p) \/ start_spawn(p)
            \/ start_child_exited(p) \/ start_poll(p) \/ start_timeout(p)

\* Every step that respects the lock where it writes.
LockedNext == \/ \E p \in Pids : Serve(p) \/ crash(p) \/ Start(p)
              \/ \E s \in Stops :
                   stop_read(s) \/ stop_signal(s) \/ stop_wait(s) \/ stop_remove(s)
              \/ status

CliNext == LockedNext \/ \E s \in Stops : stop_remove_unlocked(s)

\* A live process keeps running its own code: what a node does next needs no
\* command and no other node, but for the lock.
CliFairness == \A p \in Pids : WF_cliVars(Serve(p))

LockedSpec == CliInit /\ [][LockedNext]_cliVars /\ CliFairness
CliSpec       == CliInit /\ [][CliNext]_cliVars /\ CliFairness
-----------------------------------------------------------------------------
\* The shape of the state; the lock is held exactly by a process in _write_pid.
CliTypeOK ==
  /\ pid_file \in Pids \cup {NoPid, Unwritten}
  /\ lock \in Pids \cup {NoPid}
  /\ \A p \in Pids : node[p] = "creating" <=> lock = p
  /\ node \in [Pids -> {"none", "spawned", "creating", "serving", "dead", "torn"}]
  /\ term \subseteq Pids
  /\ start \in [Pids -> {"idle", "checked", "polling", "reported", "failed"}]
  /\ stop \in [Stops -> {"idle", "read", "absent", "waiting", "matched", "stopped", "failed"}]
  /\ target \in [Stops -> Pids \cup {NoPid, Unwritten}]

\* At most one node runs on the data directory, however starts, stops, status
\* commands, crashes and stale pid files interleave.
AtMostOneNode == \A p, q \in Pids : node[p] = "serving" /\ node[q] = "serving" => p = q

\* The pid file names the node that serves, so that stop and status find it.
ServingIsNamed == \A p \in Pids : node[p] = "serving" => pid_file = p

\* A process that was sent SIGTERM ends, although it may first have to take the
\* lock to write its pid and again to remove it.
TerminatedEnds == \A p \in Pids : p \in term ~> node[p] \in {"dead", "torn"}
-----------------------------------------------------------------------------
(* For any number of start, stop and status commands and any crashes: as   *)
(* long as nobody removes the pid file outside the lock, at most one node  *)
(* runs on a data directory and the pid file names it.                     *)

\* A process that is past _write_pid never runs it again.
Past(p) == p \in Pids /\ node[p] \in {"serving", "dead", "torn"}

\* Why the pid of a serving node survives: whoever writes the file holds the
\* lock and found it free, a named process is past _write_pid, a stop removes
\* only the pid of a process it saw dead, and a start spawns its child once.
CliInv ==
  /\ CliTypeOK
  /\ ServingIsNamed
  /\ lock # NoPid => pid_file = Unwritten
  /\ pid_file \in Pids => Past(pid_file)
  /\ \A s \in Stops : stop[s] \in {"read", "waiting"} => Past(target[s])
  /\ \A s \in Stops : stop[s] = "matched" => Past(target[s]) /\ node[target[s]] # "serving"
  /\ \A p \in Pids : start[p] \in {"idle", "checked"} => node[p] = "none"

\* An initialised data directory without a node satisfies the invariant.
LEMMA FreshIsNamed == CliInit => CliInv
BY CliAssumption DEF CliInit, CliInv, CliTypeOK, ServingIsNamed, Past

\* Every step that respects the lock preserves it.
LEMMA CliStep == CliInv /\ [LockedNext]_cliVars => CliInv'
<1> SUFFICES ASSUME CliInv, [LockedNext]_cliVars
             PROVE  CliInv'
  OBVIOUS
<1> USE CliAssumption DEF CliInv, CliTypeOK, ServingIsNamed, Past
<1>1. ASSUME NEW p \in Pids, open_pid(p) PROVE CliInv'
  BY <1>1 DEF open_pid, pid_is_running
<1>2. ASSUME NEW p \in Pids, open_pid_refused(p) PROVE CliInv'
  BY <1>2 DEF open_pid_refused
<1>3. ASSUME NEW p \in Pids, write_pid(p) PROVE CliInv'
  BY <1>3 DEF write_pid
<1>4. ASSUME NEW p \in Pids, serve_ends(p) PROVE CliInv'
  BY <1>4 DEF serve_ends, removed_if_matches
<1>5. ASSUME NEW p \in Pids, crash(p) PROVE CliInv'
  BY <1>5 DEF crash, pid_is_running
<1>6. ASSUME NEW p \in Pids, start_check(p) PROVE CliInv'
  BY <1>6 DEF start_check, cleared_pid_file, pid_is_running
<1>7. ASSUME NEW p \in Pids, start_spawn(p) PROVE CliInv'
  BY <1>7 DEF start_spawn
<1>8. ASSUME NEW p \in Pids, start_child_exited(p) PROVE CliInv'
  BY <1>8 DEF start_child_exited, cleared_pid_file, pid_is_running
<1>9. ASSUME NEW p \in Pids, start_poll(p) PROVE CliInv'
  BY <1>9 DEF start_poll, pid_is_running
<1>10. ASSUME NEW p \in Pids, start_timeout(p) PROVE CliInv'
  BY <1>10 DEF start_timeout
<1>11. ASSUME NEW s \in Stops, stop_read(s) PROVE CliInv'
  BY <1>11 DEF stop_read, pid_is_running
<1>12. ASSUME NEW s \in Stops, stop_wait(s) PROVE CliInv'
  BY <1>12 DEF stop_wait, pid_is_running
<1>13. ASSUME NEW s \in Stops, stop_remove(s) PROVE CliInv'
  BY <1>13 DEF stop_remove, removed_if_matches
<1>14. CASE status
  BY <1>14 DEF status, cleared_pid_file, pid_is_running
<1>15. ASSUME NEW p \in Pids, write_pid_fails(p) PROVE CliInv'
  BY <1>15 DEF write_pid_fails
<1>16. ASSUME NEW s \in Stops, stop_signal(s) PROVE CliInv'
  BY <1>16 DEF stop_signal, pid_is_running
<1>17. CASE UNCHANGED cliVars
  BY <1>17 DEF cliVars
<1> HIDE DEF CliInv
<1> QED
  BY <1>1, <1>2, <1>3, <1>4, <1>5, <1>6, <1>7, <1>8, <1>9, <1>10, <1>11, <1>12,
     <1>13, <1>14, <1>15, <1>16, <1>17
  DEF LockedNext, Serve, Start

\* Under the lock the pid file always names the node that serves, for any number
\* of commands and crashes.
THEOREM ServerIsNamed == LockedSpec => []ServingIsNamed
<1>1. CliInv => ServingIsNamed
  BY DEF CliInv
<1> QED BY FreshIsNamed, CliStep, <1>1, PTL DEF LockedSpec

\* Under the lock no two nodes ever serve one data directory.
THEOREM MutualExclusion == LockedSpec => []AtMostOneNode
<1>1. ServingIsNamed => AtMostOneNode
  BY DEF ServingIsNamed, AtMostOneNode
<1> QED BY ServerIsNamed, <1>1, PTL
=============================================================================
