--------------------------------- MODULE Daemon ---------------------------------
(***************************************************************************)
(* The command line that starts and stops the server in the background      *)
(* (cli.py): a pid file, a launch-nonce file, and process groups whose       *)
(* numbers the system uses again.  A group is [kind, nonce, leader, child,   *)
(* shows, listens, born]: "ours" when launched here, "server" for a whooshd   *)
(* server started otherwise, "other" for anything else; shows tells whether  *)
(* a reloader child's command line looks like the server's.                  *)
(***************************************************************************)
EXTENDS Naturals, FiniteSets

CONSTANTS
    Pgids,          \* process group numbers
    Terminals,      \* where commands run, each one command at a time
    MaxBorn,        \* bound: process groups ever started
    MaxInterrupts   \* bound: commands interrupted

NoPid == 0
NoNonce == 0
Vacant == [kind |-> "none", nonce |-> NoNonce, leader |-> FALSE, child |-> FALSE, shows |-> FALSE, listens |-> FALSE, born |-> 0]
AtPrompt == [pc |-> "prompt", op |-> "none", pid |-> NoPid, nonce |-> NoNonce, saw |-> Vacant]

ASSUME DaemonAssumption == NoPid \notin Pgids /\ MaxBorn \in Nat /\ MaxInterrupts \in Nat

VARIABLES
    group,          \* the process group of each number
    pidFile,        \* whooshd.pid
    nonceFile,      \* whooshd.launch-nonce
    terminal,       \* the command each terminal runs
    born,           \* process groups started so far
    interrupts,     \* commands interrupted so far
    signalled,      \* ghost: the group last signalled, the one verified before that,
                    \* and the recorded daemon, if it was alive
    launched        \* ghost: the group of the last start that recorded itself

dmnVars == <<group, pidFile, nonceFile, terminal, born, interrupts, signalled, launched>>

------------------------------------------------------------------------------
IsProcessAlive(pid) == group[pid].leader
IsProcessGroupAlive(pid) == group[pid].leader \/ group[pid].child

\* A member of the group whose command is the server's.
ShowsServer(g) == g.kind \in {"ours", "server"} /\ (g.leader \/ (g.child /\ g.shows))

ProcessMatchesLaunchNonce(pid, nonce) ==
    nonce # NoNonce /\ ShowsServer(group[pid]) /\ group[pid].nonce = nonce

ProcessMatchesLegacyDaemon(pid) == ShowsServer(group[pid])

\* Faulty variant: any live process under the number is taken for the daemon.
ProcessMatchesAny(pid) == IsProcessGroupAlive(pid)

ProcessMatchesTrackedDaemon(pid) ==
    \/ ProcessMatchesLaunchNonce(pid, nonceFile)
    \/ nonceFile = NoNonce /\ ProcessMatchesLegacyDaemon(pid)

\* Faulty variant: a leader that is gone makes the record stale.
StaleLeader(pid) == ~IsProcessAlive(pid)

Stale(pid) == ~IsProcessAlive(pid) /\ ~IsProcessGroupAlive(pid)

IsPortOccupied == \E p \in Pgids : group[p].listens

------------------------------------------------------------------------------
DmnTypeOK ==
    /\ \A p \in Pgids : /\ group[p].kind \in {"none", "ours", "server", "other"}
                        /\ group[p].born \in 0..MaxBorn
                        /\ (group[p] = Vacant) = ~IsProcessGroupAlive(p)
    /\ pidFile \in Pgids \cup {NoPid} /\ nonceFile \in 0..MaxBorn
    /\ born \in 0..MaxBorn /\ interrupts \in 0..MaxInterrupts
    /\ Cardinality({p \in Pgids : group[p].listens}) <= 1

DmnInit ==
    /\ group = [p \in Pgids |-> Vacant] /\ pidFile = NoPid /\ nonceFile = NoNonce
    /\ terminal = [t \in Terminals |-> AtPrompt] /\ born = 0 /\ interrupts = 0
    /\ signalled = [to |-> Vacant, saw |-> Vacant, daemon |-> Vacant] /\ launched = Vacant

Goes(t, pc) == terminal' = [terminal EXCEPT ![t].pc = pc]
Returns0(t) == terminal' = [terminal EXCEPT ![t] = AtPrompt]

\* start_server up to the port test: nothing tracked, a live daemon (or a stranger
\* under its number: refused), or a stale record to clear first.
Up(t) ==
    /\ terminal[t] = AtPrompt
    /\ \/ pidFile = NoPid /\ terminal' = [terminal EXCEPT ![t].op = "up", ![t].pc = "port"]
       \/ pidFile # NoPid /\ Stale(pidFile) /\ terminal' = [terminal EXCEPT ![t].op = "up", ![t].pc = "clear_pid"]
    /\ UNCHANGED <<group, pidFile, nonceFile, born, interrupts, signalled, launched>>

\* clear_tracked_pid removes the one file, then the other.
ClearPid(t) ==
    /\ terminal[t].pc = "clear_pid" /\ pidFile' = NoPid /\ Goes(t, "clear_nonce")
    /\ UNCHANGED <<group, nonceFile, born, interrupts, signalled, launched>>

ClearNonce(t) ==
    /\ terminal[t].pc = "clear_nonce" /\ nonceFile' = NoNonce
    /\ IF terminal[t].op = "up" THEN Goes(t, "port") ELSE Returns0(t)
    /\ UNCHANGED <<group, pidFile, born, interrupts, signalled, launched>>

PortTaken(t) ==
    /\ terminal[t].pc = "port" /\ IsPortOccupied /\ Returns0(t)
    /\ UNCHANGED <<group, pidFile, nonceFile, born, interrupts, signalled, launched>>

\* launch_server: a new session under a free number, carrying a new nonce.
LaunchServer(t, p) ==
    /\ terminal[t].pc = "port" /\ ~IsPortOccupied /\ group[p] = Vacant /\ born < MaxBorn
    /\ born' = born + 1
    /\ \E reload, shows \in BOOLEAN :
          /\ shows => reload
          /\ group' = [group EXCEPT ![p] = [kind |-> "ours", nonce |-> born', leader |-> TRUE, child |-> reload,
                                            shows |-> shows, listens |-> FALSE, born |-> born']]
    /\ terminal' = [terminal EXCEPT ![t].pc = "write_pid", ![t].pid = p, ![t].nonce = born', ![t].saw = group'[p]]
    /\ UNCHANGED <<pidFile, nonceFile, interrupts, signalled, launched>>

WriteTrackedPid(t) ==
    /\ terminal[t].pc = "write_pid" /\ pidFile' = terminal[t].pid /\ Goes(t, "write_nonce")
    /\ UNCHANGED <<group, nonceFile, born, interrupts, signalled, launched>>

\* After that start_server only waits for the server to answer.
WriteLaunchNonce(t) ==
    /\ terminal[t].pc = "write_nonce" /\ nonceFile' = terminal[t].nonce
    /\ launched' = terminal[t].saw /\ Returns0(t)
    /\ UNCHANGED <<group, pidFile, born, interrupts, signalled>>

------------------------------------------------------------------------------
\* stop_server: a stale record is cleared, a live group is looked at.
Down(t) ==
    /\ terminal[t] = AtPrompt /\ pidFile # NoPid
    /\ terminal' = [terminal EXCEPT ![t].op = "down", ![t].pid = pidFile,
                                    ![t].pc = IF Stale(pidFile) THEN "clear_pid" ELSE "verify"]
    /\ UNCHANGED <<group, pidFile, nonceFile, born, interrupts, signalled, launched>>

\* process_matches_tracked_daemon asks pgrep and ps: it finds the daemon under the
\* number it was given as the last ps saw it, or the stop is refused.
Verifies(t) ==
    /\ terminal[t].pc = "verify"
    /\ IF ProcessMatchesTrackedDaemon(terminal[t].pid)
       THEN terminal' = [terminal EXCEPT ![t].pc = "term", ![t].saw = group[terminal[t].pid]]
       ELSE Returns0(t)
    /\ UNCHANGED <<group, pidFile, nonceFile, born, interrupts, signalled, launched>>

\* signal_process_group: whoever has the number now, or nobody (ProcessLookupError).
SignalProcessGroup(t) ==
    LET recorded == launched # Vacant /\ \E p \in Pgids : group[p].born = launched.born
    IN  signalled' = IF ~IsProcessGroupAlive(terminal[t].pid) THEN signalled
                     ELSE [to |-> group[terminal[t].pid], saw |-> terminal[t].saw,
                           daemon |-> IF recorded THEN launched ELSE Vacant]

\* SIGTERM, in a step of its own: the number may have changed hands since.
Terminates(t) ==
    /\ terminal[t].pc = "term" /\ SignalProcessGroup(t) /\ Goes(t, "wait")
    /\ UNCHANGED <<group, pidFile, nonceFile, born, interrupts, launched>>

\* wait_for_process_group_exit looks only at the number.
SeesExit(t) ==
    /\ terminal[t].pc \in {"wait", "wait_kill"} /\ ~IsProcessGroupAlive(terminal[t].pid) /\ Goes(t, "clear_pid")
    /\ UNCHANGED <<group, pidFile, nonceFile, born, interrupts, signalled, launched>>

\* The wait is over and the group still there: the files stay, unless --force.
GivesUp(t) ==
    /\ terminal[t].pc \in {"wait", "wait_kill"} /\ IsProcessGroupAlive(terminal[t].pid) /\ Returns0(t)
    /\ UNCHANGED <<group, pidFile, nonceFile, born, interrupts, signalled, launched>>

\* SIGKILL, which nothing verifies again.
Forces(t) ==
    /\ terminal[t].pc = "wait" /\ IsProcessGroupAlive(terminal[t].pid) /\ Goes(t, "wait_kill")
    /\ SignalProcessGroup(t)
    /\ group' = [group EXCEPT ![terminal[t].pid] = Vacant]
    /\ UNCHANGED <<pidFile, nonceFile, born, interrupts, launched>>

\* The terminal is closed or the command interrupted, between any two steps.
InterruptCommand(t) ==
    /\ terminal[t] # AtPrompt /\ interrupts < MaxInterrupts /\ interrupts' = interrupts + 1 /\ Returns0(t)
    /\ UNCHANGED <<group, pidFile, nonceFile, born, signalled, launched>>

------------------------------------------------------------------------------
(* The system around the commands.                                          *)

Settled(g) == IF g.leader \/ g.child THEN g ELSE Vacant

LeaderExits(p) ==
    /\ group[p].leader /\ group' = [group EXCEPT ![p] = Settled([@ EXCEPT !.leader = FALSE])]
    /\ UNCHANGED <<pidFile, nonceFile, terminal, born, interrupts, signalled, launched>>

ChildExits(p) ==
    /\ group[p].child /\ group' = [group EXCEPT ![p] = Settled([@ EXCEPT !.child = FALSE])]
    /\ UNCHANGED <<pidFile, nonceFile, terminal, born, interrupts, signalled, launched>>

Listens(p) ==
    /\ group[p].kind \in {"ours", "server"} /\ ~IsPortOccupied
    /\ group' = [group EXCEPT ![p].listens = TRUE]
    /\ UNCHANGED <<pidFile, nonceFile, terminal, born, interrupts, signalled, launched>>

\* A free number goes to another program or to a server started by hand.
NumberReused(p, kind) ==
    /\ group[p] = Vacant /\ born < MaxBorn /\ born' = born + 1
    /\ group' = [group EXCEPT ![p] = [Vacant EXCEPT !.kind = kind, !.leader = TRUE, !.born = born']]
    /\ UNCHANGED <<pidFile, nonceFile, terminal, interrupts, signalled, launched>>

DmnNext ==
    \/ \E t \in Terminals :
          \/ Up(t) \/ ClearPid(t) \/ ClearNonce(t) \/ PortTaken(t) \/ WriteTrackedPid(t) \/ WriteLaunchNonce(t)
          \/ Down(t) \/ Verifies(t) \/ Terminates(t) \/ SeesExit(t) \/ GivesUp(t) \/ Forces(t) \/ InterruptCommand(t)
          \/ \E p \in Pgids : LaunchServer(t, p)
    \/ \E p \in Pgids :
          \/ LeaderExits(p) \/ ChildExits(p) \/ Listens(p)
          \/ \E kind \in {"server", "other"} : NumberReused(p, kind)

DmnSpec == DmnInit /\ [][DmnNext]_dmnVars

------------------------------------------------------------------------------
\* While the daemon a start recorded is alive, a stop signals it and nothing else, by
\* SIGTERM and SIGKILL alike, whatever the files went through.  Otherwise a stop may
\* hit another program, though what it verified was a whooshd server: that program
\* then got the number between the check and the signal.  (One command at a time.)
StopsAimAtTheDaemon ==
    /\ signalled.daemon # Vacant => signalled.to.born = signalled.daemon.born
    /\ signalled.saw.kind # "other"
    /\ signalled.to.kind = "other" => signalled.to.born > signalled.saw.born

\* A daemon whose start recorded it stays under control as long as any process of
\* its group lives: both files keep naming it, whatever starts and stops follow, are
\* refused or are interrupted half way.  (One command at a time: no file is locked.)
LaunchedStaysTracked ==
    \A p \in Pgids :
        group[p].born = launched.born /\ launched # Vacant =>
            pidFile = p /\ nonceFile = group[p].nonce
================================================================================
