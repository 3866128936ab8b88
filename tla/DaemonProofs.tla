------------------------------ MODULE DaemonProofs ------------------------------
(***************************************************************************)
(* Theorems about Daemon for every set of process group numbers and        *)
(* terminals: whom a stop may signal, and that a recorded daemon stays      *)
(* under control.                                                          *)
(***************************************************************************)
EXTENDS Daemon, TLAPS

GroupRec ==
    [kind : {"none", "ours", "server", "other"}, nonce : Nat, leader : BOOLEAN,
     child : BOOLEAN, shows : BOOLEAN, listens : BOOLEAN, born : Nat]

CommandPCs ==
    {"prompt", "clear_pid", "clear_nonce", "port", "write_pid", "write_nonce", "verify", "term",
     "wait", "wait_kill"}

\* Where a command knows a number.
HasNumber == {"write_pid", "write_nonce", "verify", "term", "wait", "wait_kill"}

CommandRec ==
    [pc : CommandPCs, op : {"none", "up", "down"}, pid : Pgids \cup {NoPid}, nonce : Nat,
     saw : GroupRec]

(***************************************************************************)
(* The inductive invariant                                                 *)
(*                                                                         *)
(* A command acts on what it saw earlier under a number that may have      *)
(* changed hands.  What ties the two together is the birth of a group: no  *)
(* two live groups share one, a later group has a later one, and a group   *)
(* keeps its kind and its nonce for life.                                  *)
(***************************************************************************)
Types ==
    /\ group \in [Pgids -> GroupRec]
    /\ terminal \in [Terminals -> CommandRec]
    /\ pidFile \in Pgids \cup {NoPid} /\ nonceFile \in Nat
    /\ born \in Nat /\ interrupts \in Nat
    /\ launched \in GroupRec
    /\ \A t \in Terminals : terminal[t].pc \in HasNumber => terminal[t].pid \in Pgids

Births ==
    /\ \A p \in Pgids : IF group[p] = Vacant THEN ~IsProcessGroupAlive(p)
                        ELSE IsProcessGroupAlive(p) /\ group[p].born \in 1..born
    /\ \A p, q \in Pgids :
         group[p] # Vacant /\ group[p].born = group[q].born => p = q
    /\ launched # Vacant => launched.born \in 1..born

\* Once a stop has verified a group, that was a whooshd server, whatever group still has
\* its birth is of that kind, and a group that took over the number came later.
Verified(t) ==
    terminal[t].pc \in {"term", "wait"} =>
      /\ terminal[t].saw.kind \in {"ours", "server"} /\ terminal[t].saw.born \in 1..born
      /\ \A p \in Pgids : group[p].born = terminal[t].saw.born => group[p].kind = terminal[t].saw.kind
      /\ \/ group[terminal[t].pid] = Vacant
         \/ group[terminal[t].pid].born >= terminal[t].saw.born

\* While a start records the group it launched, that group has its number and nonce.
Recording(t) ==
    terminal[t].pc \in {"write_pid", "write_nonce"} =>
      /\ terminal[t].saw.born \in 1..born
      /\ \A p \in Pgids : group[p].born = terminal[t].saw.born
                            => p = terminal[t].pid /\ group[p].nonce = terminal[t].nonce

GroupInv == Types /\ Births /\ (\A t \in Terminals : Verified(t) /\ Recording(t))

(***************************************************************************)
(* What a step does to the process groups                                  *)
(***************************************************************************)
\* Groups end or live on as what they were.
GroupsFade ==
    /\ born' = born
    /\ group' \in [Pgids -> GroupRec]
    /\ \A p \in Pgids :
         \/ group'[p] = Vacant
         \/ /\ group[p] # Vacant /\ group'[p] # Vacant
            /\ group'[p].leader \/ group'[p].child
            /\ group'[p].kind = group[p].kind /\ group'[p].nonce = group[p].nonce
            /\ group'[p].born = group[p].born

\* One group is started under a free number.
GroupStarts(p) ==
    /\ group[p] = Vacant /\ born' = born + 1
    /\ group' \in [Pgids -> GroupRec]
    /\ group'[p].leader /\ group'[p] # Vacant /\ group'[p].born = born'
    /\ \A q \in Pgids \ {p} : group'[q] = group[q]

\* A vacant number is not alive, and every record the model builds is a group.
LEMMA VacantFacts ==
    /\ Vacant \in GroupRec /\ AtPrompt \in CommandRec
    /\ ~Vacant.leader /\ ~Vacant.child /\ Vacant.born = 0 /\ Vacant.kind = "none"
  BY DEF Vacant, GroupRec, AtPrompt, CommandRec, CommandPCs, NoNonce, NoPid

\* Every step starts one group, or lets groups end or live on as what they were.
LEMMA GroupStep ==
    ASSUME Types, Births, [DmnNext]_dmnVars
    PROVE  GroupsFade \/ \E p \in Pgids : GroupStarts(p)
  <1> USE VacantFacts
  <1> DEFINE Same == group' = group /\ born' = born
  <1>1. Same => GroupsFade
    BY DEF Types, Births, GroupsFade, IsProcessGroupAlive
  <1>2. ASSUME NEW p \in Pgids, born' = born, NEW g \in GroupRec,
               group' = [group EXCEPT ![p] = g],
               \/ g = Vacant
               \/ /\ group[p] # Vacant /\ (g.leader \/ g.child)
                  /\ g.kind = group[p].kind /\ g.nonce = group[p].nonce /\ g.born = group[p].born
        PROVE  GroupsFade
    <2>1. group' \in [Pgids -> GroupRec] /\ group'[p] = g
            /\ \A q \in Pgids \ {p} : group'[q] = group[q]
      BY <1>2 DEF Types
    <2>2. g # Vacant => g.leader \/ g.child
      BY <1>2
    <2>3. \A q \in Pgids \ {p} : group[q] = Vacant \/ group[q].leader \/ group[q].child
      BY DEF Births, IsProcessGroupAlive
    <2>4. ASSUME NEW q \in Pgids
          PROVE  \/ group'[q] = Vacant
                 \/ /\ group[q] # Vacant /\ group'[q] # Vacant
                    /\ group'[q].leader \/ group'[q].child
                    /\ group'[q].kind = group[q].kind /\ group'[q].nonce = group[q].nonce
                    /\ group'[q].born = group[q].born
      <3>1. CASE q = p
        BY <1>2, <2>1, <2>2, <3>1
      <3>2. CASE q # p
        BY <2>1, <2>3, <3>2
      <3> QED BY <3>1, <3>2
    <2> QED BY <1>2, <2>1, <2>4 DEF GroupsFade
  <1>3. ASSUME NEW p \in Pgids, born' = born + 1, group[p] = Vacant, NEW g \in GroupRec,
               group' = [group EXCEPT ![p] = g], g.leader, g.born = born'
        PROVE  GroupStarts(p)
    BY <1>3 DEF Types, GroupStarts
  <1>4. ASSUME NEW t \in Terminals,
               \/ Up(t) \/ ClearPid(t) \/ ClearNonce(t) \/ PortTaken(t) \/ WriteTrackedPid(t)
               \/ WriteLaunchNonce(t) \/ Down(t) \/ Verifies(t) \/ Terminates(t) \/ SeesExit(t)
               \/ GivesUp(t) \/ InterruptCommand(t)
        PROVE  Same
    BY <1>4 DEF Up, ClearPid, ClearNonce, PortTaken, WriteTrackedPid, WriteLaunchNonce, Down,
       Verifies, Terminates, SeesExit, GivesUp, InterruptCommand
  <1>5. ASSUME NEW t \in Terminals, Forces(t) PROVE GroupsFade
    <2>1. terminal[t].pid \in Pgids
      BY <1>5 DEF Forces, Types, HasNumber
    <2> QED BY <1>2, <1>5, <2>1 DEF Forces
  <1>6. ASSUME NEW t \in Terminals, NEW p \in Pgids, LaunchServer(t, p) PROVE GroupStarts(p)
    <2>1. PICK reload \in BOOLEAN, shows \in BOOLEAN :
            group' = [group EXCEPT ![p] = [kind |-> "ours", nonce |-> born', leader |-> TRUE,
                        child |-> reload, shows |-> shows, listens |-> FALSE, born |-> born']]
      BY <1>6 DEF LaunchServer
    <2>2. born' = born + 1 /\ born' \in Nat /\ group[p] = Vacant
      BY <1>6 DEF LaunchServer, Types
    <2> DEFINE g == [kind |-> "ours", nonce |-> born', leader |-> TRUE, child |-> reload,
                     shows |-> shows, listens |-> FALSE, born |-> born']
    <2>3. g \in GroupRec /\ g.leader /\ g.born = born'
      BY <2>2 DEF GroupRec
    <2> QED BY <1>3, <2>1, <2>2, <2>3
  <1>7. ASSUME NEW p \in Pgids, LeaderExits(p) PROVE GroupsFade
    <2> DEFINE g == Settled([group[p] EXCEPT !.leader = FALSE])
    <2>1. g \in GroupRec /\ (g = Vacant \/ (g.child /\ g.kind = group[p].kind
            /\ g.nonce = group[p].nonce /\ g.born = group[p].born))
      BY DEF Types, GroupRec, Settled
    <2>2. group[p] # Vacant /\ born' = born /\ group' = [group EXCEPT ![p] = g]
      BY <1>7 DEF LeaderExits
    <2> HIDE DEF g
    <2> QED BY <1>2, <2>1, <2>2
  <1>8. ASSUME NEW p \in Pgids, ChildExits(p) PROVE GroupsFade
    <2> DEFINE g == Settled([group[p] EXCEPT !.child = FALSE])
    <2>1. g \in GroupRec /\ (g = Vacant \/ (g.leader /\ g.kind = group[p].kind
            /\ g.nonce = group[p].nonce /\ g.born = group[p].born))
      BY DEF Types, GroupRec, Settled
    <2>2. group[p] # Vacant /\ born' = born /\ group' = [group EXCEPT ![p] = g]
      BY <1>8 DEF ChildExits
    <2> HIDE DEF g
    <2> QED BY <1>2, <2>1, <2>2
  <1>9. ASSUME NEW p \in Pgids, Listens(p) PROVE GroupsFade
    <2> DEFINE g == [group[p] EXCEPT !.listens = TRUE]
    <2>1. group[p] # Vacant /\ born' = born /\ group' = [group EXCEPT ![p] = g]
      BY <1>9 DEF Listens
    <2>2. group[p].leader \/ group[p].child
      BY <2>1 DEF Births, IsProcessGroupAlive
    <2>3. g \in GroupRec /\ (g.leader \/ g.child) /\ g.kind = group[p].kind
            /\ g.nonce = group[p].nonce /\ g.born = group[p].born
      BY <2>2 DEF Types, GroupRec
    <2> HIDE DEF g
    <2> QED BY <1>2, <2>1, <2>3
  <1>10. ASSUME NEW p \in Pgids, NEW kind \in {"server", "other"}, NumberReused(p, kind)
         PROVE  GroupStarts(p)
    <2> DEFINE g == [Vacant EXCEPT !.kind = kind, !.leader = TRUE, !.born = born']
    <2>1. born' = born + 1 /\ born' \in Nat /\ group[p] = Vacant
            /\ group' = [group EXCEPT ![p] = g]
      BY <1>10 DEF NumberReused, Types
    <2>2. g \in GroupRec /\ g.leader /\ g.born = born'
      BY <2>1 DEF GroupRec, Vacant, NoNonce
    <2> HIDE DEF g
    <2> QED BY <1>3, <2>1, <2>2
  <1>11. CASE UNCHANGED dmnVars
    BY <1>1, <1>11 DEF dmnVars
  <1> QED BY <1>1, <1>4, <1>5, <1>6, <1>7, <1>8, <1>9, <1>10, <1>11 DEF DmnNext

\* A group that has a birth after the step had it before, with its kind and nonce.
LEMMA BirthKept ==
    ASSUME Types, Births, [DmnNext]_dmnVars, NEW b \in 1..born, NEW p \in Pgids, group'[p].born = b
    PROVE  /\ group[p].born = b /\ group[p] # Vacant
           /\ group'[p].kind = group[p].kind /\ group'[p].nonce = group[p].nonce
  <1>1. b \in Nat /\ b > 0 /\ b <= born /\ born \in Nat
    BY DEF Types
  <1>2. CASE GroupsFade
    BY <1>1, <1>2, VacantFacts DEF GroupsFade
  <1>3. ASSUME NEW q \in Pgids, GroupStarts(q) PROVE group'[p] = group[p]
    BY <1>1, <1>3 DEF GroupStarts
  <1> QED BY <1>1, <1>2, <1>3, GroupStep, VacantFacts

\* The group under a number is followed only by later ones.
LEMMA NumberAges ==
    ASSUME Types, Births, [DmnNext]_dmnVars, NEW b \in 1..born, NEW p \in Pgids,
           group[p] = Vacant \/ group[p].born >= b
    PROVE  group'[p] = Vacant \/ group'[p].born >= b
  <1>1. b \in Nat /\ b <= born /\ born \in Nat
    BY DEF Types
  <1>2. CASE GroupsFade
    BY <1>2 DEF GroupsFade
  <1>3. ASSUME NEW q \in Pgids, GroupStarts(q) PROVE group'[p] = Vacant \/ group'[p].born >= b
    BY <1>1, <1>3 DEF GroupStarts
  <1> QED BY <1>2, <1>3, GroupStep

\* Births only grow.
LEMMA BornGrows ==
    ASSUME Types, Births, [DmnNext]_dmnVars
    PROVE  born' \in Nat /\ born <= born' /\ 1..born \subseteq 1..born'
  <1>1. born' = born \/ born' = born + 1
    BY GroupStep DEF GroupsFade, GroupStarts
  <1> QED BY <1>1 DEF Types

\* Every step keeps the types.
LEMMA TypesStep ==
    ASSUME Types, Births, [DmnNext]_dmnVars
    PROVE  Types'
  <1> DEFINE TermOK == /\ terminal' \in [Terminals -> CommandRec]
                       /\ \A u \in Terminals : terminal'[u].pc \in HasNumber => terminal'[u].pid \in Pgids
  <1> DEFINE FilesOK == /\ pidFile' \in Pgids \cup {NoPid} /\ nonceFile' \in Nat
                        /\ interrupts' \in Nat /\ launched' \in GroupRec
  <1>1. group' \in [Pgids -> GroupRec] /\ born' \in Nat
    BY GroupStep DEF Types, GroupsFade, GroupStarts
  <1> SUFFICES TermOK /\ FilesOK
    BY <1>1 DEF Types
  <1> USE DEF Types, CommandRec, CommandPCs, HasNumber
  <1>2. ASSUME NEW t \in Terminals, Up(t) PROVE TermOK /\ FilesOK
    BY <1>2 DEF Up, AtPrompt
  <1>3. ASSUME NEW t \in Terminals, ClearPid(t) PROVE TermOK /\ FilesOK
    BY <1>3 DEF ClearPid, Goes
  <1>4. ASSUME NEW t \in Terminals, ClearNonce(t) PROVE TermOK /\ FilesOK
    BY <1>4, VacantFacts DEF ClearNonce, Goes, Returns0, AtPrompt, NoNonce
  <1>5. ASSUME NEW t \in Terminals, PortTaken(t) PROVE TermOK /\ FilesOK
    BY <1>5, VacantFacts DEF PortTaken, Returns0, AtPrompt
  <1>6. ASSUME NEW t \in Terminals, NEW p \in Pgids, LaunchServer(t, p) PROVE TermOK /\ FilesOK
    <2>1. group'[p] \in GroupRec
      BY <1>1
    <2>2. terminal' = [terminal EXCEPT ![t].pc = "write_pid", ![t].pid = p,
                                       ![t].nonce = born', ![t].saw = group'[p]]
      BY <1>6 DEF LaunchServer
    <2> DEFINE cmd == [terminal[t] EXCEPT !.pc = "write_pid", !.pid = p, !.nonce = born',
                                          !.saw = group'[p]]
    <2>3. cmd \in CommandRec /\ cmd.pid = p
      BY <1>1, <2>1
    <2>4. terminal'[t] = cmd /\ terminal' = [terminal EXCEPT ![t] = cmd]
      BY <2>2
    <2> HIDE DEF cmd
    <2>5. terminal' \in [Terminals -> CommandRec] /\ \A u \in Terminals \ {t} : terminal'[u] = terminal[u]
      BY <2>3, <2>4
    <2> QED BY <1>6, <2>3, <2>4, <2>5 DEF LaunchServer
  <1>7. ASSUME NEW t \in Terminals, WriteTrackedPid(t) PROVE TermOK /\ FilesOK
    BY <1>7 DEF WriteTrackedPid, Goes
  <1>8. ASSUME NEW t \in Terminals, WriteLaunchNonce(t) PROVE TermOK /\ FilesOK
    BY <1>8, VacantFacts DEF WriteLaunchNonce, Returns0, AtPrompt
  <1>9. ASSUME NEW t \in Terminals, Down(t) PROVE TermOK /\ FilesOK
    <2>1. pidFile \in Pgids
      BY <1>9 DEF Down
    <2> QED BY <1>9, <2>1 DEF Down, AtPrompt
  <1>9a. ASSUME NEW t \in Terminals, Verifies(t) PROVE TermOK /\ FilesOK
    <2>1. group[terminal[t].pid] \in GroupRec
      BY <1>9a DEF Verifies
    <2> QED BY <1>9a, <2>1, VacantFacts DEF Verifies, Returns0, AtPrompt
  <1>9b. ASSUME NEW t \in Terminals, Terminates(t) PROVE TermOK /\ FilesOK
    BY <1>9b DEF Terminates, Goes
  <1>10. ASSUME NEW t \in Terminals, SeesExit(t) PROVE TermOK /\ FilesOK
    BY <1>10 DEF SeesExit, Goes
  <1>11. ASSUME NEW t \in Terminals, GivesUp(t) PROVE TermOK /\ FilesOK
    BY <1>11, VacantFacts DEF GivesUp, Returns0, AtPrompt
  <1>12. ASSUME NEW t \in Terminals, Forces(t) PROVE TermOK /\ FilesOK
    BY <1>12 DEF Forces, Goes
  <1>13. ASSUME NEW t \in Terminals, InterruptCommand(t) PROVE TermOK /\ FilesOK
    BY <1>13, VacantFacts DEF InterruptCommand, Returns0, AtPrompt
  <1>14. ASSUME NEW p \in Pgids, LeaderExits(p) \/ ChildExits(p) \/ Listens(p)
                \/ NumberReused(p, "server") \/ NumberReused(p, "other")
         PROVE  TermOK /\ FilesOK
    BY <1>14 DEF LeaderExits, ChildExits, Listens, NumberReused
  <1>15. CASE UNCHANGED dmnVars
    BY <1>15 DEF dmnVars
  <1> QED BY <1>2, <1>3, <1>4, <1>5, <1>6, <1>7, <1>8, <1>9, <1>9a, <1>9b, <1>10, <1>11, <1>12,
             <1>13, <1>14, <1>15 DEF DmnNext

\* Every step keeps births unique and in order.
LEMMA BirthsStep ==
    ASSUME GroupInv, [DmnNext]_dmnVars
    PROVE  Births'
  <1> USE VacantFacts DEF GroupInv
  <1>1. Types' /\ born' \in Nat /\ born <= born' /\ 1..born \subseteq 1..born'
    BY TypesStep, BornGrows
  <1>2. \A p \in Pgids : group[p] = Vacant \/ (group[p].born \in 1..born
                                               /\ (group[p].leader \/ group[p].child))
    BY DEF Births, IsProcessGroupAlive
  <1>3. ASSUME NEW p \in Pgids, group'[p] # Vacant
        PROVE  (group'[p].leader \/ group'[p].child) /\ group'[p].born \in 1..born'
    <2>1. CASE GroupsFade
      BY <1>2, <1>3, <2>1 DEF GroupsFade
    <2>2. ASSUME NEW q \in Pgids, GroupStarts(q) 
          PROVE  (group'[p].leader \/ group'[p].child) /\ group'[p].born \in 1..born'
      <3>1. CASE p = q
        BY <1>1, <2>2, <3>1 DEF GroupStarts, Types
      <3>2. CASE p # q
        BY <1>1, <1>2, <1>3, <2>2, <3>2 DEF GroupStarts
      <3> QED BY <3>1, <3>2
    <2> QED BY <2>1, <2>2, GroupStep
  <1>4. ASSUME NEW p \in Pgids, NEW q \in Pgids, group'[p] # Vacant,
               group'[p].born = group'[q].born
        PROVE  p = q
    <2>1. group'[p].born \in 1..born' /\ group'[q] # Vacant
      BY <1>3, <1>4
    <2>2. CASE group'[p].born \in 1..born
      <3>1. group[p].born = group'[p].born /\ group[p] # Vacant /\ group[q].born = group'[q].born
        BY <1>4, <2>2, BirthKept
      <3> QED BY <1>4, <3>1 DEF Births
    <2>3. CASE group'[p].born \notin 1..born
      <3>1. PICK s \in Pgids : GroupStarts(s)
        <4>1. ~GroupsFade
          BY <2>1, <2>3 DEF GroupsFade
        <4> QED BY <4>1, GroupStep
      <3>2. \A u \in Pgids \ {s} : group'[u] = Vacant \/ group'[u].born \in 1..born
        BY <1>2, <3>1 DEF GroupStarts
      <3> QED BY <1>4, <2>1, <2>3, <3>2
    <2> QED BY <2>2, <2>3
  <1>5. launched' # Vacant => launched'.born \in 1..born'
    <2>1. launched' = launched
           \/ \E t \in Terminals : terminal[t].pc = "write_nonce" /\ launched' = terminal[t].saw
      BY ZenonT(60) DEF DmnNext, dmnVars, Up, ClearPid, ClearNonce, PortTaken, LaunchServer, WriteTrackedPid,
         WriteLaunchNonce, Down, Verifies, Terminates, SeesExit, GivesUp, Forces, InterruptCommand,
         LeaderExits, ChildExits, Listens, NumberReused
    <2> QED BY SMTT(40), <1>1, <2>1 DEF Births, Recording
  <1> QED BY <1>3, <1>4, <1>5 DEF Births, IsProcessGroupAlive

\* What a command has seen stays true of the groups it saw until it acts on it.
LEMMA SightsStep ==
    ASSUME GroupInv, [DmnNext]_dmnVars
    PROVE  \A t \in Terminals : Verified(t)' /\ Recording(t)'
  <1> USE VacantFacts DEF GroupInv
  <1>1. Types' /\ born' \in Nat /\ 1..born \subseteq 1..born'
    BY TypesStep, BornGrows
  <1>2. ASSUME NEW t \in Terminals,
               terminal'[t].pc \in {"term", "wait"} => terminal[t].pc \in {"term", "wait"},
               terminal'[t].saw = terminal[t].saw, terminal'[t].pid = terminal[t].pid
        PROVE  Verified(t)'
    <2> SUFFICES ASSUME terminal'[t].pc \in {"term", "wait"}, terminal[t].pc \in {"term", "wait"}
                 PROVE  Verified(t)'
      BY <1>2 DEF Verified
    <2>1. terminal[t].pid \in Pgids /\ terminal[t].saw.born \in 1..born
      BY DEF Types, HasNumber, Verified
    <2>2. group'[terminal[t].pid] = Vacant \/ group'[terminal[t].pid].born >= terminal[t].saw.born
      BY <2>1, NumberAges DEF Verified
    <2> QED BY <1>1, <1>2, <2>1, <2>2, BirthKept DEF Verified
  <1>3. ASSUME NEW t \in Terminals,
               terminal'[t].pc \in {"write_pid", "write_nonce"}
                 => terminal[t].pc \in {"write_pid", "write_nonce"},
               terminal'[t].saw = terminal[t].saw, terminal'[t].pid = terminal[t].pid,
               terminal'[t].nonce = terminal[t].nonce
        PROVE  Recording(t)'
    BY <1>1, <1>3, BirthKept DEF Recording
  <1>4. ASSUME NEW t \in Terminals, terminal'[t] = terminal[t] PROVE Verified(t)' /\ Recording(t)'
    BY <1>2, <1>3, <1>4
  <1>5. ASSUME NEW t \in Terminals, terminal'[t] = AtPrompt PROVE Verified(t)' /\ Recording(t)'
    BY <1>5 DEF Verified, Recording, AtPrompt
  <1>6. ASSUME NEW t \in Terminals, NEW c \in CommandPCs, Goes(t, c),
               c \in {"clear_pid", "clear_nonce", "port", "wait_kill"}
                 \/ (c = "write_nonce" /\ terminal[t].pc = "write_pid")
                 \/ (c = "wait" /\ terminal[t].pc = "term")
        PROVE  \A u \in Terminals : Verified(u)' /\ Recording(u)'
    <2>1. terminal'[t].pc = c /\ terminal'[t].saw = terminal[t].saw
            /\ terminal'[t].pid = terminal[t].pid /\ terminal'[t].nonce = terminal[t].nonce
      BY <1>6 DEF Goes, Types, CommandRec
    <2>2. \A u \in Terminals \ {t} : terminal'[u] = terminal[u]
      BY <1>6 DEF Goes, Types
    <2> QED BY <1>2, <1>3, <1>4, <1>6, <2>1, <2>2
  <1>7. ASSUME NEW t \in Terminals, Returns0(t)
        PROVE  \A u \in Terminals : Verified(u)' /\ Recording(u)'
    <2>1. \A u \in Terminals : terminal'[u] = terminal[u] \/ terminal'[u] = AtPrompt
      BY <1>7 DEF Returns0, Types
    <2> QED BY <1>4, <1>5, <2>1
  <1>8. ASSUME terminal' = terminal
        PROVE  \A u \in Terminals : Verified(u)' /\ Recording(u)'
    BY <1>4, <1>8
  <1> DEFINE Goal == \A u \in Terminals : Verified(u)' /\ Recording(u)'
  <1>9. ASSUME NEW t \in Terminals, Up(t) PROVE Goal
    <2>1. \A u \in Terminals \ {t} : terminal'[u] = terminal[u]
      BY <1>9 DEF Up, Types
    <2>2. terminal'[t].pc \in {"port", "clear_pid"}
      BY <1>9 DEF Up, Types, CommandRec
    <2>3. Verified(t)' /\ Recording(t)'
      BY <2>2 DEF Verified, Recording
    <2> QED BY <1>4, <2>1, <2>3
  <1>10. ASSUME NEW t \in Terminals, NEW p \in Pgids, LaunchServer(t, p) PROVE Goal
    <2>1. \A u \in Terminals \ {t} : terminal'[u] = terminal[u]
      BY <1>10 DEF LaunchServer, Types
    <2>2. /\ terminal'[t].pc = "write_pid" /\ terminal'[t].saw = group'[p]
          /\ terminal'[t].pid = p /\ terminal'[t].nonce = born'
      BY <1>10 DEF LaunchServer, Types, CommandRec
    <2>3. group'[p].born = born' /\ group'[p].nonce = born' /\ group'[p].leader
      BY <1>10 DEF LaunchServer, Types
    <2>4. group'[p] # Vacant /\ born' \in 1..born'
      BY <1>10, <2>3 DEF LaunchServer, Types
    <2>5. Births'
      BY BirthsStep
    <2>6. \A q \in Pgids : group'[q].born = group'[p].born => p = q
      BY <2>4, <2>5 DEF Births
    <2>7. Recording(t)'
      BY <2>2, <2>3, <2>4, <2>6 DEF Recording
    <2>8. Verified(t)'
      BY <2>2 DEF Verified
    <2> QED BY <1>4, <2>1, <2>7, <2>8
  <1>11. ASSUME NEW t \in Terminals, Down(t) PROVE Goal
    <2>1. \A u \in Terminals \ {t} : terminal'[u] = terminal[u]
      BY <1>11 DEF Down, Types
    <2>2. terminal'[t].pc \in {"clear_pid", "verify"}
      BY <1>11 DEF Down, Types, CommandRec
    <2>3. Verified(t)' /\ Recording(t)'
      BY <2>2 DEF Verified, Recording
    <2> QED BY <1>4, <2>1, <2>3
  <1>11a. ASSUME NEW t \in Terminals, Verifies(t) PROVE Goal
    <2>1. CASE Returns0(t)
      BY <1>7, <2>1
    <2>2. CASE ~Returns0(t)
      <3> DEFINE p == terminal[t].pid
      <3>1. p \in Pgids /\ group' = group /\ born' = born /\ ProcessMatchesTrackedDaemon(p)
              /\ terminal' = [terminal EXCEPT ![t].pc = "term", ![t].saw = group[p]]
        BY <1>11a, <2>2 DEF Verifies, Types, HasNumber
      <3>2. /\ terminal'[t].pc = "term" /\ terminal'[t].saw = group[p] /\ terminal'[t].pid = p
            /\ \A u \in Terminals \ {t} : terminal'[u] = terminal[u]
        BY <3>1 DEF Types, CommandRec
      <3>3. group[p].kind \in {"ours", "server"}
        BY <3>1 DEF ProcessMatchesTrackedDaemon, ProcessMatchesLaunchNonce,
           ProcessMatchesLegacyDaemon, ShowsServer
      <3> HIDE DEF p
      <3>4. group[p] # Vacant
        BY <3>3
      <3>5. group[p].born \in 1..born /\ group[p].born >= group[p].born
        BY <3>1, <3>4 DEF Births
      <3>6. \A q \in Pgids : group[q].born = group[p].born => q = p
        BY <3>1, <3>4 DEF Births
      <3>7. Verified(t)'
        BY <3>1, <3>2, <3>3, <3>5, <3>6 DEF Verified
      <3>8. Recording(t)'
        BY <3>2 DEF Recording
      <3> QED BY <1>4, <3>2, <3>7, <3>8
    <2> QED BY <2>1, <2>2
  <1>12. ASSUME NEW t \in Terminals,
                \/ ClearPid(t) \/ ClearNonce(t) \/ PortTaken(t) \/ WriteTrackedPid(t)
                \/ WriteLaunchNonce(t) \/ Terminates(t) \/ SeesExit(t) \/ GivesUp(t) \/ Forces(t)
                \/ InterruptCommand(t)
         PROVE  Goal
    BY <1>6, <1>7, <1>12 DEF CommandPCs, ClearPid, ClearNonce, PortTaken, WriteTrackedPid,
       WriteLaunchNonce, Terminates, SeesExit, GivesUp, Forces, InterruptCommand
  <1>13. ASSUME NEW p \in Pgids, LeaderExits(p) \/ ChildExits(p) \/ Listens(p)
                \/ NumberReused(p, "server") \/ NumberReused(p, "other")
         PROVE  Goal
    BY <1>8, <1>13 DEF LeaderExits, ChildExits, Listens, NumberReused
  <1>14. CASE UNCHANGED dmnVars
    BY <1>8, <1>14 DEF dmnVars
  <1> QED BY <1>9, <1>10, <1>11, <1>11a, <1>12, <1>13, <1>14 DEF DmnNext

\* Groups, commands and births agree in every state the command line reaches.
THEOREM GroupInvariant == DmnSpec => []GroupInv
  <1>1. DmnInit => GroupInv
    BY VacantFacts, DaemonAssumption
       DEF DmnInit, GroupInv, Types, Births, Verified, Recording, IsProcessGroupAlive, AtPrompt,
           NoNonce, NoPid, HasNumber
  <1>2. GroupInv /\ [DmnNext]_dmnVars => GroupInv'
    BY TypesStep, BirthsStep, SightsStep DEF GroupInv
  <1> QED BY <1>1, <1>2, PTL DEF DmnSpec

(***************************************************************************)
(* One command at a time                                                   *)
(***************************************************************************)
\* The group of the last recorded start, where it still lives.
IsLaunched(p) == launched # Vacant /\ group[p].born = launched.born

\* A command that is about to touch the files knows that the recorded daemon is
\* gone, and one that stops a group has the number the file names.
FilesInv ==
    \A t \in Terminals :
      /\ terminal[t].pc \in {"clear_pid", "clear_nonce", "port", "write_pid", "write_nonce"}
           => \A p \in Pgids : ~IsLaunched(p)
      /\ terminal[t].pc \in HasNumber \ {"write_pid"} => terminal[t].pid = pidFile

TrackInv == FilesInv /\ LaunchedStaysTracked

OneTerminal == \A s, t \in Terminals : s = t

\* A recorded group that is there after a step was there before, with its nonce.
LEMMA LaunchedKept ==
    ASSUME GroupInv, [DmnNext]_dmnVars, launched' = launched, NEW p \in Pgids, IsLaunched(p)'
    PROVE  IsLaunched(p) /\ group[p] # Vacant /\ group'[p].nonce = group[p].nonce
  <1>1. launched # Vacant /\ launched.born \in 1..born /\ group'[p].born = launched.born
    BY DEF IsLaunched, GroupInv, Births
  <1> QED BY <1>1, BirthKept DEF IsLaunched, GroupInv

\* With one command at a time, every step keeps the files naming the recorded daemon.
LEMMA TrackStep ==
    ASSUME OneTerminal, GroupInv, TrackInv, [DmnNext]_dmnVars
    PROVE  TrackInv'
  <1> USE VacantFacts DEF GroupInv, TrackInv
  <1> DEFINE Gone == \A p \in Pgids : ~IsLaunched(p)
  <1>1. ASSUME launched' = launched, Gone PROVE Gone' /\ LaunchedStaysTracked'
    BY <1>1, LaunchedKept DEF LaunchedStaysTracked, IsLaunched
  <1>2. ASSUME launched' = launched, pidFile' = pidFile, nonceFile' = nonceFile
        PROVE  LaunchedStaysTracked'
    BY <1>2, LaunchedKept DEF LaunchedStaysTracked, IsLaunched
  <1>3. ASSUME NEW p \in Pgids, pidFile = p, group[p] = Vacant PROVE Gone
    BY <1>3 DEF LaunchedStaysTracked, IsLaunched, GroupInv, Births
  <1>4. pidFile = NoPid => Gone
    BY DaemonAssumption DEF LaunchedStaysTracked, IsLaunched
  <1>5. \A p \in Pgids : Stale(p) <=> group[p] = Vacant
    BY DEF Stale, IsProcessAlive, IsProcessGroupAlive, Births
  <1>6. ASSUME NEW t \in Terminals, terminal' \in [Terminals -> CommandRec],
               terminal'[t].pc \in {"clear_pid", "clear_nonce", "port", "write_pid"}, Gone'
        PROVE  FilesInv'
    BY <1>6 DEF FilesInv, OneTerminal, HasNumber
  <1>7. ASSUME NEW t \in Terminals, Returns0(t) PROVE FilesInv'
    BY <1>7 DEF Returns0, AtPrompt, FilesInv, OneTerminal, Types, HasNumber
  <1>8. Types'
    BY TypesStep
  <1>9. ASSUME NEW t \in Terminals, Up(t) PROVE TrackInv'
    <2>1. Gone
      BY <1>3, <1>4, <1>5, <1>9 DEF Up, Types
    <2>2. terminal'[t].pc \in {"port", "clear_pid"} /\ launched' = launched
      BY <1>9 DEF Up, Types, CommandRec
    <2> QED BY <1>1, <1>6, <1>8, <2>1, <2>2 DEF Types
  <1>10. ASSUME NEW t \in Terminals, ClearPid(t) PROVE TrackInv'
    <2>1. Gone /\ terminal'[t].pc = "clear_nonce" /\ launched' = launched
      BY <1>10 DEF ClearPid, Goes, FilesInv, Types, CommandRec
    <2> QED BY <1>1, <1>6, <1>8, <2>1 DEF Types
  <1>11. ASSUME NEW t \in Terminals, ClearNonce(t) PROVE TrackInv'
    <2>1. Gone /\ launched' = launched
      BY <1>11 DEF ClearNonce, FilesInv
    <2>2. terminal'[t].pc = "port" \/ Returns0(t)
      BY <1>11 DEF ClearNonce, Goes, Types, CommandRec
    <2> QED BY <1>1, <1>6, <1>7, <1>8, <2>1, <2>2 DEF Types
  <1>12. ASSUME NEW t \in Terminals, PortTaken(t) \/ GivesUp(t) \/ InterruptCommand(t) PROVE TrackInv'
    BY <1>2, <1>7, <1>12 DEF PortTaken, GivesUp, InterruptCommand
  <1>13. ASSUME NEW t \in Terminals, NEW p \in Pgids, LaunchServer(t, p) PROVE TrackInv'
    <2>1. Gone /\ launched' = launched
      BY <1>13 DEF LaunchServer, FilesInv
    <2>2. terminal'[t].pc = "write_pid"
      BY <1>13 DEF LaunchServer, Types, CommandRec
    <2> QED BY <1>1, <1>6, <1>8, <2>1, <2>2 DEF Types
  <1>14. ASSUME NEW t \in Terminals, WriteTrackedPid(t) PROVE TrackInv'
    <2>1. Gone /\ launched' = launched
      BY <1>14 DEF WriteTrackedPid, FilesInv
    <2>2. terminal'[t].pc = "write_nonce" /\ terminal'[t].pid = pidFile'
      BY <1>14 DEF WriteTrackedPid, Goes, Types, CommandRec
    <2>3. Gone' /\ LaunchedStaysTracked'
      BY <1>1, <2>1
    <2>4. FilesInv'
      BY <2>2, <2>3 DEF FilesInv, OneTerminal
    <2> QED BY <2>3, <2>4
  <1>15. ASSUME NEW t \in Terminals, WriteLaunchNonce(t) PROVE TrackInv'
    <2>1. /\ group' = group /\ pidFile' = pidFile /\ nonceFile' = terminal[t].nonce
          /\ launched' = terminal[t].saw /\ terminal[t].pc = "write_nonce" /\ Returns0(t)
      BY <1>15 DEF WriteLaunchNonce
    <2>2. /\ terminal[t].pid = pidFile
          /\ \A p \in Pgids : group[p].born = terminal[t].saw.born
                                => p = terminal[t].pid /\ group[p].nonce = terminal[t].nonce
      BY <2>1 DEF FilesInv, Recording, HasNumber
    <2> QED BY <1>7, <2>1, <2>2 DEF LaunchedStaysTracked
  <1>16. ASSUME NEW t \in Terminals, Down(t) PROVE TrackInv'
    <2>1. pidFile \in Pgids /\ pidFile' = pidFile /\ nonceFile' = nonceFile /\ launched' = launched
      BY <1>16 DEF Down, Types
    <2>2. CASE Stale(pidFile)
      <3>1. terminal'[t].pc = "clear_pid"
        BY <1>16, <2>2 DEF Down, Types, CommandRec
      <3> QED BY <1>1, <1>3, <1>5, <1>6, <1>8, <2>1, <2>2, <3>1 DEF Types
    <2>3. CASE ~Stale(pidFile)
      <3>1. terminal'[t].pc = "verify" /\ terminal'[t].pid = pidFile'
        BY <1>16, <2>1, <2>3 DEF Down, Types, CommandRec
      <3>2. FilesInv'
        BY <3>1 DEF FilesInv, OneTerminal
      <3> QED BY <1>2, <2>1, <3>2
    <2> QED BY <2>2, <2>3
  <1>16a. ASSUME NEW t \in Terminals, Verifies(t) \/ Terminates(t) PROVE TrackInv'
    <2>1. pidFile' = pidFile /\ nonceFile' = nonceFile /\ launched' = launched /\ terminal[t].pid = pidFile
      BY <1>16a DEF Verifies, Terminates, FilesInv, HasNumber
    <2>2. \/ Returns0(t)
          \/ terminal'[t].pc \in {"term", "wait"} /\ terminal'[t].pid = pidFile'
      BY <1>16a, <2>1 DEF Verifies, Terminates, Goes, Types, CommandRec
    <2>3. terminal'[t].pc \in {"term", "wait"} /\ terminal'[t].pid = pidFile' => FilesInv'
      BY DEF FilesInv, OneTerminal
    <2> QED BY <1>2, <1>7, <2>1, <2>2, <2>3
  <1>17. ASSUME NEW t \in Terminals, SeesExit(t) PROVE TrackInv'
    <2>1. terminal[t].pid = pidFile /\ pidFile \in Pgids /\ launched' = launched
      BY <1>17 DEF SeesExit, FilesInv, Types, HasNumber
    <2>2. group[pidFile] = Vacant
      BY <1>17, <2>1 DEF SeesExit, Births
    <2>3. terminal'[t].pc = "clear_pid"
      BY <1>17 DEF SeesExit, Goes, Types, CommandRec
    <2> QED BY <1>1, <1>3, <1>6, <1>8, <2>1, <2>2, <2>3 DEF Types
  <1>18. ASSUME NEW t \in Terminals, Forces(t) PROVE TrackInv'
    <2>1. pidFile' = pidFile /\ nonceFile' = nonceFile /\ launched' = launched
      BY <1>18 DEF Forces
    <2>2. terminal'[t].pc = "wait_kill" /\ terminal'[t].pid = pidFile'
      BY <1>18, <2>1 DEF Forces, Goes, FilesInv, Types, CommandRec, HasNumber
    <2>3. FilesInv'
      BY <2>2 DEF FilesInv, OneTerminal
    <2> QED BY <1>2, <2>1, <2>3
  <1>19. ASSUME UNCHANGED <<pidFile, nonceFile, terminal, launched>> PROVE TrackInv'
    <2>1. Gone => Gone'
      BY <1>1, <1>19
    <2> QED BY <1>2, <1>19, <2>1 DEF FilesInv
  <1>20. ASSUME NEW p \in Pgids, LeaderExits(p) \/ ChildExits(p) \/ Listens(p)
                \/ NumberReused(p, "server") \/ NumberReused(p, "other")
         PROVE  TrackInv'
    BY <1>19, <1>20 DEF LeaderExits, ChildExits, Listens, NumberReused
  <1>21. CASE UNCHANGED dmnVars
    BY <1>19, <1>21 DEF dmnVars
  <1> QED BY <1>9, <1>10, <1>11, <1>12, <1>13, <1>14, <1>15, <1>16, <1>16a, <1>17, <1>18, <1>20, <1>21
          DEF DmnNext

\* One command at a time: the files keep naming the recorded daemon.
LEMMA TrackInvariant == ASSUME OneTerminal PROVE DmnSpec => []TrackInv
  <1>1. DmnInit => TrackInv
    BY VacantFacts DEF DmnInit, TrackInv, FilesInv, LaunchedStaysTracked, AtPrompt, HasNumber
  <1>2. GroupInv /\ TrackInv /\ [DmnNext]_dmnVars => TrackInv'
    BY TrackStep
  <1> QED BY <1>1, <1>2, GroupInvariant, PTL DEF DmnSpec

\* A daemon whose start recorded it stays named by both files while any process of
\* its group lives, whatever starts and stops follow, are refused or are interrupted
\* between the writes of start_server and clear_tracked_pid.  The files are not locked,
\* so the theorem is about one terminal.
THEOREM RecordedDaemonStaysTracked ==
    ASSUME OneTerminal PROVE DmnSpec => []LaunchedStaysTracked
  <1>1. TrackInv => LaunchedStaysTracked
    BY DEF TrackInv
  <1> QED BY <1>1, TrackInvariant, PTL

\* A signal to a verified number: it reaches the recorded daemon if that lives, and
\* otherwise what was verified or a group that came later.
LEMMA SignalAims ==
    ASSUME GroupInv, TrackInv, StopsAimAtTheDaemon, NEW t \in Terminals,
           terminal[t].pc \in {"term", "wait"}, SignalProcessGroup(t)
    PROVE  StopsAimAtTheDaemon'
  <1>0. PICK p, saw : p = terminal[t].pid /\ saw = terminal[t].saw
    OBVIOUS
  <1>1. /\ p \in Pgids /\ p = pidFile /\ saw.kind \in {"ours", "server"} /\ saw.born \in 1..born
        /\ \A q \in Pgids : group[q].born = saw.born => group[q].kind = saw.kind
        /\ group[p] = Vacant \/ group[p].born >= saw.born
    BY <1>0 DEF GroupInv, Types, Verified, TrackInv, FilesInv, HasNumber
  <1>2. CASE ~IsProcessGroupAlive(p)
    BY <1>0, <1>2 DEF SignalProcessGroup, StopsAimAtTheDaemon
  <1>3. CASE IsProcessGroupAlive(p)
    <2>1. group[p] # Vacant /\ group[p].born \in Nat /\ saw.born \in Nat
      BY <1>1, <1>3, VacantFacts DEF IsProcessGroupAlive, GroupInv, Types, GroupRec
    <2>2. group[p].kind = "other" => group[p].born > saw.born
      BY <1>1, <2>1
    <2>3. PICK daemon : /\ daemon = Vacant \/ daemon.born = group[p].born
                        /\ signalled' = [to |-> group[p], saw |-> saw, daemon |-> daemon]
      <3>1. launched # Vacant /\ (\E q \in Pgids : group[q].born = launched.born)
              => launched.born = group[p].born
        BY <1>1 DEF TrackInv, LaunchedStaysTracked
      <3> QED BY <1>0, <1>3, <3>1 DEF SignalProcessGroup
    <2> QED BY <1>1, <2>2, <2>3 DEF StopsAimAtTheDaemon
  <1> QED BY <1>2, <1>3

\* While the recorded daemon lives, a stop signals it and nothing else, and what a stop
\* verified was a whooshd server.  A program that is none gets a signal only where it took
\* over the number between the check and SIGTERM, or between SIGTERM and SIGKILL: stop_server
\* does not close that window.
THEOREM StopsAimAtRecordedDaemon ==
    ASSUME OneTerminal PROVE DmnSpec => []StopsAimAtTheDaemon
  <1>1. DmnInit => StopsAimAtTheDaemon
    BY VacantFacts DEF DmnInit, StopsAimAtTheDaemon
  <1>2. GroupInv /\ TrackInv /\ StopsAimAtTheDaemon /\ [DmnNext]_dmnVars => StopsAimAtTheDaemon'
    <2> SUFFICES ASSUME GroupInv, TrackInv, StopsAimAtTheDaemon, [DmnNext]_dmnVars
                 PROVE  StopsAimAtTheDaemon'
      OBVIOUS
    <2>1. ASSUME NEW t \in Terminals, Terminates(t) \/ Forces(t) PROVE StopsAimAtTheDaemon'
      BY <2>1, SignalAims DEF Terminates, Forces
    <2>2. CASE signalled' = signalled
      BY <2>2 DEF StopsAimAtTheDaemon
    <2> QED BY ZenonT(60), <2>1, <2>2 DEF DmnNext, dmnVars, Up, ClearPid, ClearNonce, PortTaken,
               LaunchServer, WriteTrackedPid, WriteLaunchNonce, Down, Verifies, SeesExit, GivesUp,
               InterruptCommand, LeaderExits, ChildExits, Listens, NumberReused
  <1> QED BY <1>1, <1>2, GroupInvariant, TrackInvariant, PTL DEF DmnSpec
===============================================================================
