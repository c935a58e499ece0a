--------------------------- MODULE FileLockProofs ---------------------------
(***************************************************************************)
(* The JSON store lock excludes, for any number of agents, calls, crashes, *)
(* timeouts and failed file-system calls, under the two assumptions its    *)
(* malformed-lock rule needs: a live creator writes its token before       *)
(* STALE_LOCK_MS (PromptCreate), and a generation names one file (not      *)
(* InodeReuse).                                                            *)
(***************************************************************************)
EXTENDS FileLock, TLAPS

(* An agent in the guard precedes every live ticket, and every ticket that *)
(* has been chosen and not yet shown.                                      *)
BakeryOrder ==
  \A a, b \in alive : a # b /\ guard[a] \in InGuard =>
    /\ guard[b] = "picked" => num[a] < num[b]
    /\ guard[b] \in Ticketed => Before(a, b)

(* A generation some call has given to a file: no agent still waiting for  *)
(* the lock in this call has given its own.                                *)
Minted(g) ==
  g = None \/ /\ g[1] \in Agent /\ g[2] <= calls[g[1]]
              /\ At(g[1], "wait") \/ At(g[1], "reap") => g[2] < calls[g[1]]

GenerationsMinted == Minted(lock.gen) /\ \A a \in Agent : Minted(observed[a].gen)

(* Who is in the guard is reaping or releasing.                            *)
GuardUse ==
  \A a \in alive : guard[a] \notin {"no", "leaving"} => pc[a] \in {"reap", "release"}

(* What is held is on the path; who has no lock yet holds nothing.         *)
HolderOnPath ==
  \A a \in alive : /\ pc[a] \in Holding /\ lease[a] # NoFile => Same(lease[a], lock)
                   /\ pc[a] = "release" => lease[a] # NoFile
                   /\ pc[a] \in {"idle", "wait", "reap"} => lease[a] = NoFile

(* What is being created is on the path, empty and young.                  *)
CreatorOnPath ==
  \A a \in alive : pc[a] = "create" =>
    /\ lock.gen # None
    /\ lock.gen = lease[a].gen /\ lock.tok = None /\ ~lock.old
    /\ lease[a] = File(Token(a), Token(a))

(* An observed malformed lock was old, and so is that file if it is there. *)
ObservedOld ==
  \A a \in alive : pc[a] = "reap" /\ observed[a].old /\ lock.tok = None
                     /\ Same(observed[a], lock) => lock.old

(* What is about to be replaced is stale.                                  *)
ReapsStale ==
  \A a \in alive : pc[a] = "reap" /\ guard[a] = "checked" => Stale(a, lock)

(* No generation, no file.                                                 *)
PathShape == lock.gen = None => lock = NoFile

(* Without a best-effort call, who is inside holds the lock, and a         *)
(* mutation starts from the value it will replace.                         *)
StoreInv ==
  ~unlocked => /\ file = commits
               /\ \A a \in alive : /\ pc[a] \in Holding => lease[a] # NoFile
                                   /\ pc[a] = "mutate" => seen[a] = file

(* Each part leans on others: a holder keeps its lock because what is      *)
(* replaced is stale, that stays stale because the bakery excludes.        *)
LockInv ==
  /\ BakeryOrder /\ GuardUse /\ GenerationsMinted /\ HolderOnPath /\ CreatorOnPath
  /\ ObservedOld /\ ReapsStale /\ PathShape /\ StoreInv

-----------------------------------------------------------------------------
(* Type correctness.                                                       *)

(* A lock file an agent may create carries that agent's own token.         *)
LEMMA FilesAreTyped ==
  ASSUME TypeOK, NEW a \in Agent
  PROVE  /\ NoFile \in LeaseFile /\ None \in Nat \X Nat /\ Token(a) \in Nat \X Nat
         /\ Token(a)[1] = a /\ Token(a) # None
         /\ \A g \in FreshGen(a) : /\ File(g, Token(a)) \in LeaseFile
                                   /\ File(g, Token(a)).tok[1] = a
                                   /\ File(g, None) \in LeaseFile
<1>1. a \in Nat \ {0} /\ calls[a] \in Nat
  BY LockAssumption DEF LockAssumption, TypeOK
<1>2. Token(a) \in Nat \X Nat /\ Token(a)[1] = a /\ Token(a) # None /\ None \in Nat \X Nat
  BY <1>1 DEF Token, None
<1>3. \A g \in FreshGen(a) : g \in Nat \X Nat
  BY <1>2 DEF FreshGen, Recycled
<1> QED
  BY <1>2, <1>3 DEF File, NoFile, LeaseFile

(* Every variable keeps its type, whatever the bounds, and no agent ever   *)
(* holds or abandons another's lease (the FileLockLease of atomic-json.ts).*)
THEOREM TypeCorrect == Spec => []TypeOK
<1>1. Init => TypeOK
  <2> SUFFICES ASSUME Init PROVE TypeOK
    OBVIOUS
  <2>1. NoFile \in LeaseFile
    BY DEF NoFile, File, None, LeaseFile
  <2> QED
    BY <2>1 DEF Init, TypeOK, Holding, Choosing, Ticketed
<1>2. TypeOK /\ [Next]_vars => TypeOK'
  <2> SUFFICES ASSUME TypeOK, [Next]_vars PROVE TypeOK'
    OBVIOUS
  <2> USE DEF TypeOK, Holding, Choosing, Ticketed, guardVars, dataVars, marks
  <2>1. ASSUME NEW a \in Agent, Call(a) PROVE TypeOK'
    BY <2>1, FilesAreTyped DEF Call, At, Goto
  <2>2. ASSUME NEW a \in Agent, Open(a) PROVE TypeOK'
    <3>1. PICK g \in FreshGen(a) : /\ lock' = File(g, None)
                                   /\ lease' = [lease EXCEPT ![a] = File(g, Token(a))]
      BY <2>2 DEF Open
    <3> QED
      BY <2>2, <3>1, FilesAreTyped DEF Open, At, Goto
  <2>3. ASSUME NEW a \in Agent, WriteToken(a) PROVE TypeOK'
    BY <2>3, FilesAreTyped DEF WriteToken, At, Goto
  <2>4. ASSUME NEW a \in Agent, WriteTokenFails(a) PROVE TypeOK'
    BY <2>4, FilesAreTyped DEF WriteTokenFails, At, Goto, Fault
  <2>5. ASSUME NEW a \in Agent, Observe(a) PROVE TypeOK'
    BY <2>5, FilesAreTyped DEF Observe, At, Goto
  <2>6. ASSUME NEW a \in Agent, GiveUp(a) PROVE TypeOK'
    <3>0. faults' \in Nat
      BY <2>6 DEF GiveUp, Fault
    <3>1. unlocked' \in BOOLEAN
      <4>1. CASE a \in BestEffort
        BY <2>6, <4>1, Zenon DEF GiveUp
      <4>2. CASE a \notin BestEffort
        BY <2>6, <4>2, Zenon DEF GiveUp
      <4> QED
        BY <4>1, <4>2
    <3>2. pc' \in [Agent -> {"idle", "wait", "create", "reap"} \cup Holding]
      BY <2>6 DEF GiveUp, Goto
    <3> QED
      BY <2>6, <3>0, <3>1, <3>2 DEF GiveUp
  <2>7. ASSUME NEW a \in Agent, Choose(a) PROVE TypeOK'
    BY <2>7, FilesAreTyped DEF Choose, Guard
  <2>8. ASSUME NEW a \in Agent, Pick(a) PROVE TypeOK'
    BY <2>8, FilesAreTyped, LockAssumption DEF Pick, Guard, LockAssumption
  <2>9. ASSUME NEW a \in Agent, TakeTicket(a) PROVE TypeOK'
    BY <2>9, FilesAreTyped DEF TakeTicket, Guard
  <2>10. ASSUME NEW a \in Agent, Unchoose(a) PROVE TypeOK'
    BY <2>10, FilesAreTyped DEF Unchoose, Guard
  <2>11. ASSUME NEW a \in Agent, Enter(a) PROVE TypeOK'
    BY <2>11, FilesAreTyped DEF Enter, Guard
  <2>12. ASSUME NEW a \in Agent, Yield(a) PROVE TypeOK'
    BY <2>12, FilesAreTyped DEF Yield, Guard, Goto
  <2>13. ASSUME NEW a \in Agent, MarkerFails(a) PROVE TypeOK'
    BY <2>13, FilesAreTyped DEF MarkerFails, Guard, Goto, Fault
  <2>14. ASSUME NEW a \in Agent, Leave(a) PROVE TypeOK'
    BY <2>14, FilesAreTyped DEF Leave, Guard
  <2>15. ASSUME NEW a \in Agent, Revalidate(a) PROVE TypeOK'
    BY <2>15, FilesAreTyped DEF Revalidate, At, Guard
  <2>16. ASSUME NEW a \in Agent, RevalidateFails(a) PROVE TypeOK'
    BY <2>16, FilesAreTyped DEF RevalidateFails, At, Guard, Goto
  <2>17. ASSUME NEW a \in Agent, Replace(a) PROVE TypeOK'
    <3>1. PICK g \in FreshGen(a) : /\ lock' = File(g, Token(a))
                                   /\ lease' = [lease EXCEPT ![a] = File(g, Token(a))]
      BY <2>17 DEF Replace
    <3> QED
      BY <2>17, <3>1, FilesAreTyped DEF Replace, At, Guard, Goto
  <2>18. ASSUME NEW a \in Agent, ReplaceFails(a) PROVE TypeOK'
    BY <2>18, FilesAreTyped DEF ReplaceFails, At, Guard, Goto, Fault
  <2>19. ASSUME NEW a \in Agent, Read(a) PROVE TypeOK'
    BY <2>19, FilesAreTyped DEF Read, At, Goto
  <2>20. ASSUME NEW a \in Agent, Write(a) PROVE TypeOK'
    BY <2>20, FilesAreTyped DEF Write, At, Goto
  <2>21. ASSUME NEW a \in Agent, Return(a) PROVE TypeOK'
    BY <2>21, FilesAreTyped DEF Return, At, Goto
  <2>22. ASSUME NEW a \in Agent, Release(a) PROVE TypeOK'
    BY <2>22, FilesAreTyped DEF Release, At, Goto
  <2>23. ASSUME NEW a \in Agent, ReleaseGivenUp(a) PROVE TypeOK'
    BY <2>23, FilesAreTyped DEF ReleaseGivenUp, At, Guard, Goto, Fault
  <2>24. ASSUME NEW a \in Agent, CheckOwn(a) PROVE TypeOK'
    BY <2>24, FilesAreTyped DEF CheckOwn, At, Guard, Goto
  <2>25. ASSUME NEW a \in Agent, Unlink(a) PROVE TypeOK'
    BY <2>25, FilesAreTyped DEF Unlink, At, Guard, Goto
  <2>26. ASSUME NEW a \in Agent, UnlinkFails(a) PROVE TypeOK'
    BY <2>26, FilesAreTyped DEF UnlinkFails, At, Guard, Goto, Fault
  <2>27. ASSUME NEW a \in Agent, Crash(a) PROVE TypeOK'
    BY <2>27, FilesAreTyped DEF Crash, Guard, Goto, Fault
  <2>28. CASE Age
    BY <2>28 DEF Age, LeaseFile
  <2>29. CASE UNCHANGED vars
    BY <2>29 DEF vars
  <2> QED
    BY <2>1, <2>2, <2>3, <2>4, <2>5, <2>6, <2>7, <2>8, <2>9, <2>10, <2>11, <2>12, <2>13,
       <2>14, <2>15, <2>16, <2>17, <2>18, <2>19, <2>20, <2>21, <2>22, <2>23, <2>24,
       <2>25, <2>26, <2>27, <2>28, <2>29 DEF Next, Run, Trouble
<1> QED
  BY <1>1, <1>2, PTL DEF Spec

-----------------------------------------------------------------------------
(* The deletion guard.                                                     *)

(* Every step keeps the bakery's order: a ticket is picked above all live  *)
(* ones, and nobody enters past a chooser or an earlier ticket.            *)
LEMMA BakeryKept ==
  ASSUME TypeOK, BakeryOrder, [Next]_vars
  PROVE  BakeryOrder'
<1> USE DEF InGuard, Choosing, Ticketed
<1> SUFFICES ASSUME NEW a \in alive', NEW b \in alive', a # b, guard'[a] \in InGuard
             PROVE  /\ guard'[b] = "picked" => num'[a] < num'[b]
                    /\ guard'[b] \in Ticketed => Before(a, b)'
  BY DEF BakeryOrder
<1> DEFINE Kept == /\ guard'[b] = "picked" => num'[a] < num'[b]
                   /\ guard'[b] \in Ticketed => Before(a, b)'
<1>0. Agent \subseteq Nat
  BY LockAssumption DEF LockAssumption
<1>1. ASSUME NEW c \in Agent, Choose(c) PROVE Kept
  BY <1>0, <1>1 DEF TypeOK, BakeryOrder, Before, Choose, Guard
<1>2. ASSUME NEW c \in Agent, Pick(c) PROVE Kept
  BY <1>0, <1>2 DEF TypeOK, BakeryOrder, Before, Pick, Guard, Follows
<1>3. ASSUME NEW c \in Agent, TakeTicket(c) PROVE Kept
  BY <1>0, <1>3 DEF TypeOK, BakeryOrder, Before, TakeTicket, Guard
<1>4. ASSUME NEW c \in Agent, Unchoose(c) PROVE Kept
  BY <1>0, <1>4 DEF TypeOK, BakeryOrder, Before, Unchoose, Guard
<1>5. ASSUME NEW c \in Agent, Enter(c) PROVE Kept
  BY <1>0, <1>5 DEF TypeOK, BakeryOrder, Before, Enter, Guard, Blocked
<1>6. ASSUME NEW c \in Agent, Yield(c) PROVE Kept
  BY <1>0, <1>6 DEF TypeOK, BakeryOrder, Before, Yield, Guard, Goto
<1>7. ASSUME NEW c \in Agent, MarkerFails(c) PROVE Kept
  BY <1>0, <1>7 DEF TypeOK, BakeryOrder, Before, MarkerFails, Guard, Goto
<1>8. ASSUME NEW c \in Agent, Leave(c) PROVE Kept
  BY <1>0, <1>8 DEF TypeOK, BakeryOrder, Before, Leave, Guard
<1>9. ASSUME NEW c \in Agent, Revalidate(c) PROVE Kept
  BY <1>0, <1>9 DEF TypeOK, BakeryOrder, Before, Revalidate, At, Guard
<1>10. ASSUME NEW c \in Agent, RevalidateFails(c) PROVE Kept
  BY <1>0, <1>10 DEF TypeOK, BakeryOrder, Before, RevalidateFails, At, Guard, Goto
<1>11. ASSUME NEW c \in Agent, Replace(c) PROVE Kept
  BY <1>0, <1>11 DEF TypeOK, BakeryOrder, Before, Replace, At, Guard, Goto
<1>12. ASSUME NEW c \in Agent, ReplaceFails(c) PROVE Kept
  BY <1>0, <1>12 DEF TypeOK, BakeryOrder, Before, ReplaceFails, At, Guard, Goto
<1>13. ASSUME NEW c \in Agent, ReleaseGivenUp(c) PROVE Kept
  BY <1>0, <1>13 DEF TypeOK, BakeryOrder, Before, ReleaseGivenUp, At, Guard, Goto
<1>14. ASSUME NEW c \in Agent, CheckOwn(c) PROVE Kept
  BY <1>0, <1>14 DEF TypeOK, BakeryOrder, Before, CheckOwn, At, Guard, Goto
<1>15. ASSUME NEW c \in Agent, Unlink(c) PROVE Kept
  BY <1>0, <1>15 DEF TypeOK, BakeryOrder, Before, Unlink, At, Guard, Goto
<1>16. ASSUME NEW c \in Agent, UnlinkFails(c) PROVE Kept
  BY <1>0, <1>16 DEF TypeOK, BakeryOrder, Before, UnlinkFails, At, Guard, Goto
<1>17. ASSUME NEW c \in Agent, Crash(c) PROVE Kept
  BY <1>0, <1>17 DEF TypeOK, BakeryOrder, Before, Crash, Guard, Goto
<1>18. CASE UNCHANGED <<alive, guard, num>>
  BY <1>0, <1>18 DEF TypeOK, BakeryOrder, Before
<1> QED
  BY <1>1, <1>2, <1>3, <1>4, <1>5, <1>6, <1>7, <1>8, <1>9, <1>10, <1>11, <1>12, <1>13,
     <1>14, <1>15, <1>16, <1>17, <1>18 DEF Next, Run, Trouble, Age, vars, guardVars,
     Call, Open, WriteToken, WriteTokenFails, Observe, GiveUp, Read, Write, Return,
     Release

(* The guard is entered to reap or to release, and left with that.         *)
LEMMA GuardUseKept ==
  ASSUME TypeOK, GuardUse, [Next]_vars
  PROVE  GuardUse'
<1>1. ASSUME NEW c \in Agent, Call(c) PROVE GuardUse'
  BY <1>1 DEF TypeOK, GuardUse, guardVars, At, Call, At, Goto
<1>2. ASSUME NEW c \in Agent, Open(c) PROVE GuardUse'
  BY <1>2 DEF TypeOK, GuardUse, guardVars, At, Open, At, Goto
<1>3. ASSUME NEW c \in Agent, WriteToken(c) PROVE GuardUse'
  BY <1>3 DEF TypeOK, GuardUse, guardVars, At, WriteToken, At, Goto
<1>4. ASSUME NEW c \in Agent, WriteTokenFails(c) PROVE GuardUse'
  BY <1>4 DEF TypeOK, GuardUse, guardVars, At, WriteTokenFails, At, Goto
<1>5. ASSUME NEW c \in Agent, Observe(c) PROVE GuardUse'
  BY <1>5 DEF TypeOK, GuardUse, guardVars, At, Observe, At, Goto
<1>6. ASSUME NEW c \in Agent, GiveUp(c) PROVE GuardUse'
  BY <1>6 DEF TypeOK, GuardUse, guardVars, At, GiveUp, At, Goto
<1>7. ASSUME NEW c \in Agent, Choose(c) PROVE GuardUse'
  BY <1>7 DEF TypeOK, GuardUse, guardVars, At, Choose, Guard
<1>8. ASSUME NEW c \in Agent, Pick(c) PROVE GuardUse'
  BY <1>8 DEF TypeOK, GuardUse, guardVars, At, Pick, Guard
<1>9. ASSUME NEW c \in Agent, TakeTicket(c) PROVE GuardUse'
  BY <1>9 DEF TypeOK, GuardUse, guardVars, At, TakeTicket, Guard
<1>10. ASSUME NEW c \in Agent, Unchoose(c) PROVE GuardUse'
  BY <1>10 DEF TypeOK, GuardUse, guardVars, At, Unchoose, Guard
<1>11. ASSUME NEW c \in Agent, Enter(c) PROVE GuardUse'
  BY <1>11 DEF TypeOK, GuardUse, guardVars, At, Enter, Guard
<1>12. ASSUME NEW c \in Agent, Yield(c) PROVE GuardUse'
  BY <1>12 DEF TypeOK, GuardUse, guardVars, At, Yield, Guard, Goto
<1>13. ASSUME NEW c \in Agent, MarkerFails(c) PROVE GuardUse'
  BY <1>13 DEF TypeOK, GuardUse, guardVars, At, MarkerFails, Guard, Goto
<1>14. ASSUME NEW c \in Agent, Leave(c) PROVE GuardUse'
  BY <1>14 DEF TypeOK, GuardUse, guardVars, At, Leave, Guard
<1>15. ASSUME NEW c \in Agent, Revalidate(c) PROVE GuardUse'
  BY <1>15 DEF TypeOK, GuardUse, guardVars, At, Revalidate, At, Guard
<1>16. ASSUME NEW c \in Agent, RevalidateFails(c) PROVE GuardUse'
  BY <1>16 DEF TypeOK, GuardUse, guardVars, At, RevalidateFails, At, Guard, Goto
<1>17. ASSUME NEW c \in Agent, Replace(c) PROVE GuardUse'
  BY <1>17 DEF TypeOK, GuardUse, guardVars, At, Replace, At, Guard, Goto
<1>18. ASSUME NEW c \in Agent, ReplaceFails(c) PROVE GuardUse'
  BY <1>18 DEF TypeOK, GuardUse, guardVars, At, ReplaceFails, At, Guard, Goto
<1>19. ASSUME NEW c \in Agent, Read(c) PROVE GuardUse'
  BY <1>19 DEF TypeOK, GuardUse, guardVars, At, Read, At, Goto
<1>20. ASSUME NEW c \in Agent, Write(c) PROVE GuardUse'
  BY <1>20 DEF TypeOK, GuardUse, guardVars, At, Write, At, Goto
<1>21. ASSUME NEW c \in Agent, Return(c) PROVE GuardUse'
  BY <1>21 DEF TypeOK, GuardUse, guardVars, At, Return, At, Goto
<1>22. ASSUME NEW c \in Agent, Release(c) PROVE GuardUse'
  BY <1>22 DEF TypeOK, GuardUse, guardVars, At, Release, At, Goto
<1>23. ASSUME NEW c \in Agent, ReleaseGivenUp(c) PROVE GuardUse'
  BY <1>23 DEF TypeOK, GuardUse, guardVars, At, ReleaseGivenUp, At, Guard, Goto
<1>24. ASSUME NEW c \in Agent, CheckOwn(c) PROVE GuardUse'
  BY <1>24 DEF TypeOK, GuardUse, guardVars, At, CheckOwn, At, Guard, Goto
<1>25. ASSUME NEW c \in Agent, Unlink(c) PROVE GuardUse'
  BY <1>25 DEF TypeOK, GuardUse, guardVars, At, Unlink, At, Guard, Goto
<1>26. ASSUME NEW c \in Agent, UnlinkFails(c) PROVE GuardUse'
  BY <1>26 DEF TypeOK, GuardUse, guardVars, At, UnlinkFails, At, Guard, Goto
<1>27. ASSUME NEW c \in Agent, Crash(c) PROVE GuardUse'
  BY <1>27 DEF TypeOK, GuardUse, guardVars, At, Crash, Guard, Goto
<1>28. CASE Age
  BY <1>28 DEF GuardUse, Age, guardVars
<1>29. CASE UNCHANGED <<guard, pc, alive>>
  BY <1>29 DEF TypeOK, GuardUse, guardVars, At
<1> QED
  BY <1>1, <1>2, <1>3, <1>4, <1>5, <1>6, <1>7, <1>8, <1>9, <1>10, <1>11,
     <1>12, <1>13, <1>14, <1>15, <1>16, <1>17, <1>18, <1>19, <1>20, <1>21,
     <1>22, <1>23, <1>24, <1>25, <1>26, <1>27, <1>28, <1>29 DEF Next, Run,
     Trouble, vars, guardVars, dataVars, marks

-----------------------------------------------------------------------------
(* The lock file.                                                          *)

(* Generations are counted by calls: none is given to two files.           *)
LEMMA GenerationsKept ==
  ASSUME TypeOK, CreatorOnPath, GenerationsMinted, ~InodeReuse, [Next]_vars
  PROVE  GenerationsMinted'
<1>1. ASSUME NEW c \in Agent, Call(c) PROVE GenerationsMinted'
  BY <1>1 DEF TypeOK, CreatorOnPath, GenerationsMinted, Minted, At, NoFile, File,
     LeaseFile, FreshGen, Token, Call, At, Goto
<1>2. ASSUME NEW c \in Agent, Open(c) PROVE GenerationsMinted'
  BY <1>2 DEF TypeOK, CreatorOnPath, GenerationsMinted, Minted, At, NoFile, File,
     LeaseFile, FreshGen, Token, Open, At, Goto
<1>3. ASSUME NEW c \in Agent, WriteToken(c) PROVE GenerationsMinted'
  BY <1>3 DEF TypeOK, CreatorOnPath, GenerationsMinted, Minted, At, NoFile, File,
     LeaseFile, FreshGen, Token, WriteToken, At, Goto
<1>4. ASSUME NEW c \in Agent, WriteTokenFails(c) PROVE GenerationsMinted'
  BY <1>4 DEF TypeOK, CreatorOnPath, GenerationsMinted, Minted, At, NoFile, File,
     LeaseFile, FreshGen, Token, WriteTokenFails, At, Goto
<1>5. ASSUME NEW c \in Agent, Observe(c) PROVE GenerationsMinted'
  BY <1>5 DEF TypeOK, CreatorOnPath, GenerationsMinted, Minted, At, NoFile, File,
     LeaseFile, FreshGen, Token, Observe, At, Goto
<1>6. ASSUME NEW c \in Agent, GiveUp(c) PROVE GenerationsMinted'
  BY <1>6 DEF TypeOK, CreatorOnPath, GenerationsMinted, Minted, At, NoFile, File,
     LeaseFile, FreshGen, Token, GiveUp, At, Goto
<1>7. ASSUME NEW c \in Agent, Choose(c) PROVE GenerationsMinted'
  BY <1>7 DEF TypeOK, CreatorOnPath, GenerationsMinted, Minted, At, NoFile, File,
     LeaseFile, FreshGen, Token, Choose, Guard
<1>8. ASSUME NEW c \in Agent, Pick(c) PROVE GenerationsMinted'
  BY <1>8 DEF TypeOK, CreatorOnPath, GenerationsMinted, Minted, At, NoFile, File,
     LeaseFile, FreshGen, Token, Pick, Guard
<1>9. ASSUME NEW c \in Agent, TakeTicket(c) PROVE GenerationsMinted'
  BY <1>9 DEF TypeOK, CreatorOnPath, GenerationsMinted, Minted, At, NoFile, File,
     LeaseFile, FreshGen, Token, TakeTicket, Guard
<1>10. ASSUME NEW c \in Agent, Unchoose(c) PROVE GenerationsMinted'
  BY <1>10 DEF TypeOK, CreatorOnPath, GenerationsMinted, Minted, At, NoFile, File,
     LeaseFile, FreshGen, Token, Unchoose, Guard
<1>11. ASSUME NEW c \in Agent, Enter(c) PROVE GenerationsMinted'
  BY <1>11 DEF TypeOK, CreatorOnPath, GenerationsMinted, Minted, At, NoFile, File,
     LeaseFile, FreshGen, Token, Enter, Guard
<1>12. ASSUME NEW c \in Agent, Yield(c) PROVE GenerationsMinted'
  BY <1>12 DEF TypeOK, CreatorOnPath, GenerationsMinted, Minted, At, NoFile, File,
     LeaseFile, FreshGen, Token, Yield, Guard, Goto
<1>13. ASSUME NEW c \in Agent, MarkerFails(c) PROVE GenerationsMinted'
  BY <1>13 DEF TypeOK, CreatorOnPath, GenerationsMinted, Minted, At, NoFile, File,
     LeaseFile, FreshGen, Token, MarkerFails, Guard, Goto
<1>14. ASSUME NEW c \in Agent, Leave(c) PROVE GenerationsMinted'
  BY <1>14 DEF TypeOK, CreatorOnPath, GenerationsMinted, Minted, At, NoFile, File,
     LeaseFile, FreshGen, Token, Leave, Guard
<1>15. ASSUME NEW c \in Agent, Revalidate(c) PROVE GenerationsMinted'
  BY <1>15 DEF TypeOK, CreatorOnPath, GenerationsMinted, Minted, At, NoFile, File,
     LeaseFile, FreshGen, Token, Revalidate, At, Guard
<1>16. ASSUME NEW c \in Agent, RevalidateFails(c) PROVE GenerationsMinted'
  BY <1>16 DEF TypeOK, CreatorOnPath, GenerationsMinted, Minted, At, NoFile, File,
     LeaseFile, FreshGen, Token, RevalidateFails, At, Guard, Goto
<1>17. ASSUME NEW c \in Agent, Replace(c) PROVE GenerationsMinted'
  BY <1>17 DEF TypeOK, CreatorOnPath, GenerationsMinted, Minted, At, NoFile, File,
     LeaseFile, FreshGen, Token, Replace, At, Guard, Goto
<1>18. ASSUME NEW c \in Agent, ReplaceFails(c) PROVE GenerationsMinted'
  BY <1>18 DEF TypeOK, CreatorOnPath, GenerationsMinted, Minted, At, NoFile, File,
     LeaseFile, FreshGen, Token, ReplaceFails, At, Guard, Goto
<1>19. ASSUME NEW c \in Agent, Read(c) PROVE GenerationsMinted'
  BY <1>19 DEF TypeOK, CreatorOnPath, GenerationsMinted, Minted, At, NoFile, File,
     LeaseFile, FreshGen, Token, Read, At, Goto
<1>20. ASSUME NEW c \in Agent, Write(c) PROVE GenerationsMinted'
  BY <1>20 DEF TypeOK, CreatorOnPath, GenerationsMinted, Minted, At, NoFile, File,
     LeaseFile, FreshGen, Token, Write, At, Goto
<1>21. ASSUME NEW c \in Agent, Return(c) PROVE GenerationsMinted'
  BY <1>21 DEF TypeOK, CreatorOnPath, GenerationsMinted, Minted, At, NoFile, File,
     LeaseFile, FreshGen, Token, Return, At, Goto
<1>22. ASSUME NEW c \in Agent, Release(c) PROVE GenerationsMinted'
  BY <1>22 DEF TypeOK, CreatorOnPath, GenerationsMinted, Minted, At, NoFile, File,
     LeaseFile, FreshGen, Token, Release, At, Goto
<1>23. ASSUME NEW c \in Agent, ReleaseGivenUp(c) PROVE GenerationsMinted'
  BY <1>23 DEF TypeOK, CreatorOnPath, GenerationsMinted, Minted, At, NoFile, File,
     LeaseFile, FreshGen, Token, ReleaseGivenUp, At, Guard, Goto
<1>24. ASSUME NEW c \in Agent, CheckOwn(c) PROVE GenerationsMinted'
  BY <1>24 DEF TypeOK, CreatorOnPath, GenerationsMinted, Minted, At, NoFile, File,
     LeaseFile, FreshGen, Token, CheckOwn, At, Guard, Goto
<1>25. ASSUME NEW c \in Agent, Unlink(c) PROVE GenerationsMinted'
  BY <1>25 DEF TypeOK, CreatorOnPath, GenerationsMinted, Minted, At, NoFile, File,
     LeaseFile, FreshGen, Token, Unlink, At, Guard, Goto
<1>26. ASSUME NEW c \in Agent, UnlinkFails(c) PROVE GenerationsMinted'
  BY <1>26 DEF TypeOK, CreatorOnPath, GenerationsMinted, Minted, At, NoFile, File,
     LeaseFile, FreshGen, Token, UnlinkFails, At, Guard, Goto
<1>27. ASSUME NEW c \in Agent, Crash(c) PROVE GenerationsMinted'
  BY <1>27 DEF TypeOK, CreatorOnPath, GenerationsMinted, Minted, At, NoFile, File,
     LeaseFile, FreshGen, Token, Crash, Guard, Goto
<1>28. CASE Age
  BY <1>28 DEF TypeOK, CreatorOnPath, GenerationsMinted, Minted, At, NoFile, File,
     LeaseFile, FreshGen, Token, Age
<1>29. CASE UNCHANGED <<lock, observed, calls, pc, alive>>
  BY <1>29 DEF TypeOK, CreatorOnPath, GenerationsMinted, Minted, At, NoFile, File,
     LeaseFile, FreshGen, Token
<1> QED
  BY <1>1, <1>2, <1>3, <1>4, <1>5, <1>6, <1>7, <1>8, <1>9, <1>10, <1>11,
     <1>12, <1>13, <1>14, <1>15, <1>16, <1>17, <1>18, <1>19, <1>20, <1>21,
     <1>22, <1>23, <1>24, <1>25, <1>26, <1>27, <1>28, <1>29 DEF Next, Run,
     Trouble, vars, guardVars, dataVars, marks

(* An occupied path has a generation.                                      *)
LEMMA PathKept ==
  ASSUME TypeOK, CreatorOnPath, PathShape, ~InodeReuse, [Next]_vars
  PROVE  PathShape'
<1>0. 0 \notin Agent
  BY LockAssumption DEF LockAssumption
<1>1. ASSUME NEW c \in Agent, Open(c) PROVE PathShape'
  BY <1>0, <1>1 DEF TypeOK, CreatorOnPath, PathShape, At, Same, File, NoFile, None,
     LeaseFile, FreshGen, Token, Open, At, Goto
<1>2. ASSUME NEW c \in Agent, WriteToken(c) PROVE PathShape'
  BY <1>0, <1>2 DEF TypeOK, CreatorOnPath, PathShape, At, Same, File, NoFile, None,
     LeaseFile, FreshGen, Token, WriteToken, At, Goto
<1>3. ASSUME NEW c \in Agent, Replace(c) PROVE PathShape'
  BY <1>0, <1>3 DEF TypeOK, CreatorOnPath, PathShape, At, Same, File, NoFile, None,
     LeaseFile, FreshGen, Token, Replace, At, Guard, Goto
<1>4. ASSUME NEW c \in Agent, ReplaceFails(c) PROVE PathShape'
  BY <1>0, <1>4 DEF TypeOK, CreatorOnPath, PathShape, At, Same, File, NoFile, None,
     LeaseFile, FreshGen, Token, ReplaceFails, At, Guard, Goto
<1>5. ASSUME NEW c \in Agent, Unlink(c) PROVE PathShape'
  BY <1>0, <1>5 DEF TypeOK, CreatorOnPath, PathShape, At, Same, File, NoFile, None,
     LeaseFile, FreshGen, Token, Unlink, At, Guard, Goto
<1>6. CASE Age
  BY <1>0, <1>6 DEF TypeOK, CreatorOnPath, PathShape, At, Same, File, NoFile, None,
     LeaseFile, FreshGen, Token, Age
<1>7. ASSUME NEW c \in Agent, WriteTokenFails(c) PROVE PathShape'
  BY <1>0, <1>7 DEF TypeOK, CreatorOnPath, PathShape, At, Same, File, NoFile, None,
     LeaseFile, FreshGen, Token, WriteTokenFails, At, Goto
<1>8. CASE UNCHANGED <<lock>>
  BY <1>0, <1>8 DEF TypeOK, CreatorOnPath, PathShape, At, Same, File, NoFile, None,
     LeaseFile, FreshGen, Token
<1> QED
  BY <1>1, <1>2, <1>3, <1>4, <1>5, <1>6, <1>7, <1>8 DEF Next, Run, Trouble, vars,
     guardVars, dataVars, marks, Call, Observe, GiveUp, Choose,
     Pick, TakeTicket, Unchoose, Enter, Yield, MarkerFails, Leave,
     Revalidate, RevalidateFails, Read, Write, Return, Release,
     ReleaseGivenUp, CheckOwn, UnlinkFails, Crash

(* A creator's empty file is its own.                                      *)
LEMMA CreatorHolds ==
  ASSUME TypeOK, CreatorOnPath, NEW a \in alive, pc[a] = "create"
  PROVE  /\ lock.gen = lease[a].gen /\ lease[a].gen[1] = a
         /\ lease[a].tok # None /\ lease[a] # NoFile
<1>1. Token(a)[1] = a /\ Token(a) # None
  BY FilesAreTyped DEF TypeOK
<1>2. lock.gen = lease[a].gen /\ lease[a] = File(Token(a), Token(a))
  BY DEF CreatorOnPath
<1>3. lease[a].gen = Token(a) /\ lease[a].tok = Token(a)
  BY <1>2 DEF File
<1> QED
  BY <1>1, <1>2, <1>3 DEF NoFile, File

(* A stale lock is no live agent's: nobody else holds it, nobody is        *)
(* creating it.                                                            *)
LEMMA StaleUnowned ==
  ASSUME TypeOK, HolderOnPath, CreatorOnPath, NEW c \in alive, Stale(c, lock),
         NEW a \in alive
  PROVE  /\ pc[a] # "create"
         /\ a # c => ~(pc[a] \in Holding /\ lease[a] # NoFile)
<1>0. 0 \notin Agent /\ a \in Agent /\ c \in Agent
  BY LockAssumption DEF LockAssumption, TypeOK
<1>1. Same(abandoned[c], lock) => lock.tok[1] = c
  BY <1>0 DEF TypeOK, Same, NoFile, File
<1>2. pc[a] = "create" => lock.tok = None /\ ~lock.old
  BY DEF CreatorOnPath
<1>3. pc[a] # "create"
  BY <1>0, <1>1, <1>2 DEF Stale, None
<1>4. pc[a] \in Holding /\ lease[a] # NoFile => lock.tok[1] = a
  BY <1>0 DEF TypeOK, HolderOnPath, Same
<1>5. a # c => ~(pc[a] \in Holding /\ lease[a] # NoFile)
  BY <1>0, <1>1, <1>4 DEF Stale, None
<1> QED
  BY <1>3, <1>5

(* Two live agents that hold the lock are one; while it is held, nobody is *)
(* creating it.                                                            *)
LEMMA OneHolder ==
  ASSUME TypeOK, HolderOnPath, CreatorOnPath, NEW a \in alive,
         pc[a] \in Holding, lease[a] # NoFile, NEW b \in alive
  PROVE  /\ pc[b] # "create"
         /\ pc[b] \in Holding /\ lease[b] # NoFile => a = b
<1>0. 0 \notin Agent /\ a \in Agent /\ b \in Agent
  BY LockAssumption DEF LockAssumption, TypeOK
<1>1. lock.tok[1] = a
  BY <1>0 DEF TypeOK, HolderOnPath, Same
<1>2. pc[b] # "create"
  BY <1>0, <1>1 DEF CreatorOnPath, None
<1>3. pc[b] \in Holding /\ lease[b] # NoFile => lock.tok[1] = b
  BY <1>0 DEF TypeOK, HolderOnPath, Same
<1> QED
  BY <1>1, <1>2, <1>3

(* Nobody takes a file from its creator while it is empty and young.       *)
LEMMA CreatorKept ==
  ASSUME TypeOK, GuardUse, HolderOnPath, CreatorOnPath, ReapsStale, PathShape,
         PromptCreate, ~InodeReuse, [Next]_vars
  PROVE  CreatorOnPath'
<1>0. 0 \notin Agent
  BY LockAssumption DEF LockAssumption
<1>1. ASSUME NEW c \in Agent, Call(c) PROVE CreatorOnPath'
  BY <1>0, <1>1 DEF TypeOK, CreatorOnPath, PathShape, At, Same, File, NoFile, None,
     LeaseFile, FreshGen, Token, Call, At, Goto
<1>2. ASSUME NEW c \in Agent, Open(c) PROVE CreatorOnPath'
  <2>1. /\ lock' = File(Token(c), None)
        /\ lease' = [lease EXCEPT ![c] = File(Token(c), Token(c))]
    BY <1>2 DEF Open, FreshGen
  <2>2. \A a \in alive : pc[a] # "create"
    BY <1>2 DEF Open, CreatorOnPath, NoFile, File
  <2>3. Token(c) # None /\ Token(c) = Token(c)'
    BY <1>0, <1>2 DEF Open, Token, None
  <2> QED
    BY <2>1, <2>2, <2>3, <1>2 DEF TypeOK, CreatorOnPath, Open, At, Goto, File
<1>3. ASSUME NEW c \in Agent, WriteToken(c) PROVE CreatorOnPath'
  <2>1. \A a \in alive : pc[a] = "create" => lease[a].gen[1] = a
    BY CreatorHolds
  <2>2. lock.gen = lease[c].gen /\ c \in alive /\ pc[c] = "create"
    BY <1>3 DEF WriteToken, At, CreatorOnPath
  <2>3. \A a \in alive' : pc'[a] # "create"
    BY <2>1, <2>2, <1>3 DEF TypeOK, CreatorOnPath, WriteToken, Goto
  <2> QED
    BY <2>3 DEF CreatorOnPath
<1>4. ASSUME NEW c \in Agent, WriteTokenFails(c) PROVE CreatorOnPath'
  <2>1. \A a \in alive : pc[a] = "create" => lease[a].gen[1] = a
    BY CreatorHolds
  <2>2. lock.gen = lease[c].gen /\ c \in alive /\ pc[c] = "create"
    BY <1>4 DEF WriteTokenFails, At, CreatorOnPath
  <2>3. \A a \in alive' : pc'[a] # "create"
    BY <2>1, <2>2, <1>4 DEF TypeOK, CreatorOnPath, WriteTokenFails, Goto
  <2> QED
    BY <2>3 DEF CreatorOnPath
<1>5. ASSUME NEW c \in Agent, Observe(c) PROVE CreatorOnPath'
  BY <1>0, <1>5 DEF TypeOK, CreatorOnPath, PathShape, At, Same, File, NoFile, None,
     LeaseFile, FreshGen, Token, Observe, At, Goto
<1>6. ASSUME NEW c \in Agent, GiveUp(c) PROVE CreatorOnPath'
  BY <1>0, <1>6 DEF TypeOK, CreatorOnPath, PathShape, At, Same, File, NoFile, None,
     LeaseFile, FreshGen, Token, GiveUp, At, Goto
<1>7. ASSUME NEW c \in Agent, Yield(c) PROVE CreatorOnPath'
  BY <1>0, <1>7 DEF TypeOK, CreatorOnPath, PathShape, At, Same, File, NoFile, None,
     LeaseFile, FreshGen, Token, Yield, Guard, Goto
<1>8. ASSUME NEW c \in Agent, MarkerFails(c) PROVE CreatorOnPath'
  BY <1>0, <1>8 DEF TypeOK, CreatorOnPath, PathShape, At, Same, File, NoFile, None,
     LeaseFile, FreshGen, Token, MarkerFails, Guard, Goto
<1>9. ASSUME NEW c \in Agent, RevalidateFails(c) PROVE CreatorOnPath'
  BY <1>0, <1>9 DEF TypeOK, CreatorOnPath, PathShape, At, Same, File, NoFile, None,
     LeaseFile, FreshGen, Token, RevalidateFails, At, Guard, Goto
<1>10. ASSUME NEW c \in Agent, Replace(c) PROVE CreatorOnPath'
  BY <1>0, <1>10, StaleUnowned DEF TypeOK, CreatorOnPath, ReapsStale, At, Replace,
     Guard, Goto
<1>11. ASSUME NEW c \in Agent, ReplaceFails(c) PROVE CreatorOnPath'
  BY <1>0, <1>11, StaleUnowned DEF TypeOK, CreatorOnPath, ReapsStale, At, ReplaceFails,
     Guard, Goto
<1>12. ASSUME NEW c \in Agent, Read(c) PROVE CreatorOnPath'
  BY <1>0, <1>12 DEF TypeOK, CreatorOnPath, PathShape, At, Same, File, NoFile, None,
     LeaseFile, FreshGen, Token, Read, At, Goto
<1>13. ASSUME NEW c \in Agent, Write(c) PROVE CreatorOnPath'
  BY <1>0, <1>13 DEF TypeOK, CreatorOnPath, PathShape, At, Same, File, NoFile, None,
     LeaseFile, FreshGen, Token, Write, At, Goto
<1>14. ASSUME NEW c \in Agent, Return(c) PROVE CreatorOnPath'
  BY <1>0, <1>14 DEF TypeOK, CreatorOnPath, PathShape, At, Same, File, NoFile, None,
     LeaseFile, FreshGen, Token, Return, At, Goto
<1>15. ASSUME NEW c \in Agent, Release(c) PROVE CreatorOnPath'
  BY <1>0, <1>15 DEF TypeOK, CreatorOnPath, PathShape, At, Same, File, NoFile, None,
     LeaseFile, FreshGen, Token, Release, At, Goto
<1>16. ASSUME NEW c \in Agent, ReleaseGivenUp(c) PROVE CreatorOnPath'
  BY <1>0, <1>16 DEF TypeOK, CreatorOnPath, PathShape, At, Same, File, NoFile, None,
     LeaseFile, FreshGen, Token, ReleaseGivenUp, At, Guard, Goto
<1>17. ASSUME NEW c \in Agent, CheckOwn(c) PROVE CreatorOnPath'
  BY <1>0, <1>17 DEF TypeOK, CreatorOnPath, PathShape, At, Same, File, NoFile, None,
     LeaseFile, FreshGen, Token, CheckOwn, At, Guard, Goto
<1>18. ASSUME NEW c \in Agent, Unlink(c) PROVE CreatorOnPath'
  <2>1. c \in alive /\ pc[c] = "release" /\ lease[c] # NoFile
    BY <1>18 DEF Unlink, At, HolderOnPath
  <2>2. \A a \in alive : pc[a] # "create"
    BY <2>1, OneHolder DEF Holding
  <2> QED
    BY <2>2, <1>18 DEF TypeOK, CreatorOnPath, Unlink, At, Goto
<1>19. ASSUME NEW c \in Agent, UnlinkFails(c) PROVE CreatorOnPath'
  BY <1>0, <1>19 DEF TypeOK, CreatorOnPath, PathShape, At, Same, File, NoFile, None,
     LeaseFile, FreshGen, Token, UnlinkFails, At, Guard, Goto
<1>20. ASSUME NEW c \in Agent, Crash(c) PROVE CreatorOnPath'
  BY <1>0, <1>20 DEF TypeOK, CreatorOnPath, PathShape, At, Same, File, NoFile, None,
     LeaseFile, FreshGen, Token, Crash, Guard, Goto
<1>21. CASE Age
  BY <1>0, <1>21 DEF TypeOK, CreatorOnPath, PathShape, At, Same, File, NoFile, None,
     LeaseFile, FreshGen, Token, Age
<1>22. CASE UNCHANGED <<lock, lease, pc, calls, alive>>
  BY <1>0, <1>22 DEF TypeOK, CreatorOnPath, PathShape, At, Same, File, NoFile, None,
     LeaseFile, FreshGen, Token
<1> QED
  BY <1>1, <1>2, <1>3, <1>4, <1>5, <1>6, <1>7, <1>8, <1>9, <1>10, <1>11,
     <1>12, <1>13, <1>14, <1>15, <1>16, <1>17, <1>18, <1>19, <1>20, <1>21,
     <1>22 DEF Next, Run, Trouble, vars, guardVars, dataVars, marks, Choose, Pick,
     TakeTicket, Unchoose, Enter, Leave, Revalidate

(* Nobody takes a lock from its live holder.                               *)
LEMMA HolderKept ==
  ASSUME TypeOK, GuardUse, HolderOnPath, CreatorOnPath, ReapsStale, PathShape,
         ~InodeReuse, [Next]_vars
  PROVE  HolderOnPath'
<1>0. 0 \notin Agent
  BY LockAssumption DEF LockAssumption
<1>1. ASSUME NEW c \in Agent, Call(c) PROVE HolderOnPath'
  BY <1>0, <1>1 DEF TypeOK, GuardUse, HolderOnPath, CreatorOnPath, PathShape, Holding,
     Released, At, Same, File, NoFile, None, LeaseFile, FreshGen, Token, Call, At, Goto
<1>2. ASSUME NEW c \in Agent, Open(c) PROVE HolderOnPath'
  BY <1>0, <1>2 DEF TypeOK, GuardUse, HolderOnPath, CreatorOnPath, PathShape, Holding,
     Released, At, Same, File, NoFile, None, LeaseFile, FreshGen, Token, Open, At, Goto
<1>3. ASSUME NEW c \in Agent, WriteToken(c) PROVE HolderOnPath'
  <2>1. lock' = lease[c] /\ c \in alive /\ pc[c] = "create" /\ lease[c] # NoFile
    BY <1>3, CreatorHolds DEF WriteToken, At
  <2>2. \A a \in alive : ~(pc[a] \in Holding /\ lease[a] # NoFile)
    BY <2>1, OneHolder
  <2>3. Same(lease[c], lease[c])
    BY <2>1 DEF CreatorOnPath, Same
  <2> QED
    BY <2>1, <2>2, <2>3, <1>3 DEF TypeOK, HolderOnPath, Holding, WriteToken, Goto
<1>4. ASSUME NEW c \in Agent, WriteTokenFails(c) PROVE HolderOnPath'
  <2>1. c \in alive /\ pc[c] = "create" /\ lease[c] # NoFile
    BY <1>4, CreatorHolds DEF WriteTokenFails, At
  <2>2. \A a \in alive : ~(pc[a] \in Holding /\ lease[a] # NoFile)
    BY <2>1, OneHolder
  <2> QED
    BY <2>1, <2>2, <1>4 DEF TypeOK, HolderOnPath, Holding, WriteTokenFails, Goto
<1>5. ASSUME NEW c \in Agent, Observe(c) PROVE HolderOnPath'
  BY <1>0, <1>5 DEF TypeOK, GuardUse, HolderOnPath, CreatorOnPath, PathShape, Holding,
     Released, At, Same, File, NoFile, None, LeaseFile, FreshGen, Token, Observe, At,
     Goto
<1>6. ASSUME NEW c \in Agent, GiveUp(c) PROVE HolderOnPath'
  BY <1>6 DEF TypeOK, HolderOnPath, GiveUp, Holding, At, Goto
<1>7. ASSUME NEW c \in Agent, Yield(c) PROVE HolderOnPath'
  BY <1>7 DEF TypeOK, GuardUse, HolderOnPath, Yield, Holding, Goto
<1>8. ASSUME NEW c \in Agent, MarkerFails(c) PROVE HolderOnPath'
  BY <1>0, <1>8 DEF TypeOK, GuardUse, HolderOnPath, CreatorOnPath, PathShape, Holding,
     Released, At, Same, File, NoFile, None, LeaseFile, FreshGen, Token, MarkerFails,
     Guard, Goto
<1>9. ASSUME NEW c \in Agent, RevalidateFails(c) PROVE HolderOnPath'
  BY <1>0, <1>9 DEF TypeOK, GuardUse, HolderOnPath, CreatorOnPath, PathShape, Holding,
     Released, At, Same, File, NoFile, None, LeaseFile, FreshGen, Token,
     RevalidateFails, At, Guard, Goto
<1>10. ASSUME NEW c \in Agent, Replace(c) PROVE HolderOnPath'
  <2>1. /\ lock' = File(Token(c), Token(c))
        /\ lease' = [lease EXCEPT ![c] = File(Token(c), Token(c))]
    BY <1>10 DEF Replace, FreshGen
  <2>2. c \in alive /\ \A a \in alive : a # c => ~(pc[a] \in Holding /\ lease[a] # NoFile)
    BY <1>10, StaleUnowned DEF Replace, At, ReapsStale
  <2>3. Same(File(Token(c), Token(c)), File(Token(c), Token(c)))
    BY <1>0, <1>10 DEF Same, File, Token, None
  <2> QED
    BY <2>1, <2>2, <2>3, <1>10 DEF TypeOK, HolderOnPath, Holding, Replace, Goto
<1>11. ASSUME NEW c \in Agent, ReplaceFails(c) PROVE HolderOnPath'
  BY <1>0, <1>11, StaleUnowned DEF TypeOK, HolderOnPath, ReapsStale, Holding, At,
     ReplaceFails, Guard, Goto
<1>12. ASSUME NEW c \in Agent, Read(c) PROVE HolderOnPath'
  BY <1>0, <1>12 DEF TypeOK, GuardUse, HolderOnPath, CreatorOnPath, PathShape, Holding,
     Released, At, Same, File, NoFile, None, LeaseFile, FreshGen, Token, Read, At, Goto
<1>13. ASSUME NEW c \in Agent, Write(c) PROVE HolderOnPath'
  BY <1>0, <1>13 DEF TypeOK, GuardUse, HolderOnPath, CreatorOnPath, PathShape, Holding,
     Released, At, Same, File, NoFile, None, LeaseFile, FreshGen, Token, Write, At, Goto
<1>14. ASSUME NEW c \in Agent, Return(c) PROVE HolderOnPath'
  BY <1>0, <1>14 DEF TypeOK, GuardUse, HolderOnPath, CreatorOnPath, PathShape, Holding,
     Released, At, Same, File, NoFile, None, LeaseFile, FreshGen, Token, Return, At,
     Goto
<1>15. ASSUME NEW c \in Agent, Release(c) PROVE HolderOnPath'
  BY <1>0, <1>15 DEF TypeOK, GuardUse, HolderOnPath, CreatorOnPath, PathShape, Holding,
     Released, At, Same, File, NoFile, None, LeaseFile, FreshGen, Token, Release, At,
     Goto
<1>16. ASSUME NEW c \in Agent, ReleaseGivenUp(c) PROVE HolderOnPath'
  BY <1>0, <1>16 DEF TypeOK, GuardUse, HolderOnPath, CreatorOnPath, PathShape, Holding,
     Released, At, Same, File, NoFile, None, LeaseFile, FreshGen, Token, ReleaseGivenUp,
     At, Guard, Goto
<1>17. ASSUME NEW c \in Agent, CheckOwn(c) PROVE HolderOnPath'
  BY <1>0, <1>17 DEF TypeOK, GuardUse, HolderOnPath, CreatorOnPath, PathShape, Holding,
     Released, At, Same, File, NoFile, None, LeaseFile, FreshGen, Token, CheckOwn, At,
     Guard, Goto
<1>18. ASSUME NEW c \in Agent, Unlink(c) PROVE HolderOnPath'
  <2>1. c \in alive /\ pc[c] = "release" /\ lease[c] # NoFile
    BY <1>18 DEF Unlink, At, HolderOnPath
  <2>2. \A a \in alive : a # c => ~(pc[a] \in Holding /\ lease[a] # NoFile)
    BY <2>1, OneHolder DEF Holding
  <2> QED
    BY <2>1, <2>2, <1>18 DEF TypeOK, HolderOnPath, Holding, Unlink, Goto
<1>19. ASSUME NEW c \in Agent, UnlinkFails(c) PROVE HolderOnPath'
  BY <1>0, <1>19 DEF TypeOK, GuardUse, HolderOnPath, CreatorOnPath, PathShape, Holding,
     Released, At, Same, File, NoFile, None, LeaseFile, FreshGen, Token, UnlinkFails,
     At, Guard, Goto
<1>20. ASSUME NEW c \in Agent, Crash(c) PROVE HolderOnPath'
  BY <1>0, <1>20 DEF TypeOK, GuardUse, HolderOnPath, CreatorOnPath, PathShape, Holding,
     Released, At, Same, File, NoFile, None, LeaseFile, FreshGen, Token, Crash, Guard,
     Goto
<1>21. CASE Age
  BY <1>0, <1>21 DEF TypeOK, GuardUse, HolderOnPath, CreatorOnPath, PathShape, Holding,
     Released, At, Same, File, NoFile, None, LeaseFile, FreshGen, Token, Age
<1>22. CASE UNCHANGED <<lock, lease, pc, alive>>
  BY <1>0, <1>22 DEF TypeOK, GuardUse, HolderOnPath, CreatorOnPath, PathShape, Holding,
     Released, At, Same, File, NoFile, None, LeaseFile, FreshGen, Token
<1> QED
  BY <1>1, <1>2, <1>3, <1>4, <1>5, <1>6, <1>7, <1>8, <1>9, <1>10, <1>11,
     <1>12, <1>13, <1>14, <1>15, <1>16, <1>17, <1>18, <1>19, <1>20, <1>21,
     <1>22 DEF Next, Run, Trouble, vars, guardVars, dataVars, marks, Choose, Pick,
     TakeTicket, Unchoose, Enter, Leave, Revalidate

(* A file that was old when observed stays old.                            *)
LEMMA ObservedKept ==
  ASSUME TypeOK, GenerationsMinted, CreatorOnPath, ObservedOld, ReapsStale, ~InodeReuse, [Next]_vars
  PROVE  ObservedOld'
<1>0. 0 \notin Agent
  BY LockAssumption DEF LockAssumption
<1>1. ASSUME NEW c \in Agent, Call(c) PROVE ObservedOld'
  BY <1>0, <1>1 DEF TypeOK, ObservedOld, CreatorOnPath, guardVars, At, Same, File,
     NoFile, None, LeaseFile, FreshGen, Token, Call, At, Goto
<1>2. ASSUME NEW c \in Agent, Open(c) PROVE ObservedOld'
  <2>1. lock' = File(Token(c), None) /\ Token(c) # None /\ Token(c)[1] = c /\ Token(c)[2] = calls[c]
    BY <1>2, FilesAreTyped DEF Open, FreshGen, Token
  <2>2. \A a \in Agent : observed[a].gen # Token(c)
    BY <2>1, <1>2 DEF TypeOK, GenerationsMinted, Minted, Open, At
  <2> QED
    BY <2>1, <2>2, <1>2 DEF TypeOK, ObservedOld, Open, At, Goto, Same, File
<1>3. ASSUME NEW c \in Agent, WriteToken(c) PROVE ObservedOld'
  <2>1. lock'.tok # None
    BY <1>3, CreatorHolds DEF WriteToken, At
  <2> QED
    BY <2>1 DEF ObservedOld
<1>4. ASSUME NEW c \in Agent, WriteTokenFails(c) PROVE ObservedOld'
  <2>1. lock' = lock \/ lock'.tok # None
    BY <1>4, CreatorHolds DEF WriteTokenFails, At
  <2>2. CASE lock' = lock
    BY <2>2, <1>4 DEF TypeOK, ObservedOld, WriteTokenFails, At, Goto
  <2>3. CASE lock'.tok # None
    BY <2>3 DEF ObservedOld
  <2> QED
    BY <2>1, <2>2, <2>3
<1>5. ASSUME NEW c \in Agent, Observe(c) PROVE ObservedOld'
  BY <1>0, <1>5 DEF TypeOK, ObservedOld, CreatorOnPath, guardVars, At, Same, File,
     NoFile, None, LeaseFile, FreshGen, Token, Observe, At, Goto
<1>6. ASSUME NEW c \in Agent, GiveUp(c) PROVE ObservedOld'
  BY <1>0, <1>6 DEF TypeOK, ObservedOld, CreatorOnPath, guardVars, At, Same, File,
     NoFile, None, LeaseFile, FreshGen, Token, GiveUp, At, Goto
<1>7. ASSUME NEW c \in Agent, Yield(c) PROVE ObservedOld'
  BY <1>0, <1>7 DEF TypeOK, ObservedOld, CreatorOnPath, guardVars, At, Same, File,
     NoFile, None, LeaseFile, FreshGen, Token, Yield, Guard, Goto
<1>8. ASSUME NEW c \in Agent, MarkerFails(c) PROVE ObservedOld'
  BY <1>0, <1>8 DEF TypeOK, ObservedOld, CreatorOnPath, guardVars, At, Same, File,
     NoFile, None, LeaseFile, FreshGen, Token, MarkerFails, Guard, Goto
<1>9. ASSUME NEW c \in Agent, RevalidateFails(c) PROVE ObservedOld'
  BY <1>0, <1>9 DEF TypeOK, ObservedOld, CreatorOnPath, guardVars, At, Same, File,
     NoFile, None, LeaseFile, FreshGen, Token, RevalidateFails, At, Guard, Goto
<1>10. ASSUME NEW c \in Agent, Replace(c) PROVE ObservedOld'
  <2>1. lock'.tok # None
    BY <1>10, FilesAreTyped DEF Replace, File
  <2> QED
    BY <2>1 DEF ObservedOld
<1>11. ASSUME NEW c \in Agent, ReplaceFails(c) PROVE ObservedOld'
  BY <1>11 DEF TypeOK, ObservedOld, ReplaceFails, At, Guard, Goto, Same, NoFile, File
<1>12. ASSUME NEW c \in Agent, Read(c) PROVE ObservedOld'
  BY <1>0, <1>12 DEF TypeOK, ObservedOld, CreatorOnPath, guardVars, At, Same, File,
     NoFile, None, LeaseFile, FreshGen, Token, Read, At, Goto
<1>13. ASSUME NEW c \in Agent, Write(c) PROVE ObservedOld'
  BY <1>0, <1>13 DEF TypeOK, ObservedOld, CreatorOnPath, guardVars, At, Same, File,
     NoFile, None, LeaseFile, FreshGen, Token, Write, At, Goto
<1>14. ASSUME NEW c \in Agent, Return(c) PROVE ObservedOld'
  BY <1>0, <1>14 DEF TypeOK, ObservedOld, CreatorOnPath, guardVars, At, Same, File,
     NoFile, None, LeaseFile, FreshGen, Token, Return, At, Goto
<1>15. ASSUME NEW c \in Agent, Release(c) PROVE ObservedOld'
  BY <1>0, <1>15 DEF TypeOK, ObservedOld, CreatorOnPath, guardVars, At, Same, File,
     NoFile, None, LeaseFile, FreshGen, Token, Release, At, Goto
<1>16. ASSUME NEW c \in Agent, ReleaseGivenUp(c) PROVE ObservedOld'
  BY <1>0, <1>16 DEF TypeOK, ObservedOld, CreatorOnPath, guardVars, At, Same, File,
     NoFile, None, LeaseFile, FreshGen, Token, ReleaseGivenUp, At, Guard, Goto
<1>17. ASSUME NEW c \in Agent, CheckOwn(c) PROVE ObservedOld'
  BY <1>0, <1>17 DEF TypeOK, ObservedOld, CreatorOnPath, guardVars, At, Same, File,
     NoFile, None, LeaseFile, FreshGen, Token, CheckOwn, At, Guard, Goto
<1>18. ASSUME NEW c \in Agent, Unlink(c) PROVE ObservedOld'
  BY <1>0, <1>18 DEF TypeOK, ObservedOld, CreatorOnPath, guardVars, At, Same, File,
     NoFile, None, LeaseFile, FreshGen, Token, Unlink, At, Guard, Goto
<1>19. ASSUME NEW c \in Agent, UnlinkFails(c) PROVE ObservedOld'
  BY <1>0, <1>19 DEF TypeOK, ObservedOld, CreatorOnPath, guardVars, At, Same, File,
     NoFile, None, LeaseFile, FreshGen, Token, UnlinkFails, At, Guard, Goto
<1>20. ASSUME NEW c \in Agent, Crash(c) PROVE ObservedOld'
  BY <1>0, <1>20 DEF TypeOK, ObservedOld, CreatorOnPath, guardVars, At, Same, File,
     NoFile, None, LeaseFile, FreshGen, Token, Crash, Guard, Goto
<1>21. CASE Age
  BY <1>0, <1>21 DEF TypeOK, ObservedOld, CreatorOnPath, guardVars, At, Same, File,
     NoFile, None, LeaseFile, FreshGen, Token, Age
<1>22. CASE UNCHANGED <<lock, observed, pc, alive>>
  BY <1>0, <1>22 DEF TypeOK, ObservedOld, CreatorOnPath, guardVars, At, Same, File,
     NoFile, None, LeaseFile, FreshGen, Token
<1> QED
  BY <1>1, <1>2, <1>3, <1>4, <1>5, <1>6, <1>7, <1>8, <1>9, <1>10, <1>11,
     <1>12, <1>13, <1>14, <1>15, <1>16, <1>17, <1>18, <1>19, <1>20, <1>21,
     <1>22 DEF Next, Run, Trouble, vars, guardVars, dataVars, marks, Choose, Pick,
     TakeTicket, Unchoose, Enter, Leave, Revalidate

(* The bakery's order leaves one agent in the guard.                       *)
LEMMA BakeryExcludes ==
  ASSUME TypeOK, BakeryOrder
  PROVE  OneDeleter
<1> SUFFICES ASSUME NEW a \in alive, NEW b \in alive, guard[a] \in InGuard,
                    guard[b] \in InGuard, a # b
             PROVE  FALSE
  BY DEF OneDeleter
<1>1. num[a] \in Nat /\ num[b] \in Nat /\ a \in Nat /\ b \in Nat
  BY LockAssumption DEF LockAssumption, TypeOK
<1>2. Before(a, b) /\ Before(b, a)
  BY DEF BakeryOrder, InGuard, Ticketed
<1> QED
  BY <1>1, <1>2 DEF Before

(* A free path is nothing to reap.                                         *)
LEMMA NothingIsNotStale ==
  ASSUME NEW a \in Agent
  PROVE  ~Stale(a, NoFile)
BY DEF Stale, Same, NoFile, File, None

(* Between the last check of a reaper and its rename, the lock stays stale.*)
LEMMA ReapsKept ==
  ASSUME TypeOK, BakeryOrder, HolderOnPath, CreatorOnPath, ObservedOld, ReapsStale,
         [Next]_vars
  PROVE  ReapsStale'
<1>1. ASSUME NEW c \in Agent, Call(c) PROVE ReapsStale'
  BY <1>1 DEF TypeOK, ReapsStale, Stale, Same, guardVars, Call, At, Goto
<1>2. ASSUME NEW c \in Agent, Open(c) PROVE ReapsStale'
  <2>1. \A a \in alive : ~(pc[a] = "reap" /\ guard[a] = "checked")
    BY <1>2, NothingIsNotStale DEF Open, ReapsStale, TypeOK
  <2> QED
    BY <2>1, <1>2 DEF TypeOK, ReapsStale, Open, At, Goto, guardVars
<1>3. ASSUME NEW c \in Agent, WriteToken(c) PROVE ReapsStale'
  <2>1. \A a \in alive : ~(pc[a] = "reap" /\ guard[a] = "checked")
    BY <1>3, StaleUnowned DEF WriteToken, At, ReapsStale
  <2> QED
    BY <2>1, <1>3 DEF TypeOK, ReapsStale, WriteToken, At, Goto, guardVars
<1>4. ASSUME NEW c \in Agent, WriteTokenFails(c) PROVE ReapsStale'
  <2>1. \A a \in alive : ~(pc[a] = "reap" /\ guard[a] = "checked")
    BY <1>4, StaleUnowned DEF WriteTokenFails, At, ReapsStale
  <2> QED
    BY <2>1, <1>4 DEF TypeOK, ReapsStale, WriteTokenFails, At, Goto, guardVars
<1>5. ASSUME NEW c \in Agent, Observe(c) PROVE ReapsStale'
  BY <1>5 DEF TypeOK, ReapsStale, Stale, Same, guardVars, Observe, At, Goto
<1>6. ASSUME NEW c \in Agent, GiveUp(c) PROVE ReapsStale'
  BY <1>6 DEF TypeOK, ReapsStale, Stale, Same, guardVars, GiveUp, At, Goto
<1>7. ASSUME NEW c \in Agent, Choose(c) PROVE ReapsStale'
  BY <1>7 DEF TypeOK, ReapsStale, Stale, Same, guardVars, Choose, Guard
<1>8. ASSUME NEW c \in Agent, Pick(c) PROVE ReapsStale'
  BY <1>8 DEF TypeOK, ReapsStale, Stale, Same, guardVars, Pick, Guard
<1>9. ASSUME NEW c \in Agent, TakeTicket(c) PROVE ReapsStale'
  BY <1>9 DEF TypeOK, ReapsStale, Stale, Same, guardVars, TakeTicket, Guard
<1>10. ASSUME NEW c \in Agent, Unchoose(c) PROVE ReapsStale'
  BY <1>10 DEF TypeOK, ReapsStale, Stale, Same, guardVars, Unchoose, Guard
<1>11. ASSUME NEW c \in Agent, Enter(c) PROVE ReapsStale'
  BY <1>11 DEF TypeOK, ReapsStale, Stale, Same, guardVars, Enter, Guard
<1>12. ASSUME NEW c \in Agent, Yield(c) PROVE ReapsStale'
  BY <1>12 DEF TypeOK, ReapsStale, Stale, Same, guardVars, Yield, Guard, Goto
<1>13. ASSUME NEW c \in Agent, MarkerFails(c) PROVE ReapsStale'
  BY <1>13 DEF TypeOK, ReapsStale, Stale, Same, guardVars, MarkerFails, Guard, Goto
<1>14. ASSUME NEW c \in Agent, Leave(c) PROVE ReapsStale'
  BY <1>14 DEF TypeOK, ReapsStale, Stale, Same, guardVars, Leave, Guard
<1>15. ASSUME NEW c \in Agent, Revalidate(c) PROVE ReapsStale'
  <2>1. Stale(c, lock)
    BY <1>15 DEF Revalidate, At, StillStale, ObservedOld, Stale
  <2> QED
    BY <2>1, <1>15 DEF TypeOK, ReapsStale, Stale, Revalidate, At, Guard
<1>16. ASSUME NEW c \in Agent, RevalidateFails(c) PROVE ReapsStale'
  BY <1>16 DEF TypeOK, ReapsStale, Stale, Same, guardVars, RevalidateFails, At, Guard,
     Goto
<1>17. ASSUME NEW c \in Agent, Replace(c) PROVE ReapsStale'
  <2>1. \A a \in alive : a # c => ~(pc[a] = "reap" /\ guard[a] = "checked")
    BY <1>17, BakeryExcludes DEF Replace, At, OneDeleter, InGuard
  <2> QED
    BY <2>1, <1>17 DEF TypeOK, ReapsStale, Replace, At, Guard, Goto
<1>18. ASSUME NEW c \in Agent, ReplaceFails(c) PROVE ReapsStale'
  <2>1. \A a \in alive : a # c => ~(pc[a] = "reap" /\ guard[a] = "checked")
    BY <1>18, BakeryExcludes DEF ReplaceFails, At, OneDeleter, InGuard
  <2> QED
    BY <2>1, <1>18 DEF TypeOK, ReapsStale, ReplaceFails, At, Guard, Goto
<1>19. ASSUME NEW c \in Agent, Read(c) PROVE ReapsStale'
  BY <1>19 DEF TypeOK, ReapsStale, Stale, Same, guardVars, Read, At, Goto
<1>20. ASSUME NEW c \in Agent, Write(c) PROVE ReapsStale'
  BY <1>20 DEF TypeOK, ReapsStale, Stale, Same, guardVars, Write, At, Goto
<1>21. ASSUME NEW c \in Agent, Return(c) PROVE ReapsStale'
  BY <1>21 DEF TypeOK, ReapsStale, Stale, Same, guardVars, Return, At, Goto
<1>22. ASSUME NEW c \in Agent, Release(c) PROVE ReapsStale'
  BY <1>22 DEF TypeOK, ReapsStale, Stale, Same, guardVars, Release, At, Goto
<1>23. ASSUME NEW c \in Agent, ReleaseGivenUp(c) PROVE ReapsStale'
  BY <1>23 DEF TypeOK, ReapsStale, Stale, Same, guardVars, ReleaseGivenUp, At, Guard,
     Goto
<1>24. ASSUME NEW c \in Agent, CheckOwn(c) PROVE ReapsStale'
  BY <1>24 DEF TypeOK, ReapsStale, Stale, Same, guardVars, CheckOwn, At, Guard, Goto
<1>25. ASSUME NEW c \in Agent, Unlink(c) PROVE ReapsStale'
  <2>1. \A a \in alive : a # c => ~(pc[a] = "reap" /\ guard[a] = "checked")
    BY <1>25, BakeryExcludes DEF Unlink, At, OneDeleter, InGuard
  <2> QED
    BY <2>1, <1>25 DEF TypeOK, ReapsStale, Unlink, At, Guard, Goto
<1>26. ASSUME NEW c \in Agent, UnlinkFails(c) PROVE ReapsStale'
  BY <1>26 DEF TypeOK, ReapsStale, Stale, Same, guardVars, UnlinkFails, At, Guard, Goto
<1>27. ASSUME NEW c \in Agent, Crash(c) PROVE ReapsStale'
  BY <1>27 DEF TypeOK, ReapsStale, Stale, Same, guardVars, Crash, Guard, Goto
<1>28. CASE Age
  BY <1>28 DEF TypeOK, ReapsStale, Stale, Same, guardVars, Age
<1>29. CASE UNCHANGED <<lock, abandoned, guard, pc, alive>>
  BY <1>29 DEF TypeOK, ReapsStale, Stale, Same, guardVars
<1> QED
  BY <1>1, <1>2, <1>3, <1>4, <1>5, <1>6, <1>7, <1>8, <1>9, <1>10, <1>11,
     <1>12, <1>13, <1>14, <1>15, <1>16, <1>17, <1>18, <1>19, <1>20, <1>21,
     <1>22, <1>23, <1>24, <1>25, <1>26, <1>27, <1>28, <1>29 DEF Next, Run,
     Trouble, vars, guardVars, dataVars, marks

(* A mutation's starting value is that of the store until it writes.       *)
LEMMA StoreKept ==
  ASSUME TypeOK, GuardUse, HolderOnPath, CreatorOnPath, StoreInv, [Next]_vars
  PROVE  StoreInv'
<1>1. ASSUME NEW c \in Agent, Call(c) PROVE StoreInv'
  BY <1>1 DEF TypeOK, StoreInv, Holding, dataVars, marks, Call, At, Goto
<1>2. ASSUME NEW c \in Agent, Open(c) PROVE StoreInv'
  BY <1>2 DEF TypeOK, StoreInv, Holding, dataVars, marks, Open, At, Goto
<1>3. ASSUME NEW c \in Agent, WriteToken(c) PROVE StoreInv'
  <2>1. lease[c] # NoFile
    BY <1>3, CreatorHolds DEF WriteToken, At
  <2> QED
    BY <2>1, <1>3 DEF TypeOK, StoreInv, Holding, dataVars, marks, WriteToken, At, Goto
<1>4. ASSUME NEW c \in Agent, WriteTokenFails(c) PROVE StoreInv'
  BY <1>4 DEF TypeOK, StoreInv, Holding, dataVars, marks, WriteTokenFails, At, Goto
<1>5. ASSUME NEW c \in Agent, Observe(c) PROVE StoreInv'
  BY <1>5 DEF TypeOK, StoreInv, Holding, dataVars, marks, Observe, At, Goto
<1>6. ASSUME NEW c \in Agent, GiveUp(c) PROVE StoreInv'
  BY <1>6 DEF TypeOK, StoreInv, Holding, dataVars, marks, GiveUp, At, Goto
<1>7. ASSUME NEW c \in Agent, Choose(c) PROVE StoreInv'
  BY <1>7 DEF TypeOK, StoreInv, Holding, dataVars, marks, Choose, Guard
<1>8. ASSUME NEW c \in Agent, Pick(c) PROVE StoreInv'
  BY <1>8 DEF TypeOK, StoreInv, Holding, dataVars, marks, Pick, Guard
<1>9. ASSUME NEW c \in Agent, TakeTicket(c) PROVE StoreInv'
  BY <1>9 DEF TypeOK, StoreInv, Holding, dataVars, marks, TakeTicket, Guard
<1>10. ASSUME NEW c \in Agent, Unchoose(c) PROVE StoreInv'
  BY <1>10 DEF TypeOK, StoreInv, Holding, dataVars, marks, Unchoose, Guard
<1>11. ASSUME NEW c \in Agent, Enter(c) PROVE StoreInv'
  BY <1>11 DEF TypeOK, StoreInv, Holding, dataVars, marks, Enter, Guard
<1>12. ASSUME NEW c \in Agent, Yield(c) PROVE StoreInv'
  BY <1>12 DEF TypeOK, GuardUse, StoreInv, Holding, dataVars, marks, Yield, Guard, Goto
<1>13. ASSUME NEW c \in Agent, MarkerFails(c) PROVE StoreInv'
  BY <1>13 DEF TypeOK, StoreInv, Holding, dataVars, marks, MarkerFails, Guard, Goto
<1>14. ASSUME NEW c \in Agent, Leave(c) PROVE StoreInv'
  BY <1>14 DEF TypeOK, StoreInv, Holding, dataVars, marks, Leave, Guard
<1>15. ASSUME NEW c \in Agent, Revalidate(c) PROVE StoreInv'
  BY <1>15 DEF TypeOK, StoreInv, Holding, dataVars, marks, Revalidate, At, Guard
<1>16. ASSUME NEW c \in Agent, RevalidateFails(c) PROVE StoreInv'
  BY <1>16 DEF TypeOK, StoreInv, Holding, dataVars, marks, RevalidateFails, At, Guard, Goto
<1>17. ASSUME NEW c \in Agent, Replace(c) PROVE StoreInv'
  <2>1. PICK g \in FreshGen(c) : lease' = [lease EXCEPT ![c] = File(g, Token(c))]
    BY <1>17 DEF Replace
  <2>2. File(g, Token(c)) # NoFile
    BY FilesAreTyped DEF File, NoFile
  <2> QED
    BY <2>1, <2>2, <1>17 DEF TypeOK, StoreInv, Holding, dataVars, marks, Replace, At, Guard,
       Goto
<1>18. ASSUME NEW c \in Agent, ReplaceFails(c) PROVE StoreInv'
  BY <1>18 DEF TypeOK, StoreInv, Holding, dataVars, marks, ReplaceFails, At, Guard, Goto
<1>19. ASSUME NEW c \in Agent, Read(c) PROVE StoreInv'
  BY <1>19 DEF TypeOK, StoreInv, Holding, dataVars, marks, Read, At, Goto
<1>20. ASSUME NEW c \in Agent, Write(c) PROVE StoreInv'
  <2>1. CASE unlocked
    BY <2>1, <1>20 DEF Write, marks, StoreInv
  <2>2. CASE ~unlocked
    <3>1. \A a \in alive : pc[a] = "mutate" => a = c
      BY <2>2, <1>20, OneHolder DEF Write, At, StoreInv, Holding
    <3>2. file' = commits'
      BY <2>2, <1>20 DEF TypeOK, StoreInv, Write, At
    <3>3. \A a \in alive' : pc'[a] \in Holding => lease'[a] # NoFile
      BY <2>2, <1>20 DEF TypeOK, StoreInv, Holding, Write, At, Goto
    <3>4. \A a \in alive' : pc'[a] # "mutate"
      BY <3>1, <1>20 DEF TypeOK, Write, At, Goto
    <3> QED
      BY <3>2, <3>3, <3>4 DEF StoreInv
  <2> QED
    BY <2>1, <2>2
<1>21. ASSUME NEW c \in Agent, Return(c) PROVE StoreInv'
  BY <1>21 DEF TypeOK, StoreInv, Holding, dataVars, marks, Return, At, Goto
<1>22. ASSUME NEW c \in Agent, Release(c) PROVE StoreInv'
  BY <1>22 DEF TypeOK, StoreInv, Holding, dataVars, marks, Release, At, Goto
<1>23. ASSUME NEW c \in Agent, ReleaseGivenUp(c) PROVE StoreInv'
  BY <1>23 DEF TypeOK, StoreInv, Holding, dataVars, marks, ReleaseGivenUp, At, Guard, Goto
<1>24. ASSUME NEW c \in Agent, CheckOwn(c) PROVE StoreInv'
  BY <1>24 DEF TypeOK, StoreInv, Holding, dataVars, marks, CheckOwn, At, Guard, Goto
<1>25. ASSUME NEW c \in Agent, Unlink(c) PROVE StoreInv'
  BY <1>25 DEF TypeOK, StoreInv, Holding, dataVars, marks, Unlink, At, Guard, Goto
<1>26. ASSUME NEW c \in Agent, UnlinkFails(c) PROVE StoreInv'
  BY <1>26 DEF TypeOK, StoreInv, Holding, dataVars, marks, UnlinkFails, At, Guard, Goto
<1>27. ASSUME NEW c \in Agent, Crash(c) PROVE StoreInv'
  BY <1>27 DEF TypeOK, StoreInv, Holding, dataVars, marks, Crash, Guard, Goto
<1>28. CASE Age
  BY <1>28 DEF TypeOK, StoreInv, Holding, dataVars, marks, Age
<1>29. CASE UNCHANGED <<unlocked, pc, lease, dataVars, alive>>
  BY <1>29 DEF TypeOK, StoreInv, Holding, dataVars, marks
<1> QED
  BY <1>1, <1>2, <1>3, <1>4, <1>5, <1>6, <1>7, <1>8, <1>9, <1>10, <1>11,
     <1>12, <1>13, <1>14, <1>15, <1>16, <1>17, <1>18, <1>19, <1>20, <1>21,
     <1>22, <1>23, <1>24, <1>25, <1>26, <1>27, <1>28, <1>29 DEF Next, Run,
     Trouble, vars, guardVars, dataVars, marks

-----------------------------------------------------------------------------
(* The theorems.                                                           *)

(* The deletion guard excludes, whatever the faults and the file system's  *)
(* inodes: nobody checks the lock file and deletes it while another does.  *)
THEOREM OneDeleterHolds == Spec => []OneDeleter
<1>1. Init => BakeryOrder
  BY DEF Init, BakeryOrder, InGuard
<1>2. TypeOK /\ BakeryOrder /\ [Next]_vars => BakeryOrder'
  BY BakeryKept
<1>3. TypeOK /\ BakeryOrder => OneDeleter
  BY BakeryExcludes
<1> QED
  BY <1>1, <1>2, <1>3, TypeCorrect, PTL DEF Spec

(* The invariant holds at the start ...                                    *)
LEMMA LockInvStarts == Init => LockInv
<1> SUFFICES ASSUME Init PROVE LockInv
  OBVIOUS
<1> USE DEF Init, InGuard, Holding
<1>1. BakeryOrder /\ GuardUse /\ PathShape
  BY DEF BakeryOrder, GuardUse, PathShape
<1>2. GenerationsMinted
  BY DEF GenerationsMinted, Minted, NoFile, File
<1>3. HolderOnPath /\ CreatorOnPath /\ ObservedOld /\ ReapsStale /\ StoreInv
  BY DEF HolderOnPath, CreatorOnPath, ObservedOld, ReapsStale, StoreInv
<1> QED
  BY <1>1, <1>2, <1>3 DEF LockInv

(* ... and every step keeps it.                                            *)
LEMMA LockInvKept ==
  ASSUME TypeOK, LockInv, PromptCreate, ~InodeReuse, [Next]_vars
  PROVE  LockInv'
<1> USE DEF LockInv
<1>1. BakeryOrder' /\ GuardUse' /\ GenerationsMinted' /\ PathShape'
  BY BakeryKept, GuardUseKept, GenerationsKept, PathKept
<1>2. HolderOnPath' /\ CreatorOnPath'
  BY HolderKept, CreatorKept
<1>3. ObservedOld' /\ ReapsStale' /\ StoreInv'
  BY ObservedKept, ReapsKept, StoreKept
<1> QED
  BY <1>1, <1>2, <1>3

(* The strengthening of the two safety properties below.  Prompt creation  *)
(* keeps a lock that is being created young; without inode reuse a         *)
(* generation that was once observed is never given to a new lock.         *)
THEOREM LockInvariant ==
  ASSUME PromptCreate, ~InodeReuse
  PROVE  Spec => []LockInv
<1>1. TypeOK /\ LockInv /\ [Next]_vars => LockInv'
  BY LockInvKept
<1> QED
  BY LockInvStarts, <1>1, TypeCorrect, PTL DEF Spec

(* Two live processes are never both inside a critical section they        *)
(* entered with the lock (withFileLock, withFileLockSyncStrict).           *)
THEOREM MutualExclusionHolds ==
  ASSUME PromptCreate, ~InodeReuse
  PROVE  Spec => []MutualExclusion
<1>1. TypeOK /\ LockInv => MutualExclusion
  BY OneHolder DEF LockInv, MutualExclusion, Holders
<1> QED
  BY <1>1, LockInvariant, TypeCorrect, PTL

(* Every write of the store is counted, unless a best-effort call went     *)
(* ahead without the lock (atomicJsonMutate).                              *)
THEOREM NoUpdateIsLostHolds ==
  ASSUME PromptCreate, ~InodeReuse
  PROVE  Spec => []NoUpdateIsLost
<1>1. LockInv => NoUpdateIsLost
  BY DEF LockInv, StoreInv, NoUpdateIsLost
<1> QED
  BY <1>1, LockInvariant, PTL

(* A lock that names a live process leaves its path only by that process's *)
(* own step under the guard, however old it is (lockSnapshotIsStale).      *)
THEOREM LiveLockStaysHolds ==
  ASSUME PromptCreate, ~InodeReuse
  PROVE  Spec => LiveLockStays
<1> DEFINE Stays == \A a \in alive : lock.tok # None /\ lock.tok[1] = a /\ ~Same(lock, lock')
                                       => guard[a] = "checked"
<1>1. TypeOK /\ LockInv /\ [Next]_vars => [Stays]_vars
  <2> SUFFICES ASSUME TypeOK, LockInv, Next, NEW a \in alive,
                      lock.tok # None, lock.tok[1] = a, ~Same(lock, lock')
               PROVE  guard[a] = "checked"
    OBVIOUS
  <2> USE DEF LockInv
  <2>0. a \in Agent /\ lock # NoFile /\ lock' # lock
    BY DEF TypeOK, PathShape, NoFile, File, Same
  <2>1. \A c \in Agent : ~Open(c) /\ ~WriteToken(c) /\ ~WriteTokenFails(c)
    BY <2>0 DEF Open, WriteToken, WriteTokenFails, At, CreatorOnPath
  <2>2. ASSUME NEW c \in Agent, Replace(c) \/ ReplaceFails(c) PROVE guard[a] = "checked"
    <3>1. c \in alive /\ guard[c] = "checked" /\ Stale(c, lock)
      BY <2>2 DEF Replace, ReplaceFails, At, ReapsStale
    <3>2. abandoned[c] # NoFile /\ abandoned[c].tok = lock.tok
      BY <3>1 DEF Stale, Same, NoFile, File
    <3>3. a = c
      BY <3>2 DEF TypeOK
    <3> QED
      BY <3>1, <3>3
  <2>3. ASSUME NEW c \in Agent, Unlink(c) PROVE guard[a] = "checked"
    <3>1. c \in alive /\ guard[c] = "checked" /\ lease[c] # NoFile /\ Same(lease[c], lock)
      BY <2>3 DEF Unlink, At, HolderOnPath, Holding
    <3>2. a = c
      BY <3>1 DEF TypeOK, Same
    <3> QED
      BY <3>1, <3>2
  <2>4. ~Age
    BY DEF Age
  <2> QED
    BY <2>0, <2>1, <2>2, <2>3, <2>4 DEF Next, Run, Trouble, Call, Observe,
       GiveUp, Choose, Pick, TakeTicket, Unchoose, Enter, Yield, MarkerFails, Leave,
       Revalidate, RevalidateFails, Read, Write, Return, Release, ReleaseGivenUp, CheckOwn,
       UnlinkFails, Crash
<1> QED
  BY <1>1, LockInvariant, TypeCorrect, PTL DEF Spec, LiveLockStays

=============================================================================
