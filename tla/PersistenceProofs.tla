------------------------- MODULE PersistenceProofs -------------------------
(***************************************************************************)
(* The dirty-mark promise of Persistence, for any players, banks and       *)
(* rooms, any commands and any bounds.                                     *)
(***************************************************************************)
EXTENDS Persistence, TLAPS

\* Types at the start.
LEMMA InitTypeOK == Init => TypeOK
  BY PersistenceAssumption DEF Init, TypeOK, Savers, Entity, Stages

\* Marks name players, banks and rooms.
LEMMA MarkedInEntity ==
  ASSUME TypeOK, NEW S \in SUBSET Entity, NEW from
  PROVE  Marked(S, from) \in SUBSET Entity
  BY DEF Marked

\* So does what a stage of a flush collects.
LEMMA CollectedInEntity ==
  ASSUME TypeOK, NEW stage \in Stages, stage # "report"
  PROVE  Collected(stage) \in SUBSET Entity
<1>1. /\ Players \in SUBSET Entity /\ Banks \in SUBSET Entity /\ Rooms \in SUBSET Entity
      /\ Players \cup Banks \in SUBSET Entity
  BY DEF Entity
<1>2. occupied \in SUBSET Entity
  BY <1>1 DEF TypeOK
<1>3. QED
  BY <1>1, <1>2, MarkedInEntity DEF Collected, Stages, DirtyStages

\* A command changes versions, marks and floors within their types.
LEMMA MutateTypes ==
  ASSUME TypeOK, NEW c \in Effect, Mutate(c)
  PROVE  /\ mem' \in [Entity -> Nat] /\ owed' \in [Entity -> Nat]
         /\ mark' \in [Entity -> Nat \cup {None}]
         /\ occupied' \in SUBSET Rooms
<1>1. mem' \in [Entity -> Nat] /\ owed' \in [Entity -> Nat]
  BY DEF Mutate, TypeOK
<1>2. mark' \in [Entity -> Nat \cup {None}]
  BY DEF Mutate, Marks, TypeOK
<1>3. occupied' \in SUBSET Rooms
  BY DEF Mutate, TypeOK
<1>4. QED
  BY <1>1, <1>2, <1>3

\* A save that is asked for is one the queue can hold.
LEMMA AskTypes ==
  ASSUME TypeOK, NEW inLine, Ask(inLine)
  PROVE  /\ Head(asks).what \in SUBSET (Players \cup Banks)
         /\ asks' \in Seq(Save)
         /\ awaited' \in SUBSET (Players \cup Banks)
<1>1. asks \in Seq(Save) /\ asks # <<>>
  BY DEF Ask, TypeOK
<1>2. Head(asks) \in Save /\ Tail(asks) \in Seq(Save)
  BY <1>1
<1>3. Head(asks).what \in SUBSET (Players \cup Banks)
  BY <1>2 DEF Save
<1>4. QED
  BY <1>2, <1>3 DEF Ask, TypeOK

\* The plan of a full flush is a sequence of stages.
LEMMA FullFlushPlan == FullFlush \in Seq(Stages)
  BY DEF FullFlush, Stages, DirtyStages

\* Every step keeps the types.
LEMMA TypeStep == TypeOK /\ [Next]_vars => TypeOK'
<1> SUFFICES ASSUME TypeOK, [Next]_vars PROVE TypeOK'
  OBVIOUS
<1> USE DEF clock, memory, work
<1>1. CASE UNCHANGED vars
  BY <1>1 DEF vars, TypeOK
<1>2. ASSUME NEW s \in Sessions, Connect(s) PROVE TypeOK'
  BY <1>2 DEF Connect, TypeOK
<1>3. ASSUME NEW s \in Sessions, Disconnect(s) PROVE TypeOK'
  BY <1>3 DEF Disconnect, TypeOK
<1>4. ASSUME NEW s \in Sessions, NEW c \in Effects, Command(s, c) PROVE TypeOK'
  <2>1. c \in Effect /\ c.asks \in Seq(Save)
    BY PersistenceAssumption DEF Effect
  <2>2. Mutate(c)
    BY <1>4 DEF Command
  <2>3. QED
    BY <1>4, <2>1, <2>2, MutateTypes DEF Command, TypeOK
<1>5. ASSUME NEW c \in TickEffects, LoopTick(c) PROVE TypeOK'
  <2>1. c \in Effect /\ c.asks \in Seq(Save)
    BY PersistenceAssumption DEF Effect
  <2>2. Mutate(c)
    BY <1>5 DEF LoopTick
  <2>3. <<"dirtyPlayersAndBanks", "dirtyRooms">> \in Seq(Stages)
    BY DEF Stages, DirtyStages
  <2>4. plan' \in [Savers -> Seq(Stages)] /\ failed' \in [Savers -> BOOLEAN]
    BY <1>5, <2>3 DEF LoopTick, TypeOK
  <2>5. QED
    BY <1>5, <2>1, <2>2, <2>4, MutateTypes DEF LoopTick, TypeOK
<1>6. CASE Clock
  BY <1>6 DEF Clock, TypeOK
<1>7. ASSUME NEW g \in Savers, StartFullFlush(g), phase' \in {"up", "flushing", "down"}
      PROVE TypeOK'
  BY <1>7, FullFlushPlan DEF StartFullFlush, TypeOK
<1>8. CASE DMShutdownFlush
  BY <1>7, <1>8 DEF DMShutdownFlush, Savers, TypeOK
<1>9. CASE SignalFlush
  BY <1>7, <1>9 DEF SignalFlush, Savers, TypeOK
<1>10. CASE QueueSave
  <2>1. Head(asks).what \in SUBSET (Players \cup Banks) /\ asks' \in Seq(Save)
        /\ awaited' \in SUBSET (Players \cup Banks)
    BY <1>10, AskTypes DEF QueueSave
  <2>2. CASE /\ ~QueueFull
             /\ queue' = Append(queue, Head(asks).what)
             /\ UNCHANGED todo
    <3>1. queue' \in Seq(SUBSET (Players \cup Banks))
      BY <2>1, <2>2 DEF TypeOK
    <3>2. Len(queue) \in Nat /\ QueueCap \in Nat /\ Len(queue') = Len(queue) + 1
      BY <2>1, <2>2, PersistenceAssumption DEF TypeOK
    <3>3. Len(queue') <= QueueCap
      BY <3>2, <2>2 DEF QueueFull
    <3>4. QED
      BY <1>10, <2>1, <2>2, <3>1, <3>3 DEF QueueSave, Ask, TypeOK
  <2>3. CASE SaveInLine(Head(asks).what) /\ UNCHANGED queue
    <3>1. todo' \in [Savers -> SUBSET Entity]
      BY <2>1, <2>3 DEF SaveInLine, TypeOK, Entity
    <3>2. QED
      BY <1>10, <2>1, <2>3, <3>1 DEF QueueSave, Ask, TypeOK
  <2>4. QED
    BY <1>10, <2>2, <2>3 DEF QueueSave
<1>22. CASE SaveNow
  <2>1. Head(asks).what \in SUBSET (Players \cup Banks) /\ asks' \in Seq(Save)
        /\ awaited' \in SUBSET (Players \cup Banks)
    BY <1>22, AskTypes DEF SaveNow
  <2>2. todo' \in [Savers -> SUBSET Entity]
    BY <1>22, <2>1 DEF SaveNow, SaveInLine, TypeOK, Entity
  <2>3. QED
    BY <1>22, <2>1, <2>2 DEF SaveNow, Ask, TypeOK
<1>11. CASE TakeRequest
  <2>1. queue # <<>> /\ Head(queue) \in SUBSET Entity
        /\ queue' \in Seq(SUBSET (Players \cup Banks))
    BY <1>11 DEF TakeRequest, TypeOK, Entity
  <2>2. Len(queue) \in Nat /\ Len(queue') = Len(queue) - 1 /\ QueueCap \in Nat
    BY <1>11, <2>1, PersistenceAssumption DEF TakeRequest, TypeOK
  <2>3. Len(queue') <= QueueCap
    BY <2>2 DEF TypeOK
  <2>4. QED
    BY <1>11, <2>1, <2>3 DEF TakeRequest, TypeOK
<1>12. CASE Exit
  BY <1>12 DEF Exit, TypeOK
<1>13. ASSUME NEW g \in Savers, BeginStage(g) PROVE TypeOK'
  <2>1. Head(plan[g]) \in Stages /\ Head(plan[g]) # "report" /\ Tail(plan[g]) \in Seq(Stages)
    BY <1>13 DEF BeginStage, TypeOK
  <2>2. Collected(Head(plan[g])) \in SUBSET Entity
    BY <2>1, CollectedInEntity
  <2>3. QED
    BY <1>13, <2>1, <2>2 DEF BeginStage, TypeOK
<1>14. ASSUME NEW g \in Savers, ClearMarks(g) PROVE TypeOK'
  BY <1>14 DEF ClearMarks, TypeOK
<1>15. ASSUME NEW g \in Savers, FinishFullFlush(g) PROVE TypeOK'
  <2>1. Tail(plan[g]) \in Seq(Stages)
    BY <1>15 DEF FinishFullFlush, Returning, TypeOK
  <2>2. QED
    BY <1>15, <2>1 DEF FinishFullFlush, TypeOK
<1>16. ASSUME NEW g \in Savers, NEW e \in Entity, Snapshot(g, e) PROVE TypeOK'
  BY <1>16 DEF Snapshot, TypeOK
<1>17. ASSUME NEW g \in Savers, Commit(g), cur[g] # None
       PROVE  disk' \in [Entity -> Nat] /\ best' \in [Entity -> Nat]
  BY <1>17 DEF Commit, Larger, TypeOK
<1>18. ASSUME NEW g \in Savers, EndSave(g)
       PROVE  /\ todo' \in [Savers -> SUBSET Entity] /\ cur' \in [Savers -> Entity \cup {None}]
              /\ held' \in [Savers -> Nat] /\ cur[g] \in Entity
  BY <1>18 DEF EndSave, TypeOK
<1>19. ASSUME NEW g \in Savers, Write(g) PROVE TypeOK'
  <2>1. EndSave(g) /\ Commit(g) /\ cur[g] # None
    BY <1>19 DEF Write, EndSave
  <2>2. saved' \in [Savers -> SUBSET Entity]
    BY <1>19, <2>1, <1>18 DEF Write, TypeOK
  <2>3. QED
    BY <1>19, <2>1, <2>2, <1>17, <1>18 DEF Write, EndSave, TypeOK
<1>20. ASSUME NEW g \in Savers, WriteError(g) PROVE TypeOK'
  <2>1. EndSave(g) /\ cur[g] # None
    BY <1>20 DEF WriteError, EndSave
  <2>2. disk' \in [Entity -> Nat] /\ best' \in [Entity -> Nat]
    BY <1>20, <2>1, <1>17 DEF WriteError, TypeOK
  <2>3. QED
    BY <1>20, <2>1, <2>2, <1>18 DEF WriteError, EndSave, TypeOK
<1>21. QED
  BY <1>1, <1>2, <1>3, <1>4, <1>5, <1>6, <1>8, <1>9, <1>10, <1>11, <1>12, <1>13, <1>14, <1>15,
     <1>16, <1>19, <1>20, <1>22 DEF Next, Environment, SaverStep

\* The save machinery keeps its types, and the queue its capacity.
THEOREM Typing == Spec => []TypeOK
  BY InitTypeOK, TypeStep, PTL DEF Spec

-----------------------------------------------------------------------------

Inv == NothingFromTheFuture /\ LoopSavesCurrent /\ MarksDeletedBy /\ UnsavedIsMarked

\* The mark invariant holds at the start.
LEMMA InitInv == Init => Inv
<1> SUFFICES ASSUME Init PROVE Inv
  OBVIOUS
<1>1. NothingFromTheFuture
  BY DEF Init, NothingFromTheFuture
<1>2. LoopSavesCurrent
  BY DEF Init, LoopSavesCurrent, Savers
<1>3. MarksDeletedBy
  BY DEF Init, MarksDeletedBy, Savers
<1>4. UnsavedIsMarked
  BY DEF Init, UnsavedIsMarked
<1>5. QED
  BY <1>1, <1>2, <1>3, <1>4 DEF Inv

\* A change of memory between two saves of the loop.
LEMMA MutateInv ==
  ASSUME TypeOK, Inv, NEW c \in Effect, Mutate(c), LoopIdle, now' = now,
         UNCHANGED <<phase, disk, todo, cur, held, saved, clearing, best>>,
         plan'["saver"] = plan["saver"], plan'["shutdown"] = plan["shutdown"]
  PROVE  Inv'
<1>1. mem \in [Entity -> Nat] /\ best \in [Entity -> Nat] /\ mark \in [Entity -> Nat \cup {None}]
      /\ held \in [Savers -> Nat] /\ cur \in [Savers -> Entity \cup {None}] /\ now \in Nat
      /\ owed \in [Entity -> Nat]
  BY DEF TypeOK
<1>2. \A e \in Entity : /\ mem'[e] \in Nat /\ mem'[e] >= mem[e]
                        /\ e \in c.marked => mem'[e] = mem[e] + 1 /\ owed'[e] = mem'[e]
                        /\ e \notin c.marked => owed'[e] = owed[e]
  BY <1>1 DEF Mutate
<1>3. \A e \in Entity : /\ e \in c.marked => mark'[e] # None
                        /\ e \notin c.marked => mark'[e] = mark[e]
  BY <1>1, PersistenceAssumption DEF Mutate, Marks
<1>4. NothingFromTheFuture'
  <2>1. ASSUME NEW e \in Entity PROVE best'[e] <= mem'[e] /\ owed'[e] <= mem'[e]
    BY <1>1, <1>2 DEF Inv, NothingFromTheFuture
  <2>2. ASSUME NEW g \in Savers, cur'[g] # None PROVE cur'[g] \in todo'[g] /\ held'[g] <= mem'[cur'[g]]
    <3>1. cur[g] \in Entity /\ cur[g] \in todo[g] /\ held[g] <= mem[cur[g]] /\ held[g] \in Nat
      BY <1>1, <2>2 DEF Inv, NothingFromTheFuture
    <3>2. mem[cur[g]] \in Nat /\ mem'[cur[g]] \in Nat /\ mem'[cur[g]] >= mem[cur[g]]
      BY <1>1, <1>2, <3>1
    <3>3. QED
      BY <3>1, <3>2
  <2>3. QED
    BY <2>1, <2>2 DEF NothingFromTheFuture
<1>5. LoopSavesCurrent'
  <2>1. cur["loop"] = None /\ saved["loop"] = {}
    BY DEF LoopIdle, Quiet, Inv, MarksDeletedBy, Savers
  <2>2. QED
    BY <2>1 DEF LoopSavesCurrent
<1>6. MarksDeletedBy'
  BY DEF Inv, MarksDeletedBy
<1>7. UnsavedIsMarked'
  BY <1>2, <1>3 DEF Inv, UnsavedIsMarked
<1>8. QED
  BY <1>4, <1>5, <1>6, <1>7 DEF Inv

\* What a committed or failed write of g leaves behind.
LEMMA EndSaveInv ==
  ASSUME TypeOK, Inv, NEW g \in Savers, EndSave(g), Commit(g) \/ UNCHANGED <<disk, best>>,
         \/ UNCHANGED saved
         \/ Commit(g) /\ saved' = IF clearing[g] THEN [saved EXCEPT ![g] = @ \cup {cur[g]}] ELSE saved
  PROVE  Inv'
<1>1. /\ mem \in [Entity -> Nat] /\ best \in [Entity -> Nat] /\ held \in [Savers -> Nat]
      /\ cur \in [Savers -> Entity \cup {None}] /\ saved \in [Savers -> SUBSET Entity]
      /\ todo \in [Savers -> SUBSET Entity] /\ cur[g] \in Entity
      /\ owed \in [Entity -> Nat]
      /\ UNCHANGED <<phase, mem, owed, mark, plan, clearing>>
  BY DEF TypeOK, EndSave, clock, memory
<1>2. /\ cur[g] \in todo[g] /\ held[g] <= mem[cur[g]]
      /\ \A e \in Entity : /\ best[e] <= mem[e] /\ owed[e] <= mem[e]
                           /\ best[e] \in Nat /\ mem[e] \in Nat /\ owed[e] \in Nat
      /\ held[g] \in Nat
  BY <1>1, PersistenceAssumption DEF Inv, NothingFromTheFuture
<1>3. \A e \in Entity : best[e] <= best'[e] /\ best'[e] <= mem[e] /\ best'[e] \in Nat
  BY <1>1, <1>2 DEF Commit, Larger
<1>4. Commit(g) => best'[cur[g]] >= held[g]
  BY <1>1, <1>2 DEF Commit, Larger
<1>5. NothingFromTheFuture'
  <2>1. ASSUME NEW h \in Savers, cur'[h] # None PROVE cur'[h] \in todo'[h] /\ held'[h] <= mem'[cur'[h]]
    <3>1. h # g
      BY <1>1, <2>1 DEF EndSave
    <3>2. cur'[h] = cur[h] /\ todo'[h] = todo[h] /\ held'[h] = held[h]
      BY <1>1, <3>1 DEF EndSave
    <3>3. QED
      BY <1>1, <2>1, <3>2 DEF Inv, NothingFromTheFuture
  <2>2. QED
    BY <1>1, <1>2, <1>3, <2>1 DEF NothingFromTheFuture
<1>6. LoopSavesCurrent'
  <2>1. cur'["loop"] # None => held'["loop"] = mem'[cur'["loop"]]
    BY <1>1 DEF EndSave, Inv, LoopSavesCurrent, Savers
  <2>2. ASSUME NEW e \in saved'["loop"] PROVE best'[e] = mem'[e]
    <3>1. CASE e \in saved["loop"]
      <4>1. e \in Entity /\ best[e] = mem[e]
        BY <1>1, <3>1 DEF Inv, LoopSavesCurrent, Savers
      <4>2. QED
        BY <1>1, <1>2, <1>3, <4>1
    <3>2. CASE e \notin saved["loop"]
      <4>1. g = "loop" /\ e = cur["loop"] /\ Commit(g)
        BY <1>1, <2>2, <3>2 DEF Savers
      <4>2. held[g] = mem[cur[g]]
        BY <1>1, <4>1, PersistenceAssumption DEF Inv, LoopSavesCurrent
      <4>3. QED
        BY <1>1, <1>2, <1>3, <1>4, <4>1, <4>2
    <3>3. QED
      BY <3>1, <3>2
  <2>3. QED
    BY <2>1, <2>2 DEF LoopSavesCurrent
<1>7. MarksDeletedBy'
  <2>1. \A h \in Savers : ~clearing'[h] => saved'[h] = {}
    BY <1>1 DEF Inv, MarksDeletedBy
  <2>2. saved'["shutdown"] \subseteq Rooms
    <3>1. saved["shutdown"] \subseteq Rooms
      BY DEF Inv, MarksDeletedBy
    <3>2. CASE g = "shutdown" /\ clearing[g]
      <4>1. cur[g] \in Rooms
        BY <1>2, <3>2 DEF Inv, MarksDeletedBy
      <4>2. saved' = saved \/ saved' = [saved EXCEPT ![g] = @ \cup {cur[g]}]
        BY <3>2
      <4>3. saved'["shutdown"] \subseteq saved["shutdown"] \cup {cur[g]}
        BY <1>1, <3>2, <4>2 DEF Savers
      <4>4. QED
        BY <3>1, <4>1, <4>3
    <3>3. CASE ~(g = "shutdown" /\ clearing[g])
      <4>1. saved'["shutdown"] = saved["shutdown"]
        BY <1>1, <3>3 DEF Savers
      <4>2. QED
        BY <3>1, <4>1
    <3>4. QED
      BY <3>2, <3>3
  <2>3. clearing'["shutdown"] => phase' # "up" /\ todo'["shutdown"] \subseteq Rooms
    BY <1>1 DEF EndSave, Inv, MarksDeletedBy, Savers
  <2>4. QED
    BY <1>1, <2>1, <2>2, <2>3 DEF Inv, MarksDeletedBy
<1>8. UnsavedIsMarked'
  BY <1>1, <1>2, <1>3 DEF Inv, UnsavedIsMarked
<1>9. QED
  BY <1>5, <1>6, <1>7, <1>8 DEF Inv

\* Every step keeps the mark invariant.
LEMMA StepInv == TypeOK /\ Inv /\ [Next]_vars => Inv'
<1> SUFFICES ASSUME TypeOK, Inv, [Next]_vars PROVE Inv'
  OBVIOUS
<1> USE DEF clock, memory, work
<1>1. ASSUME UNCHANGED <<phase, mem, owed, mark, plan, todo, cur, held, saved, clearing, best>> PROVE Inv'
  BY <1>1 DEF Inv, NothingFromTheFuture, LoopSavesCurrent, MarksDeletedBy, UnsavedIsMarked
<1>2. CASE UNCHANGED vars
  BY <1>1, <1>2 DEF vars
<1>3. ASSUME NEW s \in Sessions, Connect(s) \/ Disconnect(s) PROVE Inv'
  BY <1>1, <1>3 DEF Connect, Disconnect
<1>4. ASSUME NEW s \in Sessions, NEW c \in Effects, Command(s, c) PROVE Inv'
  <2>1. c \in Effect
    BY PersistenceAssumption
  <2>2. QED
    BY <1>4, <2>1, MutateInv DEF Command
<1>5. ASSUME NEW c \in TickEffects, LoopTick(c) PROVE Inv'
  <2>1. c \in Effect
    BY PersistenceAssumption
  <2>2. plan'["saver"] = plan["saver"] /\ plan'["shutdown"] = plan["shutdown"]
    BY <1>5 DEF LoopTick, TypeOK, Savers
  <2>3. QED
    BY <1>5, <2>1, <2>2, MutateInv DEF LoopTick
<1>6. CASE Clock
  BY <1>1, <1>6 DEF Clock
<1>7. CASE DMShutdownFlush
  <2>1. /\ UNCHANGED <<phase, mem, owed, mark, todo, cur, held, saved, clearing, best>>
        /\ plan'["saver"] = plan["saver"] /\ plan'["shutdown"] = plan["shutdown"]
    BY <1>7 DEF DMShutdownFlush, StartFullFlush, TypeOK, Savers
  <2>2. QED
    BY <2>1 DEF Inv, NothingFromTheFuture, LoopSavesCurrent, MarksDeletedBy, UnsavedIsMarked
<1>8. CASE SignalFlush
  <2>1. /\ UNCHANGED <<mem, owed, mark, todo, cur, held, saved, clearing, best>>
        /\ plan'["saver"] = plan["saver"] /\ plan'["shutdown"] = FullFlush
        /\ phase = "up" /\ phase' = "flushing"
    BY <1>8 DEF SignalFlush, StartFullFlush, TypeOK, Savers
  <2>2. FullFlush \in Seq({"active", "floor", "allDirtyRooms", "report"})
    BY DEF FullFlush
  <2>3. MarksDeletedBy'
    BY <2>1, <2>2 DEF Inv, MarksDeletedBy
  <2>4. QED
    BY <2>1, <2>3 DEF Inv, NothingFromTheFuture, LoopSavesCurrent, UnsavedIsMarked
<1>9. ASSUME QueueSave \/ SaveNow PROVE Inv'
  <2>1. /\ UNCHANGED <<phase, mem, owed, mark, plan, cur, held, saved, clearing, best>>
        /\ \A g \in Savers \ {"loop"} : todo'[g] = todo[g]
        /\ Quiet("loop")
    BY <1>9 DEF QueueSave, SaveNow, Ask, SaveInLine, TypeOK
  <2>2. NothingFromTheFuture'
    BY <2>1 DEF Inv, NothingFromTheFuture, Quiet
  <2>3. MarksDeletedBy'
    BY <2>1 DEF Inv, MarksDeletedBy, Savers
  <2>4. QED
    BY <2>1, <2>2, <2>3 DEF Inv, LoopSavesCurrent, UnsavedIsMarked
<1>10. CASE TakeRequest
  <2>1. /\ UNCHANGED <<phase, mem, owed, mark, plan, cur, held, saved, clearing, best>>
        /\ \A g \in Savers \ {"saver"} : todo'[g] = todo[g]
        /\ Quiet("saver")
    BY <1>10 DEF TakeRequest, TypeOK
  <2>2. NothingFromTheFuture'
    BY <2>1 DEF Inv, NothingFromTheFuture, Quiet
  <2>3. MarksDeletedBy'
    BY <2>1 DEF Inv, MarksDeletedBy, Savers
  <2>4. QED
    BY <2>1, <2>2, <2>3 DEF Inv, LoopSavesCurrent, UnsavedIsMarked
<1>11. CASE Exit
  <2>1. /\ UNCHANGED <<mem, owed, mark, plan, todo, cur, held, saved, clearing, best>>
        /\ phase' = "down" /\ phase # "up"
    BY <1>11 DEF Exit
  <2>2. QED
    BY <2>1 DEF Inv, NothingFromTheFuture, LoopSavesCurrent, MarksDeletedBy, UnsavedIsMarked
<1>12. ASSUME NEW g \in Savers, BeginStage(g) PROVE Inv'
  <2>1. /\ UNCHANGED <<phase, mem, owed, mark, cur, held, saved, best>>
        /\ cur[g] = None /\ plan[g] # <<>> /\ plan' = [plan EXCEPT ![g] = Tail(@)]
        /\ \A h \in Savers \ {g} : todo'[h] = todo[h] /\ clearing'[h] = clearing[h]
        /\ todo'[g] = Collected(Head(plan[g]))
        /\ clearing'[g] => Head(plan[g]) \in DirtyStages
        /\ ~clearing[g]
    BY <1>12 DEF BeginStage, Quiet, TypeOK
  <2>2. NothingFromTheFuture'
    BY <2>1 DEF Inv, NothingFromTheFuture
  <2>3. g # "saver"
    BY <2>1 DEF Inv, MarksDeletedBy
  <2>4. MarksDeletedBy'
    <3>1. CASE g = "loop"
      <4>1. \A h \in Savers : ~clearing'[h] => saved'[h] = {}
        BY <2>1 DEF Inv, MarksDeletedBy
      <4>2. /\ plan'["saver"] = plan["saver"] /\ plan'["shutdown"] = plan["shutdown"]
            /\ clearing'["saver"] = clearing["saver"] /\ clearing'["shutdown"] = clearing["shutdown"]
            /\ todo'["shutdown"] = todo["shutdown"]
        BY <2>1, <3>1 DEF Savers, TypeOK
      <4>3. QED
        BY <2>1, <4>1, <4>2 DEF Inv, MarksDeletedBy
    <3>2. CASE g = "shutdown"
      <4>1. \A h \in Savers : ~clearing'[h] => saved'[h] = {}
        BY <2>1 DEF Inv, MarksDeletedBy
      <4>2. /\ plan[g] \in Seq({"active", "floor", "allDirtyRooms", "report"}) /\ plan[g] # <<>>
            /\ phase # "up" /\ plan'[g] = Tail(plan[g])
        BY <2>1, <3>2 DEF Inv, MarksDeletedBy, TypeOK
      <4>3. plan'[g] \in Seq({"active", "floor", "allDirtyRooms", "report"})
        BY <4>2
      <4>4. Head(plan[g]) \in {"active", "floor", "allDirtyRooms", "report"}
        BY <4>2
      <4>5. clearing'[g] => todo'[g] \subseteq Rooms
        BY <2>1, <4>4 DEF DirtyStages, Collected, Marked
      <4>6. plan'["saver"] = plan["saver"] /\ clearing'["saver"] = clearing["saver"]
        BY <2>1, <3>2 DEF Savers, TypeOK
      <4>7. QED
        BY <2>1, <3>2, <4>1, <4>2, <4>3, <4>5, <4>6 DEF Inv, MarksDeletedBy
    <3>3. QED
      BY <2>3, <3>1, <3>2 DEF Savers
  <2>5. QED
    BY <2>1, <2>2, <2>4 DEF Inv, LoopSavesCurrent, UnsavedIsMarked
<1>13. ASSUME NEW g \in Savers, ClearMarks(g) PROVE Inv'
  <2>1. /\ UNCHANGED <<phase, mem, owed, plan, todo, cur, held, best>>
        /\ clearing[g] /\ cur[g] = None
        /\ clearing' = [clearing EXCEPT ![g] = FALSE] /\ saved' = [saved EXCEPT ![g] = {}]
        /\ mark' = [e \in Entity |-> IF e \in saved[g] THEN None ELSE mark[e]]
        /\ clearing \in [Savers -> BOOLEAN] /\ saved \in [Savers -> SUBSET Entity]
    BY <1>13 DEF ClearMarks, TypeOK
  <2>2. NothingFromTheFuture'
    BY <2>1 DEF Inv, NothingFromTheFuture
  <2>3. LoopSavesCurrent'
    <3>1. saved'["loop"] \subseteq saved["loop"]
      BY <2>1 DEF Savers
    <3>2. QED
      BY <2>1, <3>1 DEF Inv, LoopSavesCurrent
  <2>4. MarksDeletedBy'
    <3>1. \A h \in Savers : ~clearing'[h] => saved'[h] = {}
      BY <2>1 DEF Inv, MarksDeletedBy
    <3>2. /\ clearing'["saver"] => clearing["saver"]
          /\ clearing'["shutdown"] => clearing["shutdown"]
          /\ saved'["shutdown"] \subseteq saved["shutdown"]
      BY <2>1 DEF Savers
    <3>3. QED
      BY <2>1, <3>1, <3>2 DEF Inv, MarksDeletedBy
  <2>5. UnsavedIsMarked'
    <3>1. ASSUME NEW e \in Entity, best[e] < owed[e], e \in saved[g]
          PROVE  e \in Rooms /\ phase # "up"
      <4>1. g # "saver"
        BY <2>1 DEF Inv, MarksDeletedBy
      <4>2. g # "loop"
        <5>1. ASSUME g = "loop" PROVE best[e] = mem[e]
          BY <3>1, <5>1 DEF Inv, LoopSavesCurrent
        <5>2. best[e] \in Nat /\ mem[e] \in Nat /\ owed[e] \in Nat /\ owed[e] <= mem[e]
          BY DEF TypeOK, Inv, NothingFromTheFuture
        <5>3. QED
          BY <3>1, <5>1, <5>2
      <4>3. g = "shutdown"
        BY <4>1, <4>2 DEF Savers
      <4>4. QED
        BY <2>1, <3>1, <4>3 DEF Inv, MarksDeletedBy
    <3>2. QED
      BY <2>1, <3>1 DEF Inv, UnsavedIsMarked
  <2>6. QED
    BY <2>2, <2>3, <2>4, <2>5 DEF Inv
<1>14. ASSUME NEW g \in Savers, FinishFullFlush(g) PROVE Inv'
  <2>1. /\ UNCHANGED <<phase, mem, owed, mark, todo, cur, held, saved, clearing, best>>
        /\ plan[g] # <<>> /\ plan' = [plan EXCEPT ![g] = Tail(@)]
    BY <1>14 DEF FinishFullFlush, Returning
  <2>2. plan'["saver"] = <<>>
    BY <2>1 DEF Inv, MarksDeletedBy, TypeOK, Savers
  <2>3. plan'["shutdown"] \in Seq({"active", "floor", "allDirtyRooms", "report"})
    <3>1. plan["shutdown"] \in Seq({"active", "floor", "allDirtyRooms", "report"})
      BY DEF Inv, MarksDeletedBy
    <3>2. \/ plan'["shutdown"] = plan["shutdown"]
          \/ plan["shutdown"] # <<>> /\ plan'["shutdown"] = Tail(plan["shutdown"])
      BY <2>1 DEF TypeOK, Savers
    <3>3. CASE plan["shutdown"] # <<>> /\ plan'["shutdown"] = Tail(plan["shutdown"])
      <4>1. Tail(plan["shutdown"]) \in Seq({"active", "floor", "allDirtyRooms", "report"})
        BY <3>1, <3>3
      <4>2. QED
        BY <3>3, <4>1
    <3>4. QED
      BY <3>1, <3>2, <3>3
  <2>4. phase = "up" => plan'["shutdown"] = <<>>
    BY <2>1 DEF Inv, MarksDeletedBy, TypeOK, Savers
  <2>5. MarksDeletedBy'
    BY <2>1, <2>2, <2>3, <2>4 DEF Inv, MarksDeletedBy
  <2>6. QED
    BY <2>1, <2>5 DEF Inv, NothingFromTheFuture, LoopSavesCurrent, UnsavedIsMarked
<1>15. ASSUME NEW g \in Savers, NEW e \in Entity, Snapshot(g, e) PROVE Inv'
  <2>1. /\ UNCHANGED <<phase, mem, owed, mark, plan, todo, saved, clearing, best>>
        /\ cur' = [cur EXCEPT ![g] = e] /\ held' = [held EXCEPT ![g] = mem[e]] /\ e \in todo[g]
        /\ cur \in [Savers -> Entity \cup {None}] /\ held \in [Savers -> Nat]
        /\ mem[e] \in Nat
    BY <1>15 DEF Snapshot, TypeOK
  <2>2. NothingFromTheFuture'
    <3>1. ASSUME NEW h \in Savers, cur'[h] # None
          PROVE  cur'[h] \in todo'[h] /\ held'[h] <= mem'[cur'[h]]
      <4>1. CASE h = g
        BY <2>1, <4>1
      <4>2. CASE h # g
        BY <2>1, <3>1, <4>2 DEF Inv, NothingFromTheFuture
      <4>3. QED
        BY <4>1, <4>2
    <3>2. QED
      BY <2>1, <3>1 DEF Inv, NothingFromTheFuture
  <2>3. LoopSavesCurrent'
    BY <2>1 DEF Inv, LoopSavesCurrent, Savers
  <2>4. QED
    BY <2>1, <2>2, <2>3 DEF Inv, MarksDeletedBy, UnsavedIsMarked
<1>16. ASSUME NEW g \in Savers, Write(g) PROVE Inv'
  BY <1>16, EndSaveInv DEF Write
<1>17. ASSUME NEW g \in Savers, WriteError(g) PROVE Inv'
  BY <1>17, EndSaveInv DEF WriteError
<1>18. QED
  BY <1>2, <1>3, <1>4, <1>5, <1>6, <1>7, <1>8, <1>9, <1>10, <1>11, <1>12, <1>13, <1>14, <1>15,
     <1>16, <1>17 DEF Next, Environment, SaverStep

\* The inductive invariant of the save machinery.
THEOREM PersistenceInvariant == Spec => []IInv
<1>1. Init => IInv
  BY InitTypeOK, InitInv DEF IInv, Inv
<1>2. IInv /\ [Next]_vars => IInv'
  BY TypeStep, StepInv DEF IInv, Inv
<1>3. QED
  BY <1>1, <1>2, PTL DEF Spec

\* Whatever was changed and marked since it was last written is still marked dirty: neither
\* a failed write, nor a save running beside the loop, nor the periodic flush
\* loses a mark it should keep.
THEOREM DirtyMarksKept == Spec => []UnsavedIsMarked
<1>1. IInv => UnsavedIsMarked
  BY DEF IInv
<1>2. QED
  BY <1>1, PersistenceInvariant, PTL

-----------------------------------------------------------------------------
(* The full flush.  Each saver's plan is what is left of a full or of a       *)
(* periodic flush; g's full flush still covers e if it has been written since *)
(* the flush began, or a stage to come will find it.                          *)

FloorToCome == <<"floor", "allDirtyRooms", "report">>
RoomsToCome == <<"allDirtyRooms", "report">>
ReportToCome == <<"report">>
FullPlans == {FullFlush, FloorToCome, RoomsToCome, ReportToCome}
PeriodicPlans == {<<"dirtyPlayersAndBanks", "dirtyRooms">>, <<"dirtyRooms">>, <<>>}

PlansKnown ==
    /\ plan["loop"] \in FullPlans \cup PeriodicPlans
    /\ plan["shutdown"] \in FullPlans \cup {<<>>}
    /\ phase = "up" => Quiet("shutdown")
    /\ clearing["shutdown"] => plan["shutdown"] = ReportToCome

\* A room that was changed without a mark since its last marked change has
\* something on its floor.
UnmarkedIsOnFloor == \A e \in Rooms \ occupied : mem[e] = owed[e]

WillBeFound(g, e) ==
    \/ e \in Players \cup Banks /\ plan[g] = FullFlush
    \/ e \in Rooms /\ plan[g] \in {FullFlush, FloorToCome} /\ (e \in occupied \/ mark[e] # None)
    \/ e \in Rooms /\ plan[g] = RoomsToCome /\ mark[e] # None

Exempt(g, e) == g = "loop" /\ e \in Rooms /\ phase # "up"

Covering ==
    \A g \in Savers, e \in Entity :
        plan[g] \in FullPlans /\ ~failed[g] =>
            best[e] >= goal[g][e] \/ e \in todo[g] \/ WillBeFound(g, e) \/ Exempt(g, e)

HeldReachesGoal ==
    /\ \A g \in Savers, e \in Entity : goal[g][e] <= mem[e]
    /\ \A g \in Savers :
         plan[g] \in FullPlans /\ cur[g] # None => held[g] >= goal[g][cur[g]]

FlushInv == PlansKnown /\ UnmarkedIsOnFloor /\ Covering /\ HeldReachesGoal

\* The stages of a full flush, one after the other.
LEMMA PlanFacts ==
    /\ Head(FullFlush) = "active" /\ Tail(FullFlush) = FloorToCome
    /\ Head(FloorToCome) = "floor" /\ Tail(FloorToCome) = RoomsToCome
    /\ Head(RoomsToCome) = "allDirtyRooms" /\ Tail(RoomsToCome) = ReportToCome
    /\ Head(ReportToCome) = "report" /\ Tail(ReportToCome) = <<>>
    /\ Len(FullFlush) = 4 /\ Len(FloorToCome) = 3 /\ Len(RoomsToCome) = 2 /\ Len(ReportToCome) = 1
    /\ Len(<<>>) = 0
BY DEF FullFlush, FloorToCome, RoomsToCome, ReportToCome

\* What is left of a full flush tells how far it has come.
LEMMA PlansDiffer ==
    /\ FullFlush \notin {FloorToCome, RoomsToCome, ReportToCome, <<>>}
    /\ FloorToCome \notin {RoomsToCome, ReportToCome, <<>>}
    /\ RoomsToCome \notin {ReportToCome, <<>>} /\ ReportToCome # <<>>
<1>1. FullFlush # <<>> /\ FloorToCome # <<>> /\ RoomsToCome # <<>> /\ ReportToCome # <<>>
  BY DEF FullFlush, FloorToCome, RoomsToCome, ReportToCome
<1>2. Head(FullFlush) # Head(FloorToCome) /\ Head(FullFlush) # Head(RoomsToCome)
      /\ Head(FullFlush) # Head(ReportToCome) /\ Head(FloorToCome) # Head(RoomsToCome)
      /\ Head(FloorToCome) # Head(ReportToCome) /\ Head(RoomsToCome) # Head(ReportToCome)
  BY PlanFacts
<1> QED BY <1>1, <1>2

\* A periodic flush is at no moment taken for a full one.
LEMMA PeriodicFacts ==
    /\ PeriodicPlans \cap FullPlans = {}
    /\ \A q \in PeriodicPlans : q # <<>> => Tail(q) \in PeriodicPlans /\ Head(q) # "report"
<1> DEFINE two == <<"dirtyPlayersAndBanks", "dirtyRooms">>
           one == <<"dirtyRooms">>
<1>1. /\ Head(two) = "dirtyPlayersAndBanks" /\ Tail(two) = one /\ two # <<>>
      /\ Head(one) = "dirtyRooms" /\ Tail(one) = <<>> /\ one # <<>>
      /\ Len(two) = 2 /\ Len(one) = 1
  OBVIOUS
<1> HIDE DEF two, one
<1>2. PeriodicPlans = {two, one, <<>>}
  BY DEF PeriodicPlans, two, one
<1>3. two \notin FullPlans /\ one \notin FullPlans /\ <<>> \notin FullPlans
  BY <1>1, PlanFacts, PlansDiffer DEF FullPlans
<1> QED BY <1>1, <1>2, <1>3

\* No flush is under way at the start.
LEMMA InitFlushInv == Init => FlushInv
<1> SUFFICES ASSUME Init PROVE FlushInv
  OBVIOUS
<1>1. PlansKnown
  BY DEF Init, PlansKnown, PeriodicPlans, Quiet, Savers
<1>2. UnmarkedIsOnFloor /\ Covering /\ HeldReachesGoal
  BY DEF Init, UnmarkedIsOnFloor, Covering, HeldReachesGoal, Entity, WillBeFound
<1> QED BY <1>1, <1>2 DEF FlushInv

\* Who deletes the mark of e has written its current version, or is the shutdown
\* flush beside the loop.
LEMMA DeletedMark ==
    ASSUME IInv, PlansKnown, NEW h \in Savers, ClearMarks(h), NEW e \in saved[h]
    PROVE  \/ best[e] = mem[e]
           \/ h = "shutdown" /\ e \in Rooms /\ phase # "up" /\ plan["shutdown"] = ReportToCome
<1>1. CASE h = "loop"
  BY <1>1 DEF IInv, LoopSavesCurrent
<1>2. CASE h = "saver"
  BY <1>2 DEF IInv, MarksDeletedBy, ClearMarks
<1>3. CASE h = "shutdown"
  <2>1. clearing["shutdown"] /\ saved["shutdown"] \subseteq Rooms
    BY <1>3 DEF IInv, MarksDeletedBy, ClearMarks
  <2> QED BY <1>3, <2>1 DEF IInv, MarksDeletedBy, PlansKnown
<1> QED BY <1>1, <1>2, <1>3 DEF Savers

\* The types of the numbers compared here.
LEMMA Numbers ==
    ASSUME TypeOK
    PROVE  /\ \A e \in Entity : mem[e] \in Nat /\ owed[e] \in Nat /\ best[e] \in Nat
           /\ \A g \in Savers : held[g] \in Nat /\ \A e \in Entity : goal[g][e] \in Nat
BY DEF TypeOK

\* A change of memory covers what it marks, and what it does not mark it leaves
\* on a floor.
LEMMA MutateFlush ==
    ASSUME IInv, FlushInv, NEW c \in Effect, Mutate(c), LoopIdle,
           UNCHANGED <<phase, todo, cur, held, clearing, goal, best>>,
           \A g \in Savers \ {"loop"} : plan'[g] = plan[g] /\ failed'[g] = failed[g],
           plan'["loop"] \in PeriodicPlans
    PROVE  FlushInv'
<1>1. TypeOK /\ c.marked \subseteq Entity /\ c.silent \subseteq Entity
  BY DEF IInv, Effect
<1>2. /\ \A e \in Entity : /\ mem'[e] >= mem[e] /\ mem'[e] \in Nat
                           /\ e \in c.marked => owed'[e] = mem'[e] /\ mark'[e] # None
                           /\ e \notin c.marked => owed'[e] = owed[e] /\ mark'[e] = mark[e]
                           /\ e \notin c.marked \cup c.silent => mem'[e] = mem[e]
      /\ \A e \in Rooms : /\ e \in c.silent => e \in occupied'
                          /\ e \notin c.marked /\ e \in occupied => e \in occupied'
                          /\ e \notin c.marked \cup c.silent /\ e \in occupied' => e \in occupied
  <2>1. now \in Nat /\ now # None
    BY <1>1, PersistenceAssumption DEF TypeOK
  <2> QED BY <1>1, <2>1, Numbers DEF Mutate, Marks, TypeOK
<1>3. PlansKnown'
  <2>1. /\ plan'["loop"] \in PeriodicPlans /\ plan'["shutdown"] = plan["shutdown"]
    BY DEF Savers
  <2> QED BY <2>1 DEF FlushInv, PlansKnown, Quiet
<1>4. UnmarkedIsOnFloor'
  <2> SUFFICES ASSUME NEW e \in Rooms, e \notin occupied' PROVE mem'[e] = owed'[e]
    BY DEF UnmarkedIsOnFloor
  <2>1. e \in Entity /\ e \notin c.silent
    BY <1>2 DEF Entity
  <2>2. CASE e \in c.marked
    BY <1>2, <2>1, <2>2
  <2>3. CASE e \notin c.marked
    BY <1>2, <2>1, <2>3 DEF FlushInv, UnmarkedIsOnFloor
  <2> QED BY <2>2, <2>3
<1>5. Covering'
  <2> SUFFICES ASSUME NEW g \in Savers, NEW e \in Entity, plan'[g] \in FullPlans, ~failed'[g]
               PROVE  best'[e] >= goal'[g][e] \/ e \in todo'[g] \/ WillBeFound(g, e)' \/ Exempt(g, e)'
    BY DEF Covering
  <2>1. g # "loop" /\ plan'[g] = plan[g] /\ failed'[g] = failed[g]
    BY PeriodicFacts
  <2>2. best[e] >= goal[g][e] \/ e \in todo[g] \/ WillBeFound(g, e) \/ Exempt(g, e)
    BY <2>1 DEF FlushInv, Covering
  <2>3. WillBeFound(g, e) => WillBeFound(g, e)'
    BY <1>2, <2>1 DEF WillBeFound
  <2> QED BY <2>1, <2>2, <2>3 DEF Exempt
<1>6. HeldReachesGoal'
  <2>1. \A g \in Savers, e \in Entity : goal'[g][e] <= mem'[e]
    BY <1>1, <1>2, Numbers DEF FlushInv, HeldReachesGoal
  <2>2. ASSUME NEW g \in Savers, plan'[g] \in FullPlans, cur'[g] # None
        PROVE  held'[g] >= goal'[g][cur'[g]]
    <3>1. g # "loop"
      BY <2>2, PeriodicFacts
    <3> QED BY <2>2, <3>1 DEF FlushInv, HeldReachesGoal
  <2> QED BY <2>1, <2>2 DEF HeldReachesGoal
<1> QED BY <1>3, <1>4, <1>5, <1>6 DEF FlushInv

\* A flush that begins wants what is in memory now.
LEMMA StartFlush ==
    ASSUME IInv, FlushInv, NEW g \in {"loop", "shutdown"}, StartFullFlush(g), Quiet(g),
           g = "loop" => phase' = phase,
           g = "shutdown" => phase = "up" /\ phase' # "up"
    PROVE  FlushInv'
<1>1. /\ TypeOK /\ g \in Savers
      /\ plan' = [plan EXCEPT ![g] = FullFlush] /\ failed' = [failed EXCEPT ![g] = FALSE]
      /\ goal' = [goal EXCEPT ![g] = mem]
      /\ UNCHANGED <<mem, owed, occupied, mark, todo, cur, held, clearing, best>>
  BY DEF IInv, StartFullFlush, memory, Savers
<1>2. /\ plan'[g] = FullFlush /\ goal'[g] = mem
      /\ \A h \in Savers \ {g} : plan'[h] = plan[h] /\ goal'[h] = goal[h] /\ failed'[h] = failed[h]
  BY <1>1 DEF TypeOK
<1>3. PlansKnown'
  <2>1. /\ plan'["loop"] \in FullPlans \cup PeriodicPlans
        /\ plan'["shutdown"] \in FullPlans \cup {<<>>}
    BY <1>2 DEF FlushInv, PlansKnown, FullPlans, Savers
  <2>2. phase' = "up" => Quiet("shutdown")'
    BY <1>1 DEF FlushInv, PlansKnown, Quiet
  <2>3. clearing'["shutdown"] => plan'["shutdown"] = ReportToCome
    BY <1>1, <1>2 DEF FlushInv, PlansKnown, Quiet, Savers
  <2> QED BY <2>1, <2>2, <2>3 DEF PlansKnown
<1>4. UnmarkedIsOnFloor'
  BY <1>1 DEF FlushInv, UnmarkedIsOnFloor
<1>5. Covering'
  <2> SUFFICES ASSUME NEW h \in Savers, NEW e \in Entity, plan'[h] \in FullPlans, ~failed'[h]
               PROVE  best'[e] >= goal'[h][e] \/ e \in todo'[h] \/ WillBeFound(h, e)' \/ Exempt(h, e)'
    BY DEF Covering
  <2>1. CASE h = g
    <3>1. CASE e \in Players \cup Banks
      BY <1>2, <2>1, <3>1 DEF WillBeFound
    <3>2. CASE e \in Rooms /\ best[e] < mem[e] /\ ~Exempt(h, e)'
      <4>1. phase = "up"
        BY <2>1, <3>2 DEF Exempt, Savers
      <4>2. e \in occupied \/ mem[e] = owed[e]
        BY <3>2 DEF FlushInv, UnmarkedIsOnFloor
      <4>3. e \in occupied \/ mark[e] # None
        BY <3>2, <4>1, <4>2 DEF IInv, UnsavedIsMarked
      <4> QED BY <1>1, <1>2, <2>1, <3>2, <4>3 DEF WillBeFound
    <3>3. CASE ~(best[e] < mem[e])
      <4>1. best[e] >= mem[e] /\ best'[e] = best[e] /\ goal'[h][e] = mem[e]
        BY <1>1, <1>2, <2>1, <3>3, Numbers
      <4> QED BY <4>1
    <3> QED BY <3>1, <3>2, <3>3 DEF Entity
  <2>2. CASE h # g
    <3>1. best[e] >= goal[h][e] \/ e \in todo[h] \/ WillBeFound(h, e) \/ Exempt(h, e)
      BY <1>2, <2>2 DEF FlushInv, Covering
    <3>2. Exempt(h, e) => Exempt(h, e)'
      BY <2>2 DEF Exempt, Savers
    <3> QED BY <1>1, <1>2, <2>2, <3>1, <3>2 DEF WillBeFound
  <2> QED BY <2>1, <2>2
<1>6. HeldReachesGoal'
  <2>1. cur[g] = None
    BY DEF Quiet
  <2>2. ASSUME NEW h \in Savers, NEW e \in Entity PROVE goal'[h][e] <= mem'[e]
    <3>1. CASE h = g
      BY <1>1, <1>2, <3>1, Numbers
    <3>2. CASE h # g
      BY <1>1, <1>2, <3>2 DEF FlushInv, HeldReachesGoal
    <3> QED BY <3>1, <3>2
  <2> QED BY <1>1, <1>2, <2>1, <2>2 DEF FlushInv, HeldReachesGoal
<1> QED BY <1>3, <1>4, <1>5, <1>6 DEF FlushInv

\* More to save, and nothing else, disturbs nothing.
LEMMA GrowFlush ==
    ASSUME FlushInv, \A g \in Savers : todo[g] \subseteq todo'[g], todo'["shutdown"] = todo["shutdown"],
           UNCHANGED <<phase, mem, owed, occupied, mark, plan, cur, held, clearing, failed, goal, best>>
    PROVE  FlushInv'
<1>1. PlansKnown'
  BY DEF FlushInv, PlansKnown, Quiet
<1>2. UnmarkedIsOnFloor' /\ HeldReachesGoal'
  BY DEF FlushInv, UnmarkedIsOnFloor, HeldReachesGoal
<1>3. Covering'
  <2> SUFFICES ASSUME NEW g \in Savers, NEW e \in Entity, plan'[g] \in FullPlans, ~failed'[g]
               PROVE  best'[e] >= goal'[g][e] \/ e \in todo'[g] \/ WillBeFound(g, e)' \/ Exempt(g, e)'
    BY DEF Covering
  <2>1. best[e] >= goal[g][e] \/ e \in todo[g] \/ WillBeFound(g, e) \/ Exempt(g, e)
    BY DEF FlushInv, Covering
  <2> QED BY <2>1 DEF WillBeFound, Exempt
<1> QED BY <1>1, <1>2, <1>3 DEF FlushInv

\* The loop's asks and the background saver's requests only add to what is saved.
LEMMA AskFlush == ASSUME TypeOK, FlushInv, QueueSave \/ SaveNow \/ TakeRequest PROVE FlushInv'
<1>1. /\ UNCHANGED <<phase, mem, owed, occupied, mark, plan, cur, held, clearing, failed, goal, best>>
      /\ \/ todo' = todo
         \/ \E h \in {"loop", "saver"}, S \in SUBSET Entity : todo[h] = {} /\ todo' = [todo EXCEPT ![h] = S]
  <2>1. CASE QueueSave \/ SaveNow
    <3>1. PICK inLine : Ask(inLine)
      BY <2>1 DEF QueueSave, SaveNow
    <3>2. Head(asks).what \in SUBSET Entity
      BY <3>1, AskTypes DEF Entity
    <3> QED BY <2>1, <3>1, <3>2 DEF QueueSave, SaveNow, SaveInLine, Ask, Quiet, clock, memory
  <2>2. CASE TakeRequest
    <3>1. queue # <<>> /\ Head(queue) \in SUBSET Entity
      BY <2>2 DEF TakeRequest, TypeOK, Entity
    <3> QED BY <2>2, <3>1 DEF TakeRequest, Quiet, clock, memory
  <2> QED BY <2>1, <2>2
<1>2. (\A g \in Savers : todo[g] \subseteq todo'[g]) /\ todo'["shutdown"] = todo["shutdown"]
  BY <1>1 DEF TypeOK, Savers
<1> QED BY <1>1, <1>2, GrowFlush

\* A stage takes over what it covers, and leaves the rest to the stages after it.
LEMMA BeginFlush ==
    ASSUME IInv, FlushInv, NEW g \in Savers, BeginStage(g)
    PROVE  FlushInv'
<1>1. /\ TypeOK /\ Quiet(g) /\ plan[g] # <<>> /\ Head(plan[g]) # "report"
      /\ UNCHANGED <<phase, mem, owed, occupied, mark, cur, held, failed, goal, best>>
  BY DEF IInv, BeginStage, memory, clock
<1>2. /\ todo'[g] = Collected(Head(plan[g])) /\ plan'[g] = Tail(plan[g])
      /\ clearing'[g] => Head(plan[g]) \in DirtyStages
      /\ \A h \in Savers \ {g} : todo'[h] = todo[h] /\ plan'[h] = plan[h] /\ clearing'[h] = clearing[h]
  BY <1>1 DEF BeginStage, TypeOK
<1>3. g # "saver"
  BY <1>1 DEF IInv, MarksDeletedBy
<1>4. g = "shutdown" => phase # "up"
  BY <1>1 DEF IInv, MarksDeletedBy
<1>5. \/ plan[g] = FullFlush /\ plan'[g] = FloorToCome /\ todo'[g] = Players \cup Banks /\ ~clearing'[g]
      \/ plan[g] = FloorToCome /\ plan'[g] = RoomsToCome /\ todo'[g] = occupied /\ ~clearing'[g]
      \/ plan[g] = RoomsToCome /\ plan'[g] = ReportToCome /\ todo'[g] = Marked(Rooms, 0)
      \/ g = "loop" /\ plan[g] \in PeriodicPlans /\ plan'[g] \in PeriodicPlans
  <2>1. plan[g] \in FullPlans \/ (g = "loop" /\ plan[g] \in PeriodicPlans)
    BY <1>1, <1>3 DEF FlushInv, PlansKnown, Savers
  <2>2. CASE g = "loop" /\ plan[g] \in PeriodicPlans
    BY <1>1, <1>2, <2>2, PeriodicFacts
  <2>3. CASE plan[g] = FullFlush
    BY <1>2, <2>3, PlanFacts DEF Collected, DirtyStages
  <2>4. CASE plan[g] = FloorToCome
    BY <1>2, <2>4, PlanFacts DEF Collected, DirtyStages
  <2>5. CASE plan[g] = RoomsToCome
    BY <1>2, <2>5, PlanFacts DEF Collected, DirtyStages
  <2>6. plan[g] # ReportToCome
    BY <1>1, PlanFacts
  <2> QED BY <2>1, <2>2, <2>3, <2>4, <2>5, <2>6 DEF FullPlans
<1>6. PlansKnown'
  <2>1. plan'["loop"] \in FullPlans \cup PeriodicPlans /\ plan'["shutdown"] \in FullPlans \cup {<<>>}
    BY <1>2, <1>5 DEF FlushInv, PlansKnown, FullPlans, Savers
  <2>2. phase' = "up" => Quiet("shutdown")'
    BY <1>1, <1>2, <1>4 DEF FlushInv, PlansKnown, Quiet, Savers
  <2>3. clearing'["shutdown"] => plan'["shutdown"] = ReportToCome
    BY <1>2, <1>5 DEF FlushInv, PlansKnown, Savers
  <2> QED BY <2>1, <2>2, <2>3 DEF PlansKnown
<1>7. UnmarkedIsOnFloor'
  BY <1>1 DEF FlushInv, UnmarkedIsOnFloor
<1>8. Covering'
  <2> SUFFICES ASSUME NEW h \in Savers, NEW e \in Entity, plan'[h] \in FullPlans, ~failed'[h]
               PROVE  best'[e] >= goal'[h][e] \/ e \in todo'[h] \/ WillBeFound(h, e)' \/ Exempt(h, e)'
    BY DEF Covering
  <2>1. CASE h # g
    BY <1>1, <1>2, <2>1 DEF FlushInv, Covering, WillBeFound, Exempt
  <2>2. CASE h = g
    <3>1. plan[g] \in FullPlans /\ ~failed[g] /\ todo[g] = {}
      BY <1>1, <1>5, <2>2, PeriodicFacts DEF FullPlans, Quiet
    <3>2. best[e] >= goal[g][e] \/ WillBeFound(g, e) \/ Exempt(g, e)
      BY <3>1 DEF FlushInv, Covering
    <3>3. WillBeFound(g, e) => e \in todo'[g] \/ WillBeFound(g, e)'
      <4>1. plan[g] \notin PeriodicPlans
        BY <3>1, PeriodicFacts
      <4>2. CASE plan[g] = FullFlush /\ plan'[g] = FloorToCome /\ todo'[g] = Players \cup Banks
        BY <1>1, <4>2, PlansDiffer DEF WillBeFound
      <4>3. CASE plan[g] = FloorToCome /\ plan'[g] = RoomsToCome /\ todo'[g] = occupied
        BY <1>1, <4>3, PlansDiffer DEF WillBeFound
      <4>4. CASE plan[g] = RoomsToCome /\ todo'[g] = Marked(Rooms, 0)
        <5>1. mark[e] # None => mark[e] >= 0
          BY <1>1 DEF TypeOK
        <5> QED BY <4>4, <5>1, PlansDiffer DEF WillBeFound, Marked
      <4> QED BY <1>5, <4>1, <4>2, <4>3, <4>4
    <3> QED BY <1>1, <2>2, <3>2, <3>3 DEF Exempt
  <2> QED BY <2>1, <2>2
<1>9. HeldReachesGoal'
  <2>1. cur'[g] = None /\ \A h \in Savers \ {g} : plan'[h] = plan[h]
    BY <1>1, <1>2 DEF Quiet
  <2> QED BY <1>1, <2>1 DEF FlushInv, HeldReachesGoal
<1> QED BY <1>6, <1>7, <1>8, <1>9 DEF FlushInv

\* Deleting marks uncovers no entity that a full flush still has to find.
LEMMA ClearFlush ==
    ASSUME IInv, FlushInv, NEW h \in Savers, ClearMarks(h)
    PROVE  FlushInv'
<1>1. /\ TypeOK /\ UNCHANGED <<phase, mem, owed, occupied, plan, todo, cur, held, failed, goal, best>>
      /\ \A g \in Savers : clearing'[g] => clearing[g]
      /\ \A e \in Entity : e \notin saved[h] => mark'[e] = mark[e]
  BY DEF IInv, ClearMarks, memory, clock, TypeOK
<1>2. PlansKnown'
  BY <1>1 DEF FlushInv, PlansKnown, Quiet, Savers
<1>3. UnmarkedIsOnFloor' /\ HeldReachesGoal'
  BY <1>1 DEF FlushInv, UnmarkedIsOnFloor, HeldReachesGoal
<1>4. Covering'
  <2> SUFFICES ASSUME NEW g \in Savers, NEW e \in Entity, plan'[g] \in FullPlans, ~failed'[g]
               PROVE  best'[e] >= goal'[g][e] \/ e \in todo'[g] \/ WillBeFound(g, e)' \/ Exempt(g, e)'
    BY DEF Covering
  <2>1. best[e] >= goal[g][e] \/ e \in todo[g] \/ WillBeFound(g, e) \/ Exempt(g, e)
    BY <1>1 DEF FlushInv, Covering
  <2>2. CASE e \notin saved[h]
    BY <1>1, <2>1, <2>2 DEF WillBeFound, Exempt
  <2>3. CASE e \in saved[h] /\ best[e] = mem[e]
    BY <1>1, <2>3, Numbers DEF FlushInv, HeldReachesGoal
  <2>4. CASE e \in Rooms /\ phase # "up" /\ plan["shutdown"] = ReportToCome
    <3>1. g # "saver"
      BY <1>1, PlansDiffer DEF IInv, MarksDeletedBy, FullPlans
    <3>2. CASE g = "loop"
      BY <1>1, <2>4, <3>2 DEF Exempt
    <3>3. CASE g = "shutdown"
      <4>1. ~WillBeFound(g, e)
        BY <2>4, <3>3, PlansDiffer, PersistenceAssumption DEF WillBeFound
      <4> QED BY <1>1, <2>1, <4>1 DEF Exempt
    <3> QED BY <3>1, <3>2, <3>3 DEF Savers
  <2>5. FlushInv => PlansKnown
    BY DEF FlushInv
  <2> QED BY <2>2, <2>3, <2>4, <2>5, DeletedMark
<1> QED BY <1>2, <1>3, <1>4 DEF FlushInv

\* A flush that returns wants nothing any more.
LEMMA FinishFlush ==
    ASSUME IInv, FlushInv, NEW g \in Savers, FinishFullFlush(g)
    PROVE  FlushInv'
<1>1. /\ TypeOK /\ Quiet(g) /\ plan[g] # <<>> /\ Head(plan[g]) = "report"
      /\ UNCHANGED <<phase, mem, owed, occupied, mark, todo, cur, held, clearing, best>>
  BY DEF IInv, FinishFullFlush, Returning, memory, clock
<1>2. /\ plan'[g] = Tail(plan[g]) /\ goal'[g] = [e \in Entity |-> 0]
      /\ \A h \in Savers \ {g} : plan'[h] = plan[h] /\ goal'[h] = goal[h] /\ failed'[h] = failed[h]
  BY <1>1 DEF FinishFullFlush, TypeOK
<1>3. plan'[g] = <<>>
  <2>1. g # "saver"
    BY <1>1 DEF IInv, MarksDeletedBy
  <2>2. plan[g] \in FullPlans
    BY <1>1, <2>1, PeriodicFacts DEF FlushInv, PlansKnown, Savers
  <2>3. plan[g] = ReportToCome
    BY <1>1, <2>2, PlanFacts DEF FullPlans
  <2> QED BY <1>2, <2>3, PlanFacts
<1>4. <<>> \notin FullPlans
  BY PlansDiffer DEF FullPlans
<1>5. PlansKnown'
  <2>1. plan'["loop"] \in FullPlans \cup PeriodicPlans /\ plan'["shutdown"] \in FullPlans \cup {<<>>}
    BY <1>2, <1>3 DEF FlushInv, PlansKnown, PeriodicPlans, Savers
  <2>2. clearing'["shutdown"] => plan'["shutdown"] = ReportToCome
    BY <1>1, <1>2 DEF FlushInv, PlansKnown, Quiet, Savers
  <2> QED BY <1>1, <2>1, <2>2 DEF FlushInv, PlansKnown, Quiet
<1>6. UnmarkedIsOnFloor'
  BY <1>1 DEF FlushInv, UnmarkedIsOnFloor
<1>7. Covering'
  <2> SUFFICES ASSUME NEW h \in Savers, NEW e \in Entity, plan'[h] \in FullPlans, ~failed'[h]
               PROVE  best'[e] >= goal'[h][e] \/ e \in todo'[h] \/ WillBeFound(h, e)' \/ Exempt(h, e)'
    BY DEF Covering
  <2>1. h # g
    BY <1>3, <1>4
  <2> QED BY <1>1, <1>2, <2>1 DEF FlushInv, Covering, WillBeFound, Exempt
<1>8. HeldReachesGoal'
  <2>1. ASSUME NEW h \in Savers, NEW e \in Entity PROVE goal'[h][e] <= mem'[e]
    <3>1. CASE h = g
      BY <1>1, <1>2, <3>1, Numbers
    <3>2. CASE h # g
      BY <1>1, <1>2, <3>2 DEF FlushInv, HeldReachesGoal
    <3> QED BY <3>1, <3>2
  <2>2. ASSUME NEW h \in Savers, plan'[h] \in FullPlans, cur'[h] # None
        PROVE  held'[h] >= goal'[h][cur'[h]]
    <3>1. h # g
      BY <1>3, <1>4, <2>2
    <3> QED BY <1>1, <1>2, <2>2, <3>1 DEF FlushInv, HeldReachesGoal
  <2> QED BY <2>1, <2>2 DEF HeldReachesGoal
<1> QED BY <1>5, <1>6, <1>7, <1>8 DEF FlushInv

\* A snapshot taken during a flush has at least what the flush began with.
LEMMA SnapshotFlush ==
    ASSUME IInv, FlushInv, NEW g \in Savers, NEW e \in Entity, Snapshot(g, e)
    PROVE  FlushInv'
<1>1. /\ TypeOK /\ e \in todo[g]
      /\ UNCHANGED <<phase, mem, owed, occupied, mark, plan, todo, clearing, failed, goal, best>>
      /\ cur'[g] = e /\ held'[g] = mem[e]
      /\ \A h \in Savers \ {g} : cur'[h] = cur[h] /\ held'[h] = held[h]
  BY DEF IInv, Snapshot, memory, clock, TypeOK
<1>2. PlansKnown'
  BY <1>1 DEF FlushInv, PlansKnown, Quiet, Savers
<1>3. UnmarkedIsOnFloor'
  BY <1>1 DEF FlushInv, UnmarkedIsOnFloor
<1>4. Covering'
  BY <1>1 DEF FlushInv, Covering, WillBeFound, Exempt
<1>5. HeldReachesGoal'
  <2>1. ASSUME NEW h \in Savers, plan'[h] \in FullPlans, cur'[h] # None
        PROVE  held'[h] >= goal'[h][cur'[h]]
    <3>1. CASE h = g
      BY <1>1, <3>1, Numbers DEF FlushInv, HeldReachesGoal
    <3>2. CASE h # g
      BY <1>1, <2>1, <3>2 DEF FlushInv, HeldReachesGoal
    <3> QED BY <3>1, <3>2
  <2> QED BY <1>1, <2>1 DEF FlushInv, HeldReachesGoal
<1> QED BY <1>2, <1>3, <1>4, <1>5 DEF FlushInv

\* What leaves a flush's list has been written, or the flush reports the failure.
LEMMA EndSaveFlush ==
    ASSUME IInv, FlushInv, NEW g \in Savers, EndSave(g),
           \/ Commit(g) /\ failed' = failed
           \/ (Commit(g) \/ best' = best) /\ failed' = [failed EXCEPT ![g] = TRUE]
    PROVE  FlushInv'
<1>1. /\ TypeOK /\ cur[g] \in Entity /\ cur[g] # None
      /\ UNCHANGED <<phase, mem, owed, occupied, mark, plan, clearing, goal>>
      /\ cur'[g] = None /\ todo'[g] = todo[g] \ {cur[g]}
      /\ \A h \in Savers \ {g} : cur'[h] = cur[h] /\ held'[h] = held[h] /\ todo'[h] = todo[h]
  BY DEF IInv, EndSave, memory, clock, TypeOK
<1>2. /\ \A e \in Entity : best'[e] >= best[e] /\ best'[e] \in Nat
      /\ Commit(g) => best'[cur[g]] >= held[g]
  <2>1. held[g] \in Nat /\ best \in [Entity -> Nat]
    BY <1>1 DEF TypeOK
  <2>2. CASE Commit(g)
    BY <1>1, <2>1, <2>2 DEF Commit, Larger
  <2>3. CASE best' = best /\ ~Commit(g)
    BY <2>1, <2>3
  <2> QED BY <2>2, <2>3
<1>3. (\A h \in Savers : failed[h] => failed'[h]) /\ (failed'[g] \/ Commit(g))
  BY <1>1 DEF TypeOK
<1>4. PlansKnown'
  BY <1>1 DEF FlushInv, PlansKnown, Quiet, Savers
<1>5. UnmarkedIsOnFloor'
  BY <1>1 DEF FlushInv, UnmarkedIsOnFloor
<1>6. Covering'
  <2> SUFFICES ASSUME NEW h \in Savers, NEW e \in Entity, plan'[h] \in FullPlans, ~failed'[h]
               PROVE  best'[e] >= goal'[h][e] \/ e \in todo'[h] \/ WillBeFound(h, e)' \/ Exempt(h, e)'
    BY DEF Covering
  <2>1. best[e] >= goal[h][e] \/ e \in todo[h] \/ WillBeFound(h, e) \/ Exempt(h, e)
    BY <1>1, <1>3 DEF FlushInv, Covering
  <2>2. best[e] >= goal[h][e] => best'[e] >= goal'[h][e]
    BY <1>1, <1>2, Numbers
  <2>3. ASSUME e \in todo[h] PROVE e \in todo'[h] \/ best'[e] >= goal'[h][e]
    <3>1. CASE h = g /\ e = cur[g]
      <4>1. Commit(g) /\ held[g] >= goal[g][e]
        BY <1>1, <1>3, <3>1 DEF FlushInv, HeldReachesGoal
      <4> QED BY <1>1, <1>2, <3>1, <4>1, Numbers
    <3> QED BY <1>1, <2>3, <3>1
  <2> QED BY <1>1, <2>1, <2>2, <2>3 DEF WillBeFound, Exempt
<1>7. HeldReachesGoal'
  <2>1. ASSUME NEW h \in Savers, plan'[h] \in FullPlans, cur'[h] # None
        PROVE  held'[h] >= goal'[h][cur'[h]]
    <3>1. h # g
      BY <1>1, <2>1
    <3> QED BY <1>1, <2>1, <3>1 DEF FlushInv, HeldReachesGoal
  <2> QED BY <1>1, <2>1 DEF FlushInv, HeldReachesGoal
<1> QED BY <1>4, <1>5, <1>6, <1>7 DEF FlushInv

\* Every step keeps the invariant of the full flush.
LEMMA FlushStep == IInv /\ FlushInv /\ [Next]_vars => FlushInv'
<1> SUFFICES ASSUME IInv, FlushInv, [Next]_vars PROVE FlushInv'
  OBVIOUS
<1>1. TypeOK
  BY DEF IInv
<1>2. ASSUME UNCHANGED <<phase, memory, mark, work, best>> PROVE FlushInv'
  <2>1. UNCHANGED <<phase, mem, owed, occupied, mark, plan, todo, cur, held, clearing, failed, goal, best>>
    BY <1>2 DEF memory, work
  <2> QED BY <2>1, GrowFlush
<1>3. CASE UNCHANGED vars
  BY <1>2, <1>3 DEF vars, clock
<1>4. ASSUME NEW s \in Sessions, Connect(s) \/ Disconnect(s) PROVE FlushInv'
  BY <1>2, <1>4 DEF Connect, Disconnect
<1>5. CASE Clock
  BY <1>2, <1>5 DEF Clock
<1>6. ASSUME NEW s \in Sessions, NEW c \in Effects, Command(s, c) PROVE FlushInv'
  <2>1. c \in Effect /\ Mutate(c) /\ LoopIdle /\ UNCHANGED <<phase, todo, cur, held, clearing, goal, best>>
        /\ plan' = plan /\ failed' = failed
    BY <1>6, PersistenceAssumption DEF Command, work
  <2>2. plan'["loop"] \in PeriodicPlans
    BY <2>1 DEF LoopIdle, PeriodicPlans
  <2> QED BY <2>1, <2>2, MutateFlush
<1>7. ASSUME NEW c \in TickEffects, LoopTick(c) PROVE FlushInv'
  <2>1. c \in Effect /\ Mutate(c) /\ LoopIdle /\ UNCHANGED <<phase, todo, cur, held, clearing, goal, best>>
    BY <1>7, PersistenceAssumption DEF LoopTick
  <2>2. \A g \in Savers \ {"loop"} : plan'[g] = plan[g] /\ failed'[g] = failed[g]
    BY <1>1, <1>7 DEF LoopTick, TypeOK
  <2>3. plan'["loop"] \in PeriodicPlans
    BY <1>1, <1>7 DEF LoopTick, LoopIdle, TypeOK, Savers, PeriodicPlans
  <2> QED BY <2>1, <2>2, <2>3, MutateFlush
<1>8. CASE DMShutdownFlush
  BY <1>8, StartFlush DEF DMShutdownFlush, LoopIdle
<1>9. CASE SignalFlush
  <2>1. Quiet("shutdown")
    BY <1>9 DEF SignalFlush, FlushInv, PlansKnown
  <2> QED BY <1>9, <2>1, StartFlush DEF SignalFlush
<1>10. CASE QueueSave \/ SaveNow \/ TakeRequest
  BY <1>1, <1>10, AskFlush
<1>11. ASSUME NEW g \in Savers, SaverStep(g) PROVE FlushInv'
  <2>1. CASE BeginStage(g)
    BY <2>1, BeginFlush
  <2>2. CASE ClearMarks(g)
    BY <2>2, ClearFlush
  <2>3. CASE FinishFullFlush(g)
    BY <2>3, FinishFlush
  <2>4. ASSUME NEW e \in Entity, Snapshot(g, e) PROVE FlushInv'
    BY <2>4, SnapshotFlush
  <2>5. CASE Write(g)
    BY <2>5, EndSaveFlush DEF Write
  <2>6. CASE WriteError(g)
    BY <2>6, EndSaveFlush DEF WriteError
  <2> QED BY <1>11, <2>1, <2>2, <2>3, <2>4, <2>5, <2>6 DEF SaverStep
<1>12. CASE Exit
  <2>1. /\ UNCHANGED <<mem, owed, occupied, mark, plan, todo, cur, held, clearing, failed, goal, best>>
        /\ phase # "up" /\ phase' # "up"
    BY <1>12 DEF Exit, memory, work
  <2>2. PlansKnown' /\ UnmarkedIsOnFloor' /\ HeldReachesGoal'
    BY <2>1 DEF FlushInv, PlansKnown, UnmarkedIsOnFloor, HeldReachesGoal
  <2>3. Covering'
    BY <2>1 DEF FlushInv, Covering, WillBeFound, Exempt
  <2> QED BY <2>2, <2>3 DEF FlushInv
<1> QED
  BY <1>3, <1>4, <1>5, <1>6, <1>7, <1>8, <1>9, <1>10, <1>11, <1>12 DEF Next, Environment

\* The inductive invariant of the full flush (FlushActivePlayersAndBanks).
THEOREM FlushInvariant == Spec => [](IInv /\ FlushInv)
<1>1. Init => FlushInv
  BY InitFlushInv
<1>2. IInv /\ FlushInv /\ [Next]_vars => FlushInv'
  BY FlushStep
<1> QED BY <1>1, <1>2, PersistenceInvariant, PTL DEF Spec

\* A full flush that returns no error (FlushActivePlayersAndBanks, on a signal
\* or by *shutdown) has written everything that was in memory when it began, the
\* rooms emptied before it included, whatever commands, background saves and
\* failures of others went on beside it.
THEOREM FullFlushIsComplete == Spec => []FullFlushCovers
<1>1. IInv /\ FlushInv => FullFlushCovers
  <2> SUFFICES ASSUME IInv, FlushInv, NEW g \in Savers, NEW e \in Entity, Returning(g), ~failed[g]
               PROVE  best[e] >= goal[g][e] \/ (g = "loop" /\ e \in Rooms /\ phase # "up")
    BY DEF FullFlushCovers
  <2>1. Quiet(g) /\ plan[g] # <<>> /\ Head(plan[g]) = "report"
    BY DEF Returning
  <2>2. g # "saver"
    BY <2>1 DEF IInv, MarksDeletedBy
  <2>3. plan[g] \in FullPlans
    BY <2>1, <2>2, PeriodicFacts DEF FlushInv, PlansKnown, Savers
  <2>4. plan[g] = ReportToCome
    BY <2>1, <2>3, PlanFacts DEF FullPlans
  <2>5. e \notin todo[g] /\ ~WillBeFound(g, e)
    BY <2>1, <2>4, PlansDiffer DEF Quiet, WillBeFound
  <2> QED BY <2>3, <2>5 DEF FlushInv, Covering, Exempt
<1> QED BY <1>1, FlushInvariant, PTL
=============================================================================
