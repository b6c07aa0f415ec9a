--------------------------- MODULE Debugger_proofs ---------------------------
(***************************************************************************)
(* Theorems about Debugger, for any programs, coroutines and breakpoints.  *)
(*                                                                         *)
(* Whether a step ends at the right line depends on step_callstack_size_   *)
(* being the size at the step's own request; the hook overwrites it with 0 *)
(* when it pauses, so StepBase is kept only because whatever ends a pause  *)
(* sets the size or ends the step, and an error that leaves the hook of a  *)
(* pause leaves pause_ set.                                                *)
(***************************************************************************)
EXTENDS Debugger, SequenceTheorems, FiniteSetTheorems, WellFoundedInduction, TLAPS

StackTypes ==
    /\ depth \in [Coroutines -> Nat]
    /\ chain \in Seq(Coroutines) /\ chain # <<>>
    /\ pc \in {"run", "tick", "loop"}
    /\ pc # "run" => StackSize > 0

DbgTypes ==
    /\ dbg \in [pause : BOOLEAN, step : Steps, size : Nat]
    /\ origin \in [step : Steps, co : Coroutines \cup {None}, depth : Nat]

StepInv == StackTypes /\ DbgTypes /\ StepBase

-----------------------------------------------------------------------------
LEMMA RunningCoroutine ==
    ASSUME StackTypes
    PROVE  running \in Coroutines /\ StackSize \in Nat
BY DEF StackTypes, running, StackSize

LEMMA StepInitInv == Init => StepInv
<1> SUFFICES ASSUME Init PROVE StepInv
  OBVIOUS
<1>1. chain = <<Main>> /\ Main \in Coroutines
  BY DEF Init, Coroutines
<1>2. StackTypes
  BY <1>1 DEF Init, StackTypes
<1>3. DbgTypes
  <2>1. 0..MaxDepth \subseteq Nat
    BY DebuggerAssumption
  <2>2. dbg \in [pause : BOOLEAN, step : Steps, size : Nat]
    <3>1. PICK size \in Nat : dbg = [pause |-> TRUE, step |-> "STEP_ENTRY", size |-> size]
      BY <2>1 DEF Init
    <3>2. QED
      BY <3>1 DEF Steps
  <2>3. origin \in [step : Steps, co : Coroutines \cup {None}, depth : Nat]
    BY DEF Init, Steps
  <2>4. QED
    BY <2>2, <2>3 DEF DbgTypes
<1>4. QED
  BY <1>2, <1>3 DEF Init, StepInv, StepBase

(* The chain without its last coroutine.                                   *)
LEMMA ChainFront ==
    ASSUME StackTypes, Len(chain) > 1
    PROVE  LET front == SubSeq(chain, 1, Len(chain) - 1)
           IN  front \in Seq(Coroutines) /\ front # <<>>
<1>1. chain \in Seq(Coroutines) /\ Len(chain) - 1 \in Nat /\ Len(chain) - 1 > 0
  BY DEF StackTypes
<1>2. SubSeq(chain, 1, Len(chain) - 1) \in Seq(Coroutines)
  BY <1>1
<1>3. Len(SubSeq(chain, 1, Len(chain) - 1)) = Len(chain) - 1
  BY <1>1, SubSeqProperties
<1>4. SubSeq(chain, 1, Len(chain) - 1) # <<>>
  <2>1. ASSUME NEW s, Len(s) > 0 PROVE s # <<>>
    BY <2>1
  <2>2. Len(SubSeq(chain, 1, Len(chain) - 1)) > 0
    BY <1>1, <1>3
  <2>3. QED
    BY <2>1, <2>2, Zenon
<1>5. QED
  BY <1>2, <1>4

(* Lua never touches the debugger, and enters the hook in a frame.         *)
LEMMA LuaInv == ASSUME StepInv, Lua PROVE StepInv'
<1>1. StackTypes /\ DbgTypes /\ StepBase /\ running \in Coroutines /\ StackSize \in Nat
  BY RunningCoroutine DEF StepInv
<1>2. ASSUME NEW place \in Place, Call(place) PROVE StackTypes'
  <2>1. depth' = [depth EXCEPT ![running] = StackSize + 1] /\ chain' = chain
    BY <1>2 DEF Call, StackSize
  <2>2. depth' \in [Coroutines -> Nat] /\ StackSize' = StackSize + 1
    BY <1>1, <2>1 DEF StackTypes, StackSize, running
  <2>3. QED
    BY <1>1, <1>2, <2>1, <2>2 DEF StackTypes, Call, EnterHook
<1>3. ASSUME NEW place \in Place, Return(place) \/ NewLine(place) PROVE StackTypes'
  BY <1>1, <1>3 DEF StackTypes, Return, NewLine, EnterHook, luaVars, StackSize, running
<1>4. ASSUME Yield PROVE StackTypes'
  BY <1>1, <1>4, ChainFront DEF StackTypes, Yield
<1>5. ASSUME NEW c \in Coroutines, ResumeCoroutine(c) PROVE StackTypes'
  BY <1>1, <1>5 DEF StackTypes, ResumeCoroutine
<1>6. UNCHANGED <<dbg, origin>> /\ pc = "run" /\ pc' \in {"run", "tick"}
  BY DEF Lua, Call, Return, NewLine, EnterHook, Yield, ResumeCoroutine
<1>7. DbgTypes' /\ StepBase'
  BY <1>1, <1>6 DEF DbgTypes, StepBase
<1>8. QED
  BY <1>2, <1>3, <1>4, <1>5, <1>7 DEF Lua, StepInv

LEMMA RequestInv == ASSUME StepInv, Request PROVE StepInv'
<1>1. StackTypes /\ DbgTypes /\ StepBase /\ running \in Coroutines /\ StackSize \in Nat
  BY RunningCoroutine DEF StepInv
<1>2. Serving /\ UNCHANGED <<luaVars, pc>> /\ StackSize > 0
  BY <1>1 DEF Request, Serving, StackTypes
<1>3. StackTypes'
  BY <1>1, <1>2 DEF StackTypes, luaVars, StackSize, running
<1>4. ASSUME NEW type \in Steps, Step(type) PROVE DbgTypes' /\ StepBase'
  BY <1>1, <1>2, <1>4 DEF DbgTypes, StepBase, Step
<1>5. ASSUME Unpause PROVE DbgTypes' /\ StepBase'
  BY <1>1, <1>5 DEF DbgTypes, StepBase, Unpause, Steps
<1>6. ASSUME Pause PROVE DbgTypes' /\ StepBase'
  BY <1>1, <1>6 DEF DbgTypes, StepBase, Pause, Steps
<1>7. ASSUME UNCHANGED <<dbg, origin>> PROVE DbgTypes' /\ StepBase'
  BY <1>1, <1>2, <1>7 DEF DbgTypes, StepBase
<1>8. {"STEP_OVER", "STEP_IN", "STEP_OUT"} \subseteq Steps
  BY DEF Steps
<1>9. QED
  BY <1>3, <1>4, <1>5, <1>6, <1>7, <1>8
     DEF Request, AddBreakpoint, ClearBreakpoints, StepInv

(* Leaving a frame keeps the stacks well formed.                           *)
LEMMA LeaveStacks ==
    ASSUME StackTypes, pc # "run", pc' = "run", Leave
    PROVE  StackTypes'
<1>1. running \in Coroutines /\ StackSize \in Nat /\ StackSize > 0
  BY RunningCoroutine DEF StackTypes
<1>2. CASE event.type = "ret"
  <2>1. depth' = [depth EXCEPT ![running] = StackSize - 1]
    BY <1>2 DEF Leave, StackSize
  <2>2. depth' \in [Coroutines -> Nat]
    BY <1>1, <2>1 DEF StackTypes
  <2>3. chain' \in Seq(Coroutines) /\ chain' # <<>>
    BY <1>2, ChainFront DEF Leave, StackTypes
  <2>4. QED
    BY <2>2, <2>3 DEF StackTypes
<1>3. CASE event.type # "ret"
  BY <1>3 DEF Leave, StackTypes, luaVars
<1>4. QED
  BY <1>2, <1>3

LEMMA AfterTickInv == ASSUME StepInv, AfterTick PROVE StepInv'
<1>1. StackTypes /\ DbgTypes /\ StepBase
  BY DEF StepInv
<1>2. pc = "tick" /\ origin' = origin
  BY DEF AfterTick
<1>3. CASE pc' = "loop"
  <2>1. dbg' = [dbg EXCEPT !.pause = TRUE, !.size = 0] /\ UNCHANGED luaVars
    BY <1>3 DEF AfterTick
  <2>2. DbgTypes' /\ StepBase'
    BY <1>1, <1>2, <1>3, <2>1 DEF DbgTypes, StepBase
  <2>3. StackTypes'
    BY <1>1, <1>2, <1>3, <2>1 DEF StackTypes, luaVars, StackSize, running
  <2>4. QED
    BY <2>2, <2>3 DEF StepInv
<1>4. CASE pc' # "loop"
  <2>1. pc' = "run" /\ dbg' = dbg /\ Leave
    BY <1>4 DEF AfterTick
  <2>2. QED
    BY <1>1, <1>2, <2>1, LeaveStacks DEF DbgTypes, StepBase, StepInv
<1>5. QED
  BY <1>3, <1>4

LEMMA AfterPauseInv == ASSUME StepInv, AfterPause PROVE StepInv'
BY LeaveStacks DEF AfterPause, StepInv, DbgTypes, StepBase

(* So does an error: some coroutines of the chain stay, with some frames.  *)
LEMMA UnwindStacks ==
    ASSUME StackTypes, pc' = "run", Unwind
    PROVE  StackTypes'
<1>1. PICK k \in 1..Len(chain) : \E d \in 0..depth[chain[k]] :
        /\ chain' = SubSeq(chain, 1, k)
        /\ depth' = [c \in Coroutines |->
                       IF c = chain[k] THEN d
                       ELSE IF \E i \in k + 1..Len(chain) : chain[i] = c THEN 0 ELSE depth[c]]
  BY DEF Unwind
<1>2. chain \in Seq(Coroutines) /\ depth \in [Coroutines -> Nat]
  BY DEF StackTypes
<1>3. k \in Nat /\ k > 0 /\ depth[chain[k]] \in Nat
  BY <1>1, <1>2
<1>4. depth' \in [Coroutines -> Nat]
  <2>1. \A d \in 0..depth[chain[k]] : d \in Nat
    BY <1>3
  <2>2. QED
    BY <1>1, <1>2, <2>1
<1>5. SubSeq(chain, 1, k) \in Seq(Coroutines) /\ Len(SubSeq(chain, 1, k)) = k
  BY <1>1, <1>2, SubSeqProperties
<1>6. chain' \in Seq(Coroutines) /\ chain' # <<>>
  <2>1. ASSUME NEW s, Len(s) > 0 PROVE s # <<>>
    BY <2>1
  <2>2. Len(SubSeq(chain, 1, k)) > 0
    BY <1>3, <1>5
  <2>3. QED
    BY <1>1, <1>5, <2>1, <2>2, Zenon
<1>7. QED
  BY <1>4, <1>6 DEF StackTypes

(* The size a step is measured from stays, whatever breaks the hook off.   *)
LEMMA RequestFailsInv == ASSUME StepInv, RequestFails PROVE StepInv'
<1>1. StackTypes /\ DbgTypes /\ StepBase
  BY DEF StepInv
<1>2. StackTypes' /\ origin' = origin
  BY <1>1, UnwindStacks DEF RequestFails, LeftByError
<1>3. dbg' \in {dbg, [dbg EXCEPT !.step = "STEP_PAUSE"]}
  BY DEF RequestFails
<1>4. DbgTypes' /\ StepBase'
  <2>1. CASE dbg' = dbg
    BY <1>1, <1>2, <2>1 DEF DbgTypes, StepBase
  <2>2. CASE dbg' = [dbg EXCEPT !.step = "STEP_PAUSE"]
    BY <1>1, <1>2, <2>2 DEF DbgTypes, StepBase, Steps
  <2>3. QED
    BY <1>3, <2>1, <2>2
<1>5. QED
  BY <1>2, <1>4 DEF StepInv

LEMMA ConditionFailsInv == ASSUME StepInv, ConditionFails PROVE StepInv'
<1>1. StackTypes /\ DbgTypes /\ StepBase
  BY DEF StepInv
<1>2. StackTypes' /\ origin' = origin
  BY <1>1, UnwindStacks DEF ConditionFails, LeftByError
<1>3. dbg' = [dbg EXCEPT !.pause = dbg.pause \/ StepStops]
  BY DEF ConditionFails
<1>4. (dbg.pause \/ StepStops) \in BOOLEAN
  BY DEF StepStops
<1>5. DbgTypes' /\ StepBase'
  BY <1>1, <1>2, <1>3, <1>4 DEF DbgTypes, StepBase
<1>6. QED
  BY <1>2, <1>5 DEF StepInv

LEMMA StepInvariant == Spec => []StepInv
<1>1. StepInv /\ UNCHANGED vars => StepInv'
  BY DEF StepInv, StackTypes, DbgTypes, StepBase, StackSize, running, vars, luaVars
<1>2. StepInv /\ [Next]_vars => StepInv'
  BY <1>1, LuaInv, RequestInv, AfterTickInv, AfterPauseInv,
     RequestFailsInv, ConditionFailsInv DEF Next
<1>3. QED
  BY <1>2, StepInitInv, PTL DEF Spec

(* Only the end of the hook, or an error, leaves the tick; the end pauses  *)
(* if the step says so and a pause that only a step caused is one.         *)
LEMMA TickEnds ==
    ASSUME [Next]_vars, pc = "tick", event.type = "line", pc' # pc
    PROVE  /\ pc' = "run" /\ causes' = {} => ~dbg.pause /\ ~StepStops
           /\ causes' = {"step"} => ~dbg.pause /\ StepStops
<1>1. AfterTick \/ RequestFails \/ ConditionFails
  BY DEF Next, Lua, Call, Return, NewLine, Yield, ResumeCoroutine, Request, AfterPause, vars
<1>2. CASE RequestFails \/ ConditionFails
  BY <1>2 DEF RequestFails, ConditionFails, LeftByError
<1>3. CASE AfterTick /\ dbg.pause
  BY <1>3 DEF AfterTick
<1>4. CASE AfterTick /\ ~dbg.pause /\ StepStops
  BY <1>4 DEF AfterTick
<1>5. CASE AfterTick /\ ~dbg.pause /\ ~StepStops
  <2>1. "step" \notin causes'
    BY <1>5 DEF AfterTick
  <2>2. QED
    BY <1>5, <2>1
<1>6. QED
  BY <1>1, <1>2, <1>3, <1>4, <1>5

LEMMA StepEnds ==
    ASSUME StepInv, [Next]_vars, pc = "tick", event.type = "line", pc' # pc
    PROVE  LET back == running = origin.co
           IN  /\ pc' = "run" /\ causes' = {} =>
                    /\ dbg.step \notin {"STEP_IN", "STEP_PAUSE"}
                    /\ back /\ dbg.step = "STEP_OVER" => StackSize > origin.depth
                    /\ back /\ dbg.step = "STEP_OUT" => StackSize >= origin.depth
               /\ causes' = {"step"} =>
                    /\ back /\ dbg.step = "STEP_OVER" => StackSize <= origin.depth
                    /\ back /\ dbg.step = "STEP_OUT" => StackSize < origin.depth
<1>1. StackSize \in Nat /\ dbg.size \in Nat
  BY RunningCoroutine DEF StepInv, DbgTypes
<1>2. ~dbg.pause /\ dbg.step \in {"STEP_OVER", "STEP_OUT"} => dbg.size = origin.depth
  BY DEF StepInv, StepBase
<1>3. QED
  BY <1>1, <1>2, TickEnds DEF StepStops

-----------------------------------------------------------------------------
(* Hit counts.                                                             *)

Hits == [op : Operators, n : Nat \ {0}]

LEMMA Division ==
    ASSUME NEW n \in Nat, n > 0, NEW k \in Nat
    PROVE  /\ k \div n \in Nat /\ k % n \in 0..n - 1
           /\ k = n * (k \div n) + (k % n)
OBVIOUS

LEMMA DivisionUnique ==
    ASSUME NEW n \in Nat, n > 0, NEW q \in Nat, NEW r \in 0..n - 1
    PROVE  (n * q + r) \div n = q /\ (n * q + r) % n = r
OBVIOUS

(* Counting one further changes the quotient where the remainder is 0.     *)
LEMMA CountOn ==
    ASSUME NEW n \in Nat, n > 0, NEW k \in Nat
    PROVE  (k + 1) \div n = (k \div n) + (IF (k + 1) % n = 0 THEN 1 ELSE 0)
<1>1. PICK q \in Nat, r \in 0..n - 1 : q = k \div n /\ r = k % n /\ k = n * q + r
  BY Division
<1>2. CASE r + 1 < n
  <2>1. k + 1 = n * q + (r + 1) /\ r + 1 \in 0..n - 1 /\ r + 1 # 0
    BY <1>1, <1>2
  <2>2. (k + 1) \div n = q /\ (k + 1) % n = r + 1
    BY <2>1, DivisionUnique
  <2>3. QED
    BY <1>1, <2>1, <2>2
<1>3. CASE r + 1 = n
  <2>1. k + 1 = n * (q + 1) + 0 /\ q + 1 \in Nat /\ 0 \in 0..n - 1
    BY <1>1, <1>3
  <2>2. (k + 1) \div n = q + 1 /\ (k + 1) % n = 0
    BY <2>1, DivisionUnique
  <2>3. QED
    BY <1>1, <2>2
<1>4. QED
  BY <1>1, <1>2, <1>3

(* One more hit is one more pause exactly if the hit condition holds of    *)
(* the new count: what Promised says of all hits, HitHolds says of each.   *)
LEMMA OneMoreHit ==
    ASSUME NEW hit \in Hits, NEW k \in Nat
    PROVE  Promised(hit, k + 1) = Promised(hit, k) + (IF HitHolds(hit, k + 1) THEN 1 ELSE 0)
<1>1. hit.op \in Operators /\ hit.n \in Nat /\ hit.n > 0
  BY DEF Hits
<1>2. CASE hit.op = "%"
  <2>1. /\ (k + 1) \div hit.n = (k \div hit.n) + (IF (k + 1) % hit.n = 0 THEN 1 ELSE 0)
        /\ k \div hit.n \in Nat
    BY <1>1, CountOn, Division
  <2>2. /\ Promised(hit, k + 1) = (k + 1) - ((k + 1) \div hit.n)
        /\ Promised(hit, k) = k - (k \div hit.n)
        /\ HitHolds(hit, k + 1) <=> (k + 1) % hit.n # 0
    BY <1>2 DEF Promised, HitHolds
  <2>3. QED
    BY <2>1, <2>2
<1>3. CASE hit.op = "none"
  BY <1>1, <1>3 DEF Promised, HitHolds
<1>4. CASE hit.op = "<"
  BY <1>1, <1>4 DEF Promised, HitHolds
<1>5. CASE hit.op = "<="
  BY <1>1, <1>5 DEF Promised, HitHolds
<1>6. CASE hit.op = "=="
  BY <1>1, <1>6 DEF Promised, HitHolds
<1>7. CASE hit.op = ">="
  BY <1>1, <1>7 DEF Promised, HitHolds
<1>8. CASE hit.op = ">"
  BY <1>1, <1>8 DEF Promised, HitHolds
<1>9. QED
  BY <1>1, <1>2, <1>3, <1>4, <1>5, <1>6, <1>7, <1>8 DEF Operators

(* Nothing is promised of no hits.                                         *)
LEMMA NoHits == ASSUME NEW hit \in Hits PROVE Promised(hit, 0) = 0
<1>1. hit.op \in Operators /\ hit.n \in Nat /\ hit.n > 0
  BY DEF Hits
<1>2. 0 \div hit.n = 0
  BY <1>1
<1>3. CASE hit.op = "none"
  BY <1>1, <1>2, <1>3 DEF Promised
<1>4. CASE hit.op = "<"
  BY <1>1, <1>2, <1>4 DEF Promised
<1>5. CASE hit.op = "<="
  BY <1>1, <1>2, <1>5 DEF Promised
<1>6. CASE hit.op = "=="
  BY <1>1, <1>2, <1>6 DEF Promised
<1>7. CASE hit.op = ">="
  BY <1>1, <1>2, <1>7 DEF Promised
<1>8. CASE hit.op = ">"
  BY <1>1, <1>2, <1>8 DEF Promised
<1>9. CASE hit.op = "%"
  BY <1>1, <1>2, <1>9 DEF Promised
<1>10. QED
  BY <1>1, <1>3, <1>4, <1>5, <1>6, <1>7, <1>8, <1>9 DEF Operators

-----------------------------------------------------------------------------
(* Breakpoints: types and hit counts go together, for the hit conditions   *)
(* speak of numbers.                                                       *)

BreakInv == StepInv /\ TypeOK /\ HitsHonoured

LEMMA BreakInitInv == Init => BreakInv
<1> SUFFICES ASSUME Init PROVE BreakInv
  OBVIOUS
<1>1. chain = <<Main>> /\ Main \in Coroutines /\ MaxDepth \in Nat
  BY DebuggerAssumption DEF Init, Coroutines
<1>2. depth \in [Coroutines -> 0..MaxDepth] /\ chain \in Seq(Coroutines) /\ chain # <<>>
  BY <1>1 DEF Init
<1>3. dbg \in [pause : BOOLEAN, step : Steps, size : 0..MaxDepth]
  <2>1. PICK size \in 0..MaxDepth : dbg = [pause |-> TRUE, step |-> "STEP_ENTRY", size |-> size]
    BY DEF Init
  <2>2. QED
    BY <2>1 DEF Steps
<1>4. origin \in [step : Steps, co : Coroutines \cup {None}, depth : 0..MaxDepth]
  BY <1>1 DEF Init, Steps
<1>5. bps = <<>> /\ bps \in Seq(Breakpoint)
  BY DEF Init
<1>6. TypeOK
  BY <1>2, <1>3, <1>4, <1>5 DEF Init, TypeOK
<1>7. HitsHonoured
  BY <1>5 DEF HitsHonoured
<1>8. QED
  BY <1>6, <1>7, StepInitInv DEF BreakInv

LEMMA BreakLuaInv == ASSUME BreakInv, Lua PROVE BreakInv'
<1>1. TypeOK /\ HitsHonoured /\ StackTypes
  BY DEF BreakInv, StepInv
<1>2. StepInv'
  BY LuaInv DEF BreakInv
<1>3. UNCHANGED <<dbg, bps, origin>> /\ HitsHonoured'
  BY <1>1 DEF Lua, Call, Return, NewLine, EnterHook, Yield, ResumeCoroutine, HitsHonoured
<1>4. depth' \in [Coroutines -> 0..MaxDepth]
  <2>1. ASSUME NEW place \in Place, Call(place) PROVE depth' \in [Coroutines -> 0..MaxDepth]
    <3>1. depth' = [depth EXCEPT ![running] = StackSize + 1] /\ StackSize < MaxDepth
      BY <2>1 DEF Call, StackSize
    <3>2. StackSize + 1 \in 0..MaxDepth
      BY <1>1, <3>1, RunningCoroutine, DebuggerAssumption
    <3>3. QED
      BY <1>1, <3>1, <3>2 DEF TypeOK
  <2>2. QED
    BY <1>1, <2>1 DEF Lua, Return, NewLine, luaVars, Yield, ResumeCoroutine, TypeOK
<1>5. event' \in Event
  BY <1>1 DEF Lua, Call, Return, NewLine, EnterHook, Yield, ResumeCoroutine, Event, TypeOK
<1>6. cur' \in Nat /\ (pc' = "tick" => cur' = 0) /\ causes' = causes
  BY <1>1 DEF Lua, Call, Return, NewLine, EnterHook, Yield, ResumeCoroutine, TypeOK
<1>7. TypeOK'
  BY <1>1, <1>2, <1>3, <1>4, <1>5, <1>6 DEF TypeOK, StepInv, StackTypes
<1>8. QED
  BY <1>2, <1>3, <1>7 DEF BreakInv

(* A new breakpoint has no hits, and none are promised of it.              *)
LEMMA AddBreakpointInv ==
    ASSUME BreakInv,
           NEW file \in BreakFiles, NEW line \in Lines, NEW condition \in BOOLEAN,
           NEW hit \in HitConditions, AddBreakpoint(file, line, condition, hit)
    PROVE  bps' \in Seq(Breakpoint) /\ HitsHonoured'
<1> DEFINE new == [file |-> file, line |-> line, condition |-> condition,
                   hit |-> hit, hit_count |-> 0, visits |-> 0, stops |-> 0]
<1>1. bps \in Seq(Breakpoint) /\ HitsHonoured
  BY DEF BreakInv, TypeOK
<1>2. new \in Breakpoint
  BY DEF Breakpoint
<1>3. Promised(hit, 0) = 0
  BY NoHits, DebuggerAssumption DEF Hits
<1>4. bps' = Append(bps, new)
  BY DEF AddBreakpoint
<1> HIDE DEF new
<1>5. Len(bps') = Len(bps) + 1 /\ bps'[Len(bps) + 1] = new /\ bps' \in Seq(Breakpoint)
  BY <1>1, <1>2, <1>4
<1>6. \A i \in 1..Len(bps) : bps'[i] = bps[i]
  BY <1>1, <1>2, <1>4
<1>7. /\ new.stops = Promised(new.hit, new.hit_count)
      /\ new.hit_count <= new.visits
  BY <1>3 DEF new
<1>8. ASSUME NEW i \in 1..Len(bps')
      PROVE  /\ bps'[i].stops = Promised(bps'[i].hit, bps'[i].hit_count)
             /\ bps'[i].hit_count <= bps'[i].visits
  <2>1. i \in 1..Len(bps) \/ i = Len(bps) + 1
    BY <1>1, <1>5
  <2>2. QED
    BY <1>1, <1>5, <1>6, <1>7, <2>1 DEF HitsHonoured
<1>9. HitsHonoured'
  BY <1>8 DEF HitsHonoured
<1>10. QED
  BY <1>5, <1>9

(* The breakpoints that stay keep their counts.                            *)
LEMMA ClearBreakpointsInv ==
    ASSUME BreakInv, NEW files, NEW lines, ClearBreakpoints(files, lines)
    PROVE  bps' \in Seq(Breakpoint) /\ HitsHonoured'
<1> DEFINE keep == {i \in 1..Len(bps) : ~(bps[i].file \in files /\ bps[i].line \in lines)}
<1>1. bps \in Seq(Breakpoint) /\ HitsHonoured
  BY DEF BreakInv, TypeOK
<1>2. PICK f \in InOrder(keep) : bps' = [i \in 1..Cardinality(keep) |-> bps[f[i]]]
  BY DEF ClearBreakpoints
<1>3. keep \subseteq 1..Len(bps) /\ IsFiniteSet(keep) /\ Cardinality(keep) \in Nat
  <2>1. IsFiniteSet(1..Len(bps))
    BY <1>1, FS_Interval
  <2>2. QED
    BY <2>1, FS_Subset, FS_CardinalityType
<1>4. f \in [1..Cardinality(keep) -> keep]
  BY <1>2 DEF InOrder
<1> HIDE DEF keep
<1>5. \A i \in 1..Cardinality(keep) : f[i] \in 1..Len(bps) /\ bps'[i] = bps[f[i]]
  BY <1>2, <1>3, <1>4
<1>6. bps' \in Seq(Breakpoint) /\ Len(bps') = Cardinality(keep)
  <2>1. \A i \in 1..Cardinality(keep) : bps[f[i]] \in Breakpoint
    BY <1>1, <1>5
  <2>2. [i \in 1..Cardinality(keep) |-> bps[f[i]]] \in Seq(Breakpoint)
    BY <1>3, <2>1
  <2>3. QED
    BY <1>2, <1>3, <2>2
<1>7. HitsHonoured'
  BY <1>1, <1>5, <1>6 DEF HitsHonoured
<1>8. QED
  BY <1>6, <1>7

LEMMA BreakRequestInv == ASSUME BreakInv, Request PROVE BreakInv'
<1>1. TypeOK /\ HitsHonoured /\ StackTypes
  BY DEF BreakInv, StepInv
<1>2. StepInv' /\ UNCHANGED <<luaVars, pc, event, causes>>
  BY RequestInv DEF BreakInv, Request
<1>3. StackSize \in 0..MaxDepth /\ running \in Coroutines
  BY <1>1, RunningCoroutine DEF TypeOK, StackSize
<1> DEFINE DbgOK == /\ dbg' \in [pause : BOOLEAN, step : Steps, size : 0..MaxDepth]
                    /\ origin' \in [step : Steps, co : Coroutines \cup {None}, depth : 0..MaxDepth]
           BpsOK == bps' \in Seq(Breakpoint) /\ HitsHonoured'
<1>4. ASSUME NEW type \in Steps, Step(type) PROVE DbgOK
  BY <1>1, <1>3, <1>4 DEF Step, TypeOK
<1>5. ASSUME Unpause \/ Pause PROVE DbgOK
  BY <1>1, <1>5 DEF Unpause, Pause, TypeOK, Steps
<1>6. ASSUME UNCHANGED <<dbg, origin>> PROVE DbgOK
  BY <1>1, <1>6 DEF TypeOK
<1>7. ASSUME bps' = bps PROVE BpsOK
  BY <1>1, <1>7 DEF TypeOK, HitsHonoured
<1>8. {"STEP_OVER", "STEP_IN", "STEP_OUT"} \subseteq Steps
  BY DEF Steps
<1>9. ASSUME NEW type \in Steps, Step(type) \/ Unpause \/ Pause PROVE bps' = bps /\ cur' = cur
  BY <1>9 DEF Step, Unpause, Pause
<1>10. ASSUME NEW file \in BreakFiles, NEW line \in Lines, NEW condition \in BOOLEAN,
              NEW hit \in HitConditions, AddBreakpoint(file, line, condition, hit)
       PROVE  DbgOK /\ BpsOK /\ cur' = cur
  <2>1. UNCHANGED <<dbg, origin, cur>>
    BY <1>10 DEF AddBreakpoint
  <2>2. QED
    BY <1>6, <1>10, <2>1, AddBreakpointInv
<1>11. ASSUME NEW files, NEW lines, ClearBreakpoints(files, lines)
       PROVE  DbgOK /\ BpsOK /\ cur' = cur
  <2>1. UNCHANGED <<dbg, origin, cur>>
    BY <1>11 DEF ClearBreakpoints
  <2>2. QED
    BY <1>6, <1>11, <2>1, ClearBreakpointsInv
<1>12. DbgOK /\ BpsOK /\ cur' = cur
  <2> HIDE DEF DbgOK, BpsOK
  <2>1. ASSUME NEW type \in Steps, Step(type) \/ Unpause \/ Pause
        PROVE  DbgOK /\ BpsOK /\ cur' = cur
    BY <1>4, <1>5, <1>7, <1>9, <2>1
  <2>2. QED
    BY <1>8, <1>10, <1>11, <2>1 DEF Request
<1>13. TypeOK'
  BY <1>1, <1>2, <1>12 DEF TypeOK, luaVars, StackSize, running
<1>14. QED
  BY <1>2, <1>12, <1>13 DEF BreakInv

LEMMA FirstHit ==
    ASSUME NEW hits, hits \subseteq Nat, hits # {}
    PROVE  \E i \in hits : \A j \in hits : i <= j
<1> DEFINE less == OpToRel(<, Nat)
<1>1. IsWellFoundedOn(less, Nat)
  BY NatLessThanWellFounded
<1>2. \A i, j \in Nat : j < i => <<j, i>> \in less
  BY DEF OpToRel
<1> HIDE DEF less
<1>3. PICK i \in hits : \A j \in hits : ~(<<j, i>> \in less)
  BY <1>1, WFMin
<1>4. \A j \in hits : i <= j
  <2>1. ASSUME NEW j \in hits PROVE i <= j
    <3>1. i \in Nat /\ j \in Nat /\ ~(j < i)
      BY <1>2, <1>3
    <3>2. QED
      BY <3>1
  <2>2. QED
    BY <2>1
<1>5. QED
  BY <1>4

(* The breakpoint found is at the line, so its visits rise with its hits.  *)
LEMMA FoundAt ==
    ASSUME bps \in Seq(Breakpoint), NEW place, Found(place) # 0
    PROVE  Found(place) \in 1..Len(bps) /\ At(bps[Found(place)], place)
<1> DEFINE hits == {i \in 1..Len(bps) : At(bps[i], place)}
<1>1. hits \subseteq Nat /\ hits # {}
  BY DEF Found
<1>2. \E i \in hits : \A j \in hits : i <= j
  BY <1>1, FirstHit
<1>3. Found(place) \in hits
  BY <1>1, <1>2 DEF Found
<1>4. QED
  BY <1>3

LEMMA CountHonours ==
    ASSUME NEW b \in Breakpoint, NEW holds \in BOOLEAN, NEW place, At(b, place),
           b.stops = Promised(b.hit, b.hit_count), b.hit_count <= b.visits
    PROVE  LET now == Count(Visited(b, place), holds)
           IN  /\ now \in Breakpoint
               /\ now.stops = Promised(now.hit, now.hit_count)
               /\ now.hit_count <= now.visits
<1> DEFINE v == Visited(b, place)
           now == Count(v, holds)
<1>1. v = [b EXCEPT !.visits = b.visits + 1] /\ v \in Breakpoint
  BY DEF Visited, Breakpoint
<1>2. /\ b.hit \in Hits /\ b.hit_count \in Nat /\ b.visits \in Nat /\ b.stops \in Nat
  BY DebuggerAssumption DEF Breakpoint, Hits
<1>3. /\ v.hit = b.hit /\ v.hit_count = b.hit_count /\ v.stops = b.stops
      /\ v.visits = b.visits + 1
  BY <1>1 DEF Breakpoint
<1> SUFFICES /\ now \in Breakpoint
             /\ now.stops = Promised(now.hit, now.hit_count)
             /\ now.hit_count <= now.visits
  OBVIOUS
<1> HIDE DEF v
<1>4. CASE holds
  <2> DEFINE one == IF HitHolds(b.hit, b.hit_count + 1) THEN 1 ELSE 0
  <2>1. Promised(b.hit, b.hit_count + 1) = Promised(b.hit, b.hit_count) + one
    BY <1>2, OneMoreHit
  <2>2. now = [v EXCEPT !.hit_count = b.hit_count + 1, !.stops = b.stops + one]
    <3>1. CASE HitHolds(b.hit, b.hit_count + 1)
      BY <1>3, <1>4, <3>1 DEF Count
    <3>2. CASE ~HitHolds(b.hit, b.hit_count + 1)
      <4>1. now = [v EXCEPT !.hit_count = b.hit_count + 1, !.stops = b.stops]
        BY <1>3, <1>4, <3>2 DEF Count
      <4>2. b.stops + one = b.stops
        BY <1>2, <3>2
      <4>3. QED
        BY <4>1, <4>2
    <3>3. QED
      BY <3>1, <3>2
  <2>3. one \in {0, 1}
    OBVIOUS
  <2> HIDE DEF one, now
  <2>4. now \in Breakpoint
    <3>1. b.hit_count + 1 \in Nat /\ b.stops + one \in Nat
      BY <1>2, <2>3
    <3>2. QED
      BY <1>1, <2>2, <3>1 DEF Breakpoint
  <2>5. /\ now.hit = b.hit /\ now.hit_count = b.hit_count + 1
        /\ now.visits = b.visits + 1 /\ now.stops = b.stops + one
    BY <1>1, <1>3, <2>2 DEF Breakpoint
  <2>6. QED
    BY <1>2, <2>1, <2>4, <2>5
<1>5. CASE ~holds
  <2>1. now = v
    BY <1>1, <1>5 DEF Count, Breakpoint
  <2> HIDE DEF now
  <2>2. now.stops = Promised(now.hit, now.hit_count)
    BY <1>3, <2>1
  <2>3. now.hit_count <= now.visits
    BY <1>2, <1>3, <2>1
  <2>4. QED
    BY <1>1, <2>1, <2>2, <2>3
<1>6. QED
  BY <1>4, <1>5

LEMMA LinePartInv ==
    ASSUME BreakInv, NEW holds \in BOOLEAN, NEW byBreakpoint \in BOOLEAN,
           LinePart(holds, byBreakpoint)
    PROVE  bps' \in Seq(Breakpoint) /\ HitsHonoured' /\ cur' \in Nat
<1>1. bps \in Seq(Breakpoint) /\ HitsHonoured /\ cur \in Nat
  BY DEF BreakInv, TypeOK
<1>2. CASE event.type # "line"
  BY <1>1, <1>2 DEF LinePart, HitsHonoured
<1>3. CASE event.type = "line"
  <2> DEFINE at == event.place
             i == Found(at)
             now(j) == IF j = i THEN Count(Visited(bps[j], at), holds) ELSE Visited(bps[j], at)
  <2>1. bps' = [j \in 1..Len(bps) |-> now(j)] /\ cur' = i
    BY <1>3 DEF LinePart
  <2>2. i \in Nat
    <3>1. CASE i # 0
      BY <1>1, <3>1, FoundAt
    <3>2. QED
      BY <3>1
  <2>3. ASSUME NEW j \in 1..Len(bps)
        PROVE  /\ now(j) \in Breakpoint
               /\ now(j).stops = Promised(now(j).hit, now(j).hit_count)
               /\ now(j).hit_count <= now(j).visits
    <3>1. /\ bps[j] \in Breakpoint /\ bps[j].stops = Promised(bps[j].hit, bps[j].hit_count)
          /\ bps[j].hit_count <= bps[j].visits
      BY <1>1, <2>3 DEF HitsHonoured
    <3>2. CASE j = i
      <4>1. At(bps[j], at)
        BY <1>1, <2>3, <3>2, FoundAt
      <4>2. QED
        BY <3>1, <3>2, <4>1, CountHonours
    <3>3. CASE j # i
      <4>1. now(j) = Visited(bps[j], at)
        BY <3>3
      <4>2. /\ Visited(bps[j], at) \in Breakpoint
            /\ Visited(bps[j], at).hit = bps[j].hit
            /\ Visited(bps[j], at).hit_count = bps[j].hit_count
            /\ Visited(bps[j], at).stops = bps[j].stops
            /\ Visited(bps[j], at).visits \in {bps[j].visits, bps[j].visits + 1}
        BY <3>1 DEF Visited, Breakpoint
      <4>3. bps[j].hit_count \in Nat /\ bps[j].visits \in Nat
        BY <3>1 DEF Breakpoint
      <4>4. QED
        BY <3>1, <4>1, <4>2, <4>3
    <3>4. QED
      BY <3>2, <3>3
  <2> HIDE DEF now, i
  <2>4. bps' \in Seq(Breakpoint) /\ Len(bps') = Len(bps)
    BY <1>1, <2>1, <2>3
  <2>5. \A j \in 1..Len(bps) : bps'[j] = now(j)
    BY <2>1
  <2>6. HitsHonoured'
    BY <2>3, <2>4, <2>5 DEF HitsHonoured
  <2>7. QED
    BY <2>1, <2>2, <2>4, <2>6
<1>4. QED
  BY <1>2, <1>3

LEMMA LeaveDepth ==
    ASSUME TypeOK, pc # "run", Leave
    PROVE  depth' \in [Coroutines -> 0..MaxDepth]
<1>1. running \in Coroutines /\ StackSize \in 0..MaxDepth /\ StackSize > 0
  BY DEF TypeOK, running, StackSize
<1>2. CASE event.type = "ret"
  <2>1. depth' = [depth EXCEPT ![running] = StackSize - 1]
    BY <1>2 DEF Leave, StackSize
  <2>2. StackSize - 1 \in 0..MaxDepth
    BY <1>1, DebuggerAssumption
  <2>3. QED
    BY <2>1, <2>2 DEF TypeOK
<1>3. CASE event.type # "ret"
  BY <1>3 DEF Leave, TypeOK, luaVars
<1>4. QED
  BY <1>2, <1>3

LEMMA BreakAfterTickInv == ASSUME BreakInv, AfterTick PROVE BreakInv'
<1>1. TypeOK /\ StepInv' /\ pc = "tick" /\ UNCHANGED <<event, origin>>
  BY AfterTickInv DEF BreakInv, AfterTick
<1>2. PICK holds \in BOOLEAN, byBreakpoint \in BOOLEAN : LinePart(holds, byBreakpoint)
  BY DEF AfterTick
<1>3. bps' \in Seq(Breakpoint) /\ HitsHonoured' /\ cur' \in Nat
  BY <1>2, LinePartInv
<1>4. CASE pc' = "loop"
  <2>1. dbg' = [dbg EXCEPT !.pause = TRUE, !.size = 0] /\ UNCHANGED luaVars
    BY <1>4 DEF AfterTick
  <2>2. causes' \subseteq {"standing", "step", "breakpoint"}
    BY <1>4 DEF AfterTick
  <2>3. dbg' \in [pause : BOOLEAN, step : Steps, size : 0..MaxDepth]
    <3>1. 0 \in 0..MaxDepth
      BY DebuggerAssumption
    <3>2. QED
      BY <1>1, <2>1, <3>1 DEF TypeOK
  <2>4. TypeOK'
    BY <1>1, <1>3, <1>4, <2>1, <2>2, <2>3 DEF TypeOK, luaVars, StackSize, running
  <2>5. QED
    BY <1>1, <1>3, <2>4 DEF BreakInv
<1>5. CASE pc' # "loop"
  <2>1. pc' = "run" /\ dbg' = dbg /\ Leave /\ causes' = {}
    BY <1>5 DEF AfterTick
  <2>2. depth' \in [Coroutines -> 0..MaxDepth]
    BY <1>1, <2>1, LeaveDepth
  <2>3. TypeOK'
    BY <1>1, <1>3, <2>1, <2>2 DEF TypeOK, StepInv, StackTypes
  <2>4. QED
    BY <1>1, <1>3, <2>3 DEF BreakInv
<1>6. QED
  BY <1>4, <1>5

LEMMA BreakAfterPauseInv == ASSUME BreakInv, AfterPause PROVE BreakInv'
<1>1. TypeOK /\ HitsHonoured /\ StepInv'
  BY AfterPauseInv DEF BreakInv
<1>2. pc = "loop" /\ pc' = "run" /\ causes' = {} /\ UNCHANGED <<event, dbg, bps, cur, origin>>
  BY DEF AfterPause
<1>3. depth' \in [Coroutines -> 0..MaxDepth]
  BY <1>1, <1>2, LeaveDepth DEF AfterPause
<1>4. TypeOK' /\ HitsHonoured'
  BY <1>1, <1>2, <1>3 DEF TypeOK, HitsHonoured, StepInv, StackTypes
<1>5. QED
  BY <1>1, <1>4 DEF BreakInv

LEMMA UnwindDepth ==
    ASSUME TypeOK, Unwind
    PROVE  depth' \in [Coroutines -> 0..MaxDepth]
<1>1. PICK k \in 1..Len(chain) : \E d \in 0..depth[chain[k]] :
        depth' = [c \in Coroutines |->
                    IF c = chain[k] THEN d
                    ELSE IF \E i \in k + 1..Len(chain) : chain[i] = c THEN 0 ELSE depth[c]]
  BY DEF Unwind
<1>2. depth \in [Coroutines -> 0..MaxDepth] /\ depth[chain[k]] \in 0..MaxDepth
  BY <1>1 DEF TypeOK
<1>3. (\A d \in 0..depth[chain[k]] : d \in 0..MaxDepth) /\ 0 \in 0..MaxDepth
  BY <1>2, DebuggerAssumption
<1>4. QED
  BY <1>1, <1>2, <1>3

LEMMA BreakRequestFailsInv == ASSUME BreakInv, RequestFails PROVE BreakInv'
<1>1. TypeOK /\ HitsHonoured /\ StepInv'
  BY RequestFailsInv DEF BreakInv
<1>2. /\ pc' = "run" /\ causes' = {"error"} /\ UNCHANGED <<event, origin, bps, cur>>
      /\ dbg' \in {dbg, [dbg EXCEPT !.step = "STEP_PAUSE"]}
  BY DEF RequestFails, LeftByError
<1>3. depth' \in [Coroutines -> 0..MaxDepth]
  BY <1>1, UnwindDepth DEF RequestFails, LeftByError
<1>4. dbg' \in [pause : BOOLEAN, step : Steps, size : 0..MaxDepth]
  BY <1>1, <1>2 DEF TypeOK, Steps
<1>5. TypeOK' /\ HitsHonoured'
  BY <1>1, <1>2, <1>3, <1>4 DEF TypeOK, HitsHonoured, StepInv, StackTypes
<1>6. QED
  BY <1>1, <1>5 DEF BreakInv

(* The breakpoints at the line are visited, and none is hit.               *)
LEMMA BreakConditionFailsInv == ASSUME BreakInv, ConditionFails PROVE BreakInv'
<1>1. TypeOK /\ HitsHonoured /\ StepInv'
  BY ConditionFailsInv DEF BreakInv
<1>2. pc' = "run" /\ causes' = {"error"} /\ UNCHANGED <<event, origin>>
  BY DEF ConditionFails, LeftByError
<1>3. depth' \in [Coroutines -> 0..MaxDepth]
  BY <1>1, UnwindDepth DEF ConditionFails, LeftByError
<1>4. dbg' \in [pause : BOOLEAN, step : Steps, size : 0..MaxDepth]
  <2>1. dbg' = [dbg EXCEPT !.pause = dbg.pause \/ StepStops]
    BY DEF ConditionFails
  <2>2. (dbg.pause \/ StepStops) \in BOOLEAN
    BY DEF StepStops
  <2>3. QED
    BY <1>1, <2>1, <2>2 DEF TypeOK
<1>5. bps \in Seq(Breakpoint) /\ bps' = [j \in 1..Len(bps) |-> Visited(bps[j], event.place)]
  BY <1>1 DEF TypeOK, ConditionFails
<1>6. cur' \in Nat
  <2>1. cur' = Found(event.place) /\ Found(event.place) # 0
    BY DEF ConditionFails
  <2>2. QED
    BY <1>5, <2>1, FoundAt
<1>7. ASSUME NEW j \in 1..Len(bps)
      PROVE  LET b == Visited(bps[j], event.place)
             IN  /\ b \in Breakpoint
                 /\ b.stops = Promised(b.hit, b.hit_count)
                 /\ b.hit_count <= b.visits
  <2> DEFINE b == Visited(bps[j], event.place)
  <2>1. /\ bps[j] \in Breakpoint /\ bps[j].stops = Promised(bps[j].hit, bps[j].hit_count)
        /\ bps[j].hit_count <= bps[j].visits
    BY <1>1, <1>5, <1>7 DEF HitsHonoured
  <2>2. /\ b \in Breakpoint /\ b.hit = bps[j].hit /\ b.hit_count = bps[j].hit_count
        /\ b.stops = bps[j].stops /\ b.visits \in {bps[j].visits, bps[j].visits + 1}
    BY <2>1 DEF Visited, Breakpoint
  <2>3. bps[j].hit_count \in Nat /\ bps[j].visits \in Nat
    BY <2>1 DEF Breakpoint
  <2> HIDE DEF b
  <2>4. QED
    <3>1. /\ b \in Breakpoint
          /\ b.stops = Promised(b.hit, b.hit_count)
          /\ b.hit_count <= b.visits
      BY <2>1, <2>2, <2>3
    <3>2. QED
      BY <3>1 DEF b
<1>8. bps' \in Seq(Breakpoint) /\ Len(bps') = Len(bps)
  BY <1>5, <1>7
<1>9. \A j \in 1..Len(bps) : bps'[j] = Visited(bps[j], event.place)
  BY <1>5
<1>10. HitsHonoured'
  BY <1>7, <1>8, <1>9 DEF HitsHonoured
<1>11. TypeOK'
  BY <1>1, <1>2, <1>3, <1>4, <1>6, <1>8 DEF TypeOK, StepInv, StackTypes
<1>12. QED
  BY <1>1, <1>10, <1>11 DEF BreakInv

LEMMA BreakInvariant == Spec => []BreakInv
<1>1. BreakInv /\ UNCHANGED vars => BreakInv'
  BY DEF BreakInv, StepInv, StackTypes, DbgTypes, StepBase, TypeOK, HitsHonoured,
         StackSize, running, vars, luaVars
<1>2. BreakInv /\ [Next]_vars => BreakInv'
  BY <1>1, BreakLuaInv, BreakRequestInv, BreakAfterTickInv, BreakAfterPauseInv,
     BreakRequestFailsInv, BreakConditionFailsInv DEF Next
<1>3. QED
  BY <1>2, BreakInitInv, PTL DEF Spec

-----------------------------------------------------------------------------
(* The hook keeps the promise of HookControl.                              *)

LEMMA LuaControl ==
    ASSUME Lua
    PROVE  [Control!ControlNext]_(Control!controlVars)
<1>1. ASSUME NEW place \in Place, Call(place) \/ Return(place) \/ NewLine(place)
      PROVE  Control!Enter
  BY <1>1 DEF Call, Return, NewLine, EnterHook, Control!Enter
<1>2. ASSUME Yield \/ \E c \in Coroutines : ResumeCoroutine(c)
      PROVE  UNCHANGED <<pc, event, dbg, bps>>
  BY <1>2 DEF Yield, ResumeCoroutine
<1>3. UNCHANGED <<pc, event, dbg, bps>> => UNCHANGED Control!controlVars
  BY DEF Control!controlVars
<1>4. QED
  BY <1>1, <1>2, <1>3 DEF Lua, Control!ControlNext

LEMMA RequestControl ==
    ASSUME StepInv, Request
    PROVE  Control!Ask
<1>1. dbg \in [pause : BOOLEAN, step : Steps, size : Nat]
  BY DEF StepInv, DbgTypes
<1>2. UNCHANGED <<pc, event>> /\ (pc = "tick" \/ (pc = "loop" /\ dbg.pause))
  BY DEF Request, Serving
<1>3. \/ dbg'.pause = FALSE /\ dbg'.step = "STEP_NONE"
      \/ dbg'.pause = FALSE /\ dbg'.step \in {"STEP_OVER", "STEP_IN", "STEP_OUT"}
      \/ dbg'.pause = dbg.pause /\ dbg'.step \in {dbg.step, "STEP_PAUSE"}
  <2>1. ASSUME NEW type \in {"STEP_OVER", "STEP_IN", "STEP_OUT"}, Step(type)
        PROVE  dbg'.pause = FALSE /\ dbg'.step = type
    BY <2>1 DEF Step
  <2>2. Unpause => dbg'.pause = FALSE /\ dbg'.step = "STEP_NONE"
    BY <1>1 DEF Unpause
  <2>3. Pause => dbg'.pause = dbg.pause /\ dbg'.step = "STEP_PAUSE"
    BY <1>1 DEF Pause
  <2>4. QED
    BY <2>1, <2>2, <2>3 DEF Request, AddBreakpoint, ClearBreakpoints
<1>4. QED
  BY <1>2, <1>3 DEF Control!Ask, Control!LetGo, Control!LineSteps, Control!NextLine,
                    Control!SomeLine

(* A line changes what breakpoints count, not whether there are any, and   *)
(* only a breakpoint that there is stops the game.                         *)
LEMMA LineKeepsArmed ==
    ASSUME BreakInv, NEW holds \in BOOLEAN, NEW byBreakpoint \in BOOLEAN,
           LinePart(holds, byBreakpoint)
    PROVE  /\ (bps' # <<>>) = (bps # <<>>)
           /\ byBreakpoint => event.type = "line" /\ bps # <<>>
<1>1. bps \in Seq(Breakpoint)
  BY DEF BreakInv, TypeOK
<1>2. CASE event.type # "line"
  BY <1>2 DEF LinePart
<1>3. CASE event.type = "line" /\ bps = <<>>
  <2>1. Len(bps) = 0 /\ 1..Len(bps) = {}
    BY <1>3
  <2>2. Found(event.place) = 0
    BY <2>1 DEF Found
  <2>3. ~byBreakpoint
    BY <1>3, <2>2 DEF LinePart
  <2>4. DOMAIN bps' = {}
    BY <1>3, <2>1 DEF LinePart
  <2>5. bps' \in Seq(Breakpoint) /\ Len(bps') = 0
    BY <1>3, <2>1 DEF LinePart
  <2>6. bps' = <<>>
    BY <2>5
  <2>7. QED
    BY <1>3, <2>3, <2>6
<1>4. CASE event.type = "line" /\ bps # <<>>
  <2>1. 1 \in 1..Len(bps)
    BY <1>1, <1>4
  <2>2. 1 \in DOMAIN bps'
    BY <1>4, <2>1 DEF LinePart
  <2>3. bps' # <<>>
    BY <2>2
  <2>4. QED
    BY <1>4, <2>3
<1>5. QED
  BY <1>2, <1>3, <1>4

LEMMA AfterTickControl ==
    ASSUME BreakInv, AfterTick
    PROVE  Control!Stop \/ Control!Pass
<1>1. dbg \in [pause : BOOLEAN, step : Steps, size : Nat]
  BY DEF BreakInv, StepInv, DbgTypes
<1>2. PICK holds \in BOOLEAN, byBreakpoint \in BOOLEAN :
        LET byStep == ~dbg.pause /\ event.type = "line" /\ StepStops
        IN  /\ LinePart(holds, byBreakpoint)
            /\ IF dbg.pause \/ byStep \/ byBreakpoint
                 THEN dbg' = [dbg EXCEPT !.pause = TRUE, !.size = 0] /\ pc' = "loop"
                 ELSE pc' = "run" /\ UNCHANGED dbg
  BY DEF AfterTick
<1>3. pc = "tick" /\ event' = event
  BY DEF AfterTick
<1>4. (bps' # <<>>) = (bps # <<>>) /\ (byBreakpoint => event.type = "line" /\ bps # <<>>)
  BY <1>2, LineKeepsArmed
<1>5. /\ StepStops => dbg.step \in {"STEP_OVER", "STEP_OUT", "STEP_IN", "STEP_PAUSE"}
      /\ ~StepStops => dbg.step \notin {"STEP_IN", "STEP_PAUSE"}
  BY DEF StepStops
<1>6. CASE pc' = "loop"
  <2>1. dbg'.pause = TRUE /\ dbg'.step = dbg.step
    BY <1>1, <1>2, <1>6
  <2>2. dbg.pause \/ (event.type = "line" /\ (StepStops \/ bps # <<>>))
    BY <1>2, <1>4, <1>6
  <2>3. Control!Stop
    BY <1>3, <1>4, <1>5, <1>6, <2>1, <2>2
       DEF Control!Stop, Control!LineSteps, Control!NextLine, Control!SomeLine
  <2>4. QED
    BY <2>3
<1>7. CASE pc' # "loop"
  <2>1. pc' = "run" /\ dbg' = dbg /\ ~dbg.pause /\ ~(event.type = "line" /\ StepStops)
    BY <1>2, <1>7
  <2>2. Control!Pass
    BY <1>3, <1>4, <1>5, <2>1 DEF Control!Pass, Control!NextLine
  <2>3. QED
    BY <2>2
<1>8. QED
  BY <1>6, <1>7

(* An error breaks the hook off with pause_ as it stands.                  *)
LEMMA RequestFailsControl ==
    ASSUME StepInv, RequestFails
    PROVE  Control!Break
<1>1. dbg \in [pause : BOOLEAN, step : Steps, size : Nat]
  BY DEF StepInv, DbgTypes
<1>2. pc = "tick" \/ (pc = "loop" /\ dbg.pause)
  BY DEF RequestFails, Serving
<1>3. dbg'.pause = dbg.pause /\ dbg'.step \in {dbg.step, "STEP_PAUSE"}
  <2>1. dbg' \in {dbg, [dbg EXCEPT !.step = "STEP_PAUSE"]}
    BY DEF RequestFails
  <2>2. QED
    BY <1>1, <2>1
<1>4. pc' = "run" /\ UNCHANGED <<event, bps>>
  BY DEF RequestFails, LeftByError
<1>5. QED
  BY <1>2, <1>3, <1>4 DEF Control!Break

LEMMA ConditionFailsControl ==
    ASSUME BreakInv, ConditionFails
    PROVE  Control!Break
<1>1. dbg \in [pause : BOOLEAN, step : Steps, size : Nat] /\ bps \in Seq(Breakpoint)
  BY DEF BreakInv, StepInv, DbgTypes, TypeOK
<1>2. /\ pc = "tick" /\ event.type = "line" /\ pc' = "run" /\ event' = event
      /\ Found(event.place) # 0
      /\ bps' = [j \in 1..Len(bps) |-> Visited(bps[j], event.place)]
  BY DEF ConditionFails, LeftByError
<1>3. bps # <<>> /\ bps' # <<>>
  <2>1. Found(event.place) \in 1..Len(bps)
    BY <1>1, <1>2, FoundAt
  <2>2. 1 \in 1..Len(bps)
    BY <1>1, <2>1
  <2>3. 1 \in DOMAIN bps'
    BY <1>2, <2>2
  <2>4. QED
    BY <2>2, <2>3
<1>4. dbg' = [dbg EXCEPT !.pause = dbg.pause \/ StepStops]
  BY DEF ConditionFails
<1>5. dbg'.step = dbg.step /\ dbg'.pause = (dbg.pause \/ StepStops)
  BY <1>1, <1>4
<1>6. CASE StepStops
  <2>1. dbg.step \in {"STEP_OVER", "STEP_OUT", "STEP_IN", "STEP_PAUSE"} /\ dbg'.pause = TRUE
    BY <1>5, <1>6 DEF StepStops
  <2>2. QED
    BY <1>2, <1>3, <1>5, <2>1
       DEF Control!Break, Control!LineSteps, Control!NextLine, Control!SomeLine
<1>7. CASE ~StepStops
  <2>1. dbg'.pause = dbg.pause
    BY <1>1, <1>5, <1>7
  <2>2. QED
    BY <1>2, <1>3, <1>5, <2>1 DEF Control!Break
<1>8. QED
  BY <1>6, <1>7

LEMMA HookControlled ==
    ASSUME BreakInv, [Next]_vars
    PROVE  [Control!ControlNext]_(Control!controlVars)
<1>1. CASE Lua
  BY <1>1, LuaControl
<1>2. CASE Request
  BY <1>2, RequestControl DEF BreakInv, Control!ControlNext
<1>3. CASE AfterTick
  BY <1>3, AfterTickControl DEF Control!ControlNext
<1>4. CASE AfterPause
  <2>1. Control!Resume
    BY <1>4 DEF AfterPause, Control!Resume
  <2>2. QED
    BY <2>1 DEF Control!ControlNext
<1>5. CASE RequestFails
  BY <1>5, RequestFailsControl DEF BreakInv, Control!ControlNext
<1>6. CASE ConditionFails
  BY <1>6, ConditionFailsControl DEF Control!ControlNext
<1>7. CASE UNCHANGED vars
  BY <1>7 DEF vars, luaVars, Control!controlVars
<1>8. QED
  BY <1>1, <1>2, <1>3, <1>4, <1>5, <1>6, <1>7 DEF Next

-----------------------------------------------------------------------------
(* The theorems.                                                           *)

(* Steps over and out are always measured from their own request.          *)
THEOREM StepAlwaysBased == Spec => []StepBase
<1>1. StepInv => StepBase
  BY DEF StepInv
<1>2. QED
  BY <1>1, StepInvariant, PTL

(* Every part of the debugger's state has its type; the breakpoint that    *)
(* the requests of the tick may free is not pointed at meanwhile.          *)
THEOREM AlwaysTyped == Spec => []TypeOK
<1>1. BreakInv => TypeOK
  BY DEF BreakInv
<1>2. QED
  BY <1>1, BreakInvariant, PTL

(* However breakpoints are added, cleared and reached, each asks for as    *)
(* many pauses as its hit condition promises of its hits.                  *)
THEOREM HitsAlwaysHonoured == Spec => []HitsHonoured
<1>1. BreakInv => HitsHonoured
  BY DEF BreakInv
<1>2. QED
  BY <1>1, BreakInvariant, PTL

(* Steps end at the right line of their coroutine, unless an error takes   *)
(* the hook of that line.                                                  *)
THEOREM StepAlwaysExact == Spec => StepExact
<1> DEFINE Right ==
      pc = "tick" /\ event.type = "line" /\ pc' # pc =>
         LET back == running = origin.co
         IN  /\ pc' = "run" /\ causes' = {} =>
                  /\ dbg.step \notin {"STEP_IN", "STEP_PAUSE"}
                  /\ back /\ dbg.step = "STEP_OVER" => StackSize > origin.depth
                  /\ back /\ dbg.step = "STEP_OUT" => StackSize >= origin.depth
             /\ causes' = {"step"} =>
                  /\ back /\ dbg.step = "STEP_OVER" => StackSize <= origin.depth
                  /\ back /\ dbg.step = "STEP_OUT" => StackSize < origin.depth
<1>1. StepInv /\ [Next]_vars => [Right]_vars
  BY StepEnds
<1>2. QED
  BY <1>1, StepInvariant, PTL DEF Spec, StepExact

(* The debugger implements HookControl: over every program, every switch   *)
(* of coroutines and every order of requests, breakpoints and errors, the  *)
(* game stops only for a reason, and goes on only when it was let go or    *)
(* when an error breaks the hook off; a game that was to wait then is      *)
(* stopped again by its next hook.                                         *)
THEOREM DebuggerImplementsControl == Spec => ControlImplemented
<1>1. Init => Control!ControlInit
  <2> SUFFICES ASSUME Init PROVE Control!ControlInit
    OBVIOUS
  <2>1. dbg.pause = TRUE /\ dbg.step = "STEP_ENTRY"
    BY DEF Init
  <2>2. QED
    BY <2>1 DEF Init, Control!ControlInit
<1>2. BreakInv /\ [Next]_vars => [Control!ControlNext]_(Control!controlVars)
  BY HookControlled
<1>3. QED
  BY <1>1, <1>2, BreakInvariant, PTL DEF Spec, ControlImplemented, Control!ControlSpec
=============================================================================
