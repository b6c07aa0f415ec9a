-------------------------- MODULE EvalStack_proofs ---------------------------
(***************************************************************************)
(* Theorems about EvalStack, for any values, results and requests.         *)
(*                                                                         *)
(* Every activation of to_json knows how much of the stack it owns: a key, *)
(* a key and its value, or what a metamethod returned, above the stack it  *)
(* was called with (Nested).  Under all of them lies what the handler of   *)
(* the request has pushed, and under that one error for each evaluation    *)
(* that has failed (Base).                                                 *)
(***************************************************************************)
EXTENDS EvalStack, SequenceTheorems, TLAPS

Extra(at) == CASE at = "start" -> 0 [] at = "next" -> 1 [] at = "value" -> 2 [] at = "meta" -> 1

(* What the k-th activation has on the stack.                              *)
ActOK(k) ==
    /\ calls[k].idx \in 1..calls[k].top
    /\ calls[k].top + Extra(calls[k].at) = IF k < Len(calls) THEN calls[k + 1].top ELSE Top
    /\ k < Len(calls) => calls[k].at \in {"value", "meta"}
    /\ calls[k].at \in {"next", "value"} =>
         calls[k].depth > 0 /\ lua[calls[k].top + 1].tag = "key"
    /\ calls[k].at = "value" => lua[calls[k].top + 2].tag = "value"
    /\ calls[k].at = "meta" => lua[calls[k].top + 1].tag = "meta"

Nested ==
    /\ \A k \in 1..Len(calls) : ActOK(k)
    /\ \A j, k \in 1..Len(calls) : j <= k => calls[j].top <= calls[k].top

(* The stack without what the activations own.                             *)
Ground == IF calls = <<>> THEN Top ELSE calls[1].top

Base ==
    /\ calls # <<>> => pc \in {"results", "variable"}
    /\ pc \notin {"left", "crashed"} =>
         failed <= Ground /\ \A i \in 1..failed : lua[i].tag = "error"
    /\ pc = "idle" => Ground = failed
    /\ pc \in {"env", "call", "results", "list", "variable"} => req.base = failed
    /\ pc = "env" => Ground = req.base + 1 /\ lua[Ground].tag = "chunk"
    /\ pc = "call" => /\ Ground = req.base + 2
                      /\ lua[Ground - 1].tag = "chunk" /\ lua[Ground].tag = "env"
    /\ pc = "results" => req.next > req.base
    /\ pc = "list" => \/ Ground = req.base
                      \/ Ground = req.base + 1 /\ lua[Ground].tag = "function"
    /\ pc = "variable" =>
         /\ lua[Ground].tag = "variable"
         /\ \/ Ground = req.base + 1
            \/ Ground = req.base + 2 /\ lua[Ground - 1].tag = "function"

(* TypeOK, but for what follows from Nested.                               *)
StackTypes ==
    /\ lua \in Seq(Slot) /\ calls \in Seq(Activation)
    /\ pc \in {"idle", "env", "call", "results", "list", "variable", "left", "crashed"}
    /\ req \in Request
    /\ high \in Nat /\ failed \in 0..MaxFailed

StackInv == StackTypes /\ Nested /\ Base

-----------------------------------------------------------------------------
(* The stack.                                                              *)

LEMMA Prefix ==
    ASSUME NEW S, NEW s \in Seq(S), NEW n \in 0..Len(s)
    PROVE  LET p == SubSeq(s, 1, n)
           IN  p \in Seq(S) /\ Len(p) = n /\ \A i \in 1..n : p[i] = s[i]
<1>1. \A i \in 1..n : s[i] \in S
  OBVIOUS
<1>2. n \in Int /\ 1 \in Int
  OBVIOUS
<1>3. /\ SubSeq(s, 1, n) \in Seq(S)
      /\ Len(SubSeq(s, 1, n)) = IF 1 <= n THEN n - 1 + 1 ELSE 0
      /\ \A i \in 1..n - 1 + 1 : SubSeq(s, 1, n)[i] = s[1 + i - 1]
  BY <1>1, <1>2, SubSeqProperties
<1>4. QED
  BY <1>3

LEMMA FrontFacts ==
    ASSUME NEW S, NEW s \in Seq(S), Len(s) > 0
    PROVE  /\ Front(s) \in Seq(S) /\ Len(Front(s)) = Len(s) - 1
           /\ \A i \in 1..Len(s) - 1 : Front(s)[i] = s[i]
<1>1. Len(s) - 1 \in 0..Len(s)
  OBVIOUS
<1>2. QED
  BY <1>1, Prefix DEF Front

LEMMA PushFacts ==
    ASSUME NEW S, NEW s \in Seq(S), NEW e \in S
    PROVE  /\ Append(s, e) \in Seq(S) /\ Len(Append(s, e)) = Len(s) + 1
           /\ \A i \in 1..Len(s) : Append(s, e)[i] = s[i]
           /\ Append(s, e)[Len(s) + 1] = e
OBVIOUS

LEMMA Slots ==
    /\ \A tag \in Tags, v \in Values : Hold(tag, v) \in Slot
    /\ \A tag \in Tags : Mark(tag) \in Slot
<1>1. Anything \in Values
  BY EvalAssumption DEF Anything
<1>2. QED
  BY <1>1 DEF Hold, Mark, Slot

LEMMA ExtraFacts ==
    /\ Extra("start") = 0 /\ Extra("next") = 1
    /\ Extra("value") = 2 /\ Extra("meta") = 1
BY DEF Extra

(* What the invariant says of the innermost activation.                    *)
LEMMA CurrentFacts ==
    ASSUME StackTypes, Nested, Converting
    PROVE  /\ Len(calls) \in Nat /\ Len(calls) > 0 /\ Current \in Activation
           /\ Top \in Nat /\ Current.top + Extra(Current.at) = Top
           /\ Current.idx \in 1..Current.top /\ Subject \in Values
           /\ Current.top \in Nat /\ Ground \in Nat /\ Ground <= Current.top
           /\ Current.at \in {"next", "value"} =>
                Current.depth > 0 /\ lua[Current.top + 1].tag = "key"
           /\ Current.at = "value" => lua[Current.top + 2].tag = "value"
           /\ Current.at = "meta" => lua[Current.top + 1].tag = "meta"
           /\ \A k \in 1..Len(calls) - 1 :
                calls[k].top + Extra(calls[k].at) <= Current.top
<1>1. calls \in Seq(Activation) /\ lua \in Seq(Slot) /\ calls # <<>>
  BY DEF StackTypes, Converting
<1>2. Len(calls) \in Nat /\ Len(calls) > 0 /\ Len(calls) \in 1..Len(calls) /\ 1 \in 1..Len(calls)
  BY <1>1
<1>3. Current \in Activation /\ calls[1] \in Activation
  BY <1>1, <1>2 DEF Current
<1>4. ActOK(Len(calls)) /\ calls[1].top <= Current.top
  BY <1>2 DEF Nested, Current
<1>5. Top \in Nat /\ Current.top + Extra(Current.at) = Top /\ Current.idx \in 1..Current.top
  BY <1>1, <1>2, <1>4 DEF ActOK, Current, Top
<1>6. Current.top \in Nat /\ Extra(Current.at) \in Nat
  BY <1>3 DEF Activation, Extra
<1>7. Subject \in Values
  <2>1. Current.idx \in 1..Len(lua)
    BY <1>5, <1>6 DEF Top
  <2>2. lua[Current.idx] \in Slot
    BY <1>1, <2>1
  <2>3. QED
    BY <2>2 DEF Subject, Slot
<1>8. ASSUME NEW k \in 1..Len(calls) - 1
      PROVE  calls[k].top + Extra(calls[k].at) <= Current.top
  <2>1. k \in 1..Len(calls) /\ k + 1 \in 1..Len(calls) /\ k < Len(calls)
    BY <1>2, <1>8
  <2>2. calls[k].top + Extra(calls[k].at) = calls[k + 1].top
    BY <2>1 DEF Nested, ActOK
  <2>3. k + 1 <= Len(calls)
    BY <2>1
  <2>4. calls[k + 1].top <= Current.top
    BY <1>2, <2>1, <2>3 DEF Nested, Current
  <2>5. QED
    BY <2>2, <2>4
<1>9. Ground \in Nat /\ Ground <= Current.top
  BY <1>1, <1>3, <1>4 DEF Ground, Activation
<1>10. QED
  BY <1>2, <1>3, <1>4, <1>5, <1>6, <1>7, <1>8, <1>9 DEF ActOK, Current

-----------------------------------------------------------------------------
(* The stack of activations.                                               *)

Moved(at, pos) == [Current EXCEPT !.at = at, !.pos = pos]

LEMMA MovedFacts ==
    ASSUME StackTypes, Converting, NEW at \in {"next", "value", "meta"}, NEW pos \in Nat
    PROVE  /\ Moved(at, pos) \in Activation
           /\ Moved(at, pos).idx = Current.idx /\ Moved(at, pos).top = Current.top
           /\ Moved(at, pos).depth = Current.depth /\ Moved(at, pos).at = at
<1>1. calls \in Seq(Activation) /\ Len(calls) \in Nat /\ Len(calls) > 0
  BY DEF StackTypes, Converting
<1>2. Current \in Activation
  BY <1>1 DEF Current
<1>3. QED
  BY <1>2 DEF Activation, Moved

LEMMA GoToFacts ==
    ASSUME StackTypes, Converting, NEW at \in {"next", "value", "meta"}, NEW pos \in Nat
    PROVE  /\ GoTo(at, pos) \in Seq(Activation) /\ Len(GoTo(at, pos)) = Len(calls)
           /\ \A k \in 1..Len(calls) - 1 : GoTo(at, pos)[k] = calls[k]
           /\ GoTo(at, pos)[Len(calls)] = Moved(at, pos)
<1> DEFINE t == GoTo(at, pos)
<1>1. calls \in Seq(Activation) /\ Len(calls) \in Nat /\ Len(calls) > 0
  BY DEF StackTypes, Converting
<1>2. /\ Front(calls) \in Seq(Activation) /\ Len(Front(calls)) = Len(calls) - 1
      /\ \A k \in 1..Len(calls) - 1 : Front(calls)[k] = calls[k]
  BY <1>1, FrontFacts
<1>3. Moved(at, pos) \in Activation
  BY MovedFacts
<1>4. t = Append(Front(calls), Moved(at, pos))
  BY DEF GoTo, Moved
<1> HIDE DEF t
<1>5. /\ t \in Seq(Activation) /\ Len(t) = Len(Front(calls)) + 1
      /\ \A k \in 1..Len(Front(calls)) : t[k] = Front(calls)[k]
      /\ t[Len(Front(calls)) + 1] = Moved(at, pos)
  BY <1>2, <1>3, <1>4, PushFacts
<1>6. Len(Front(calls)) + 1 = Len(calls)
  BY <1>1, <1>2
<1>7. QED
  BY <1>2, <1>5, <1>6 DEF t

(* The stack of activations t is calls with a for the innermost one and    *)
(* new above it.                                                           *)
Deeper(t, a, new) ==
    /\ t \in Seq(Activation) /\ Len(t) = Len(calls) + 1
    /\ \A k \in 1..Len(calls) - 1 : t[k] = calls[k]
    /\ t[Len(calls)] = a /\ t[Len(calls) + 1] = new

LEMMA NestFacts ==
    ASSUME StackTypes, Converting, NEW at \in {"next", "value", "meta"}, NEW pos \in Nat,
           NEW new \in Activation
    PROVE  Deeper(Append(GoTo(at, pos), new), Moved(at, pos), new)
<1> DEFINE g == GoTo(at, pos)
           t == Append(g, new)
<1>1. calls \in Seq(Activation) /\ Len(calls) \in Nat /\ Len(calls) > 0
  BY DEF StackTypes, Converting
<1>2. /\ g \in Seq(Activation) /\ Len(g) = Len(calls)
      /\ \A k \in 1..Len(calls) - 1 : g[k] = calls[k]
      /\ g[Len(calls)] = Moved(at, pos)
  BY GoToFacts
<1> HIDE DEF g
<1>3. /\ t \in Seq(Activation) /\ Len(t) = Len(g) + 1
      /\ \A k \in 1..Len(g) : t[k] = g[k]
      /\ t[Len(g) + 1] = new
  BY <1>2, PushFacts
<1> HIDE DEF t
<1>4. /\ t \in Seq(Activation) /\ Len(t) = Len(calls) + 1
      /\ \A k \in 1..Len(calls) - 1 : t[k] = calls[k]
      /\ t[Len(calls)] = Moved(at, pos) /\ t[Len(calls) + 1] = new
  BY <1>1, <1>2, <1>3
<1>5. QED
  BY <1>4 DEF g, t, Deeper

-----------------------------------------------------------------------------
(* The three things an activation does to the stack of activations: it     *)
(* ends, it goes on, or it calls to_json again.                            *)

Keeps(n) == \A i \in 1..n : lua'[i] = lua[i]

(* Activations below one that stays where it is.                           *)
LEMMA Below ==
    ASSUME StackTypes, Nested, Converting, Keeps(Current.top),
           NEW k \in 1..Len(calls) - 1,
           calls'[k] = calls[k], k < Len(calls'),
           calls'[k + 1].top = calls[k + 1].top
    PROVE  ActOK(k)'
<1>1. Len(calls) \in Nat /\ k \in 1..Len(calls) /\ k < Len(calls) /\ calls \in Seq(Activation)
  BY CurrentFacts DEF StackTypes
<1>2. calls[k] \in Activation /\ calls[k + 1] \in Activation
  BY <1>1
<1>3. ActOK(k) /\ calls[k].top + Extra(calls[k].at) <= Current.top /\ Current.top \in Nat
  BY <1>1, CurrentFacts DEF Nested
<1>4. calls[k].top \in Nat /\ calls[k].at \in {"value", "meta"}
  BY <1>1, <1>2, <1>3 DEF Activation, ActOK
<1>5. lua'[calls[k].top + 1] = lua[calls[k].top + 1]
  <2>1. calls[k].top + 1 \in 1..Current.top
    <3>1. Extra(calls[k].at) \in {1, 2}
      BY <1>4, ExtraFacts
    <3>2. QED
      BY <1>3, <1>4, <3>1
  <2>2. QED
    BY <2>1 DEF Keeps
<1>6. calls[k].at = "value" => lua'[calls[k].top + 2] = lua[calls[k].top + 2]
  <2>1. ASSUME calls[k].at = "value" PROVE calls[k].top + 2 \in 1..Current.top
    BY <1>3, <1>4, <2>1, ExtraFacts
  <2>2. QED
    BY <2>1 DEF Keeps
<1>7. QED
  BY <1>1, <1>3, <1>4, <1>5, <1>6 DEF ActOK

LEMMA Ends ==
    ASSUME StackTypes, Nested, Converting, Keeps(Current.top),
           lua' \in Seq(Slot), Len(lua') = Current.top, calls' = Front(calls)
    PROVE  calls' \in Seq(Activation) /\ Nested' /\ Ground' = Ground
<1>1. calls \in Seq(Activation) /\ Len(calls) \in Nat /\ Len(calls) > 0
  BY CurrentFacts DEF StackTypes
<1>2. /\ calls' \in Seq(Activation) /\ Len(calls') = Len(calls) - 1
      /\ \A k \in 1..Len(calls) - 1 : calls'[k] = calls[k]
  BY <1>1, FrontFacts
<1>3. ASSUME NEW k \in 1..Len(calls') PROVE ActOK(k)'
  <2>1. k \in 1..Len(calls) - 1 /\ k \in 1..Len(calls) /\ k < Len(calls) /\ calls'[k] = calls[k]
    <3>1. k \in 1..Len(calls) - 1
      BY <1>2, <1>3
    <3>2. QED
      BY <1>1, <1>2, <3>1
  <2>2. CASE k < Len(calls')
    <3>1. calls'[k + 1] = calls[k + 1]
      BY <1>1, <1>2, <2>1, <2>2
    <3>2. QED
      BY <2>1, <2>2, <3>1, Below
  <2>3. CASE k = Len(calls')
    <3>1. k + 1 = Len(calls) /\ calls[k + 1] = Current
      BY <1>1, <1>2, <2>3 DEF Current
    <3>2. ActOK(k) /\ calls[k].top + Extra(calls[k].at) = Current.top
      BY <2>1, <3>1 DEF Nested, ActOK
    <3>3. calls[k] \in Activation /\ calls[k].at \in {"value", "meta"}
      BY <1>1, <2>1, <3>2 DEF ActOK
    <3>4. calls[k].top + 1 \in 1..Current.top
      BY <3>2, <3>3 DEF Activation, Extra
    <3>5. calls[k].at = "value" => calls[k].top + 2 \in 1..Current.top
      BY <3>2, <3>3 DEF Activation, Extra
    <3>6. QED
      BY <2>1, <2>3, <3>2, <3>3, <3>4, <3>5 DEF ActOK, Keeps, Top
  <2>4. k < Len(calls') \/ k = Len(calls')
    BY <1>1, <1>2, <1>3
  <2>5. QED
    BY <2>2, <2>3, <2>4
<1>4. \A j, k \in 1..Len(calls') : j <= k => calls'[j].top <= calls'[k].top
  <2>1. \A k \in 1..Len(calls') : k \in 1..Len(calls) /\ calls'[k] = calls[k]
    BY <1>1, <1>2
  <2>2. QED
    BY <2>1 DEF Nested
<1>5. Ground' = Ground
  <2>1. CASE Len(calls) = 1
    <3>1. calls' = <<>> /\ calls # <<>> /\ Current = calls[1]
      <4>1. calls' = <<>>
        BY <1>1, <1>2, <2>1
      <4>2. calls # <<>>
        BY DEF Converting
      <4>3. QED
        BY <2>1, <4>1, <4>2 DEF Current
    <3>2. QED
      BY <3>1 DEF Ground, Top
  <2>2. CASE Len(calls) > 1
    <3>1. calls' # <<>> /\ calls # <<>> /\ calls'[1] = calls[1]
      BY <1>1, <1>2, <2>2
    <3>2. QED
      BY <3>1 DEF Ground
  <2>3. Len(calls) = 1 \/ Len(calls) > 1
    <3>1. \A n \in Nat : n > 0 => n = 1 \/ n > 1
      OBVIOUS
    <3>2. QED
      BY <1>1, <3>1, Zenon
  <2>4. QED
    BY <2>1, <2>2, <2>3
<1>6. QED
  BY <1>2, <1>3, <1>4, <1>5 DEF Nested

LEMMA GoesOn ==
    ASSUME StackTypes, Nested, Converting, Keeps(Current.top),
           lua' \in Seq(Slot),
           NEW at \in {"next", "value", "meta"}, NEW pos \in Nat,
           calls' = GoTo(at, pos),
           Len(lua') = Current.top + Extra(at),
           at \in {"next", "value"} =>
               Current.depth > 0 /\ lua'[Current.top + 1].tag = "key",
           at = "value" => lua'[Current.top + 2].tag = "value",
           at = "meta" => lua'[Current.top + 1].tag = "meta"
    PROVE  calls' \in Seq(Activation) /\ Nested' /\ Ground' = Ground
<1> DEFINE a == Moved(at, pos)
<1>1. calls \in Seq(Activation) /\ Len(calls) \in Nat /\ Len(calls) > 0 /\ Current \in Activation
  BY CurrentFacts DEF StackTypes
<1>3. /\ a \in Activation /\ a.idx = Current.idx /\ a.top = Current.top
      /\ a.depth = Current.depth /\ a.at = at
  BY MovedFacts
<1>5. /\ calls' \in Seq(Activation) /\ Len(calls') = Len(calls)
      /\ \A k \in 1..Len(calls) - 1 : calls'[k] = calls[k]
      /\ calls'[Len(calls)] = a
  <2>1. /\ GoTo(at, pos) \in Seq(Activation) /\ Len(GoTo(at, pos)) = Len(calls)
        /\ \A k \in 1..Len(calls) - 1 : GoTo(at, pos)[k] = calls[k]
        /\ GoTo(at, pos)[Len(calls)] = Moved(at, pos)
    BY GoToFacts
  <2>2. QED
    BY <2>1
<1> HIDE DEF a
<1>6. \A k \in 1..Len(calls) : calls'[k].top = calls[k].top
  <2>1. ASSUME NEW k \in 1..Len(calls) PROVE calls'[k].top = calls[k].top
    <3>1. k = Len(calls) \/ k \in 1..Len(calls) - 1
      BY <1>1
    <3>2. QED
      BY <1>3, <1>5, <3>1 DEF Current
  <2>2. QED
    BY <2>1
<1>7. ASSUME NEW k \in 1..Len(calls') PROVE ActOK(k)'
  <2>1. k = Len(calls) \/ (k \in 1..Len(calls) - 1 /\ k < Len(calls) /\ k + 1 \in 1..Len(calls))
    BY <1>1, <1>5, <1>7
  <2>2. CASE k = Len(calls)
    <3>1. calls'[k] = a /\ ~(k < Len(calls'))
      BY <1>1, <1>5, <2>2
    <3>2. Current.idx \in 1..Current.top
      BY CurrentFacts
    <3>3. QED
      BY <1>3, <3>1, <3>2 DEF ActOK, Top
  <2>3. CASE k \in 1..Len(calls) - 1 /\ k < Len(calls) /\ k + 1 \in 1..Len(calls)
    <3>1. calls'[k] = calls[k] /\ k < Len(calls') /\ calls'[k + 1].top = calls[k + 1].top
      BY <1>5, <1>6, <2>3
    <3>2. QED
      BY <2>3, <3>1, Below
  <2>4. QED
    BY <2>1, <2>2, <2>3
<1>8. \A j, k \in 1..Len(calls') : j <= k => calls'[j].top <= calls'[k].top
  BY <1>5, <1>6 DEF Nested
<1>9. Ground' = Ground
  <2>1. calls' # <<>> /\ calls # <<>> /\ 1 \in 1..Len(calls)
    BY <1>1, <1>5
  <2>2. QED
    BY <1>6, <2>1 DEF Ground
<1>10. QED
  BY <1>5, <1>7, <1>8, <1>9 DEF Nested

LEMMA Nests ==
    ASSUME StackTypes, Nested, Converting, Keeps(Current.top),
           lua' \in Seq(Slot),
           NEW at \in {"value", "meta"}, NEW pos \in Nat, NEW depth \in Nat,
           calls' = Nest(at, pos, lua', depth),
           Len(lua') = Current.top + Extra(at),
           at = "value" =>
               /\ Current.depth > 0 /\ lua'[Current.top + 1].tag = "key"
               /\ lua'[Current.top + 2].tag = "value",
           at = "meta" => lua'[Current.top + 1].tag = "meta"
    PROVE  calls' \in Seq(Activation) /\ Nested' /\ Ground' = Ground
<1> DEFINE a == Moved(at, pos)
           new == ToJson(Len(lua'), depth, Len(lua'))
<1>1. calls \in Seq(Activation) /\ Len(calls) \in Nat /\ Len(calls) > 0 /\ Current \in Activation
  BY CurrentFacts DEF StackTypes
<1>2. Current.top \in Nat /\ Extra(at) \in {1, 2} /\ Len(lua') \in Nat /\ Len(lua') > Current.top
  <2>1. Current.top \in Nat /\ Extra(at) \in {1, 2}
    BY CurrentFacts, ExtraFacts
  <2>2. QED
    BY <2>1
<1>4. /\ a.idx = Current.idx /\ a.top = Current.top
      /\ a.depth = Current.depth /\ a.at = at
  BY MovedFacts
<1>5. /\ new.idx = Len(lua') /\ new.top = Len(lua')
      /\ new.at = "start"
  BY DEF ToJson
<1>7. /\ calls' \in Seq(Activation) /\ Len(calls') = Len(calls) + 1
      /\ \A k \in 1..Len(calls) - 1 : calls'[k] = calls[k]
      /\ calls'[Len(calls)] = a /\ calls'[Len(calls) + 1] = new
  <2>1. new \in Activation /\ calls' = Append(GoTo(at, pos), new)
    BY <1>2 DEF Nest, ToJson, Activation
  <2> HIDE DEF new
  <2>2. Deeper(Append(GoTo(at, pos), new), Moved(at, pos), new)
    BY <2>1, NestFacts, Zenon
  <2>3. Deeper(calls', a, new)
    BY <2>1, <2>2
  <2>4. QED
    BY <2>3 DEF Deeper
<1> HIDE DEF a, new
<1>8. \A k \in 1..Len(calls) : calls'[k].top = calls[k].top
  <2>1. ASSUME NEW k \in 1..Len(calls) PROVE calls'[k].top = calls[k].top
    <3>1. k = Len(calls) \/ k \in 1..Len(calls) - 1
      BY <1>1
    <3>2. QED
      BY <1>4, <1>7, <3>1 DEF Current
  <2>2. QED
    BY <2>1
<1>9. ASSUME NEW k \in 1..Len(calls') PROVE ActOK(k)'
  <2>1. \/ k = Len(calls) + 1
        \/ k = Len(calls)
        \/ k \in 1..Len(calls) - 1 /\ k < Len(calls) /\ k + 1 \in 1..Len(calls)
    BY <1>1, <1>7, <1>9
  <2>2. CASE k = Len(calls) + 1
    <3>1. calls'[k] = new /\ ~(k < Len(calls'))
      BY <1>1, <1>7, <2>2
    <3>2. QED
      BY <1>2, <1>5, <3>1, ExtraFacts DEF ActOK, Top
  <2>3. CASE k = Len(calls)
    <3>1. calls'[k] = a /\ k < Len(calls') /\ calls'[k + 1] = new
      BY <1>1, <1>7, <2>3
    <3>2. Current.idx \in 1..Current.top
      BY CurrentFacts
    <3>3. QED
      BY <1>4, <1>5, <3>1, <3>2 DEF ActOK
  <2>4. CASE k \in 1..Len(calls) - 1 /\ k < Len(calls) /\ k + 1 \in 1..Len(calls)
    <3>1. calls'[k] = calls[k] /\ k < Len(calls') /\ calls'[k + 1].top = calls[k + 1].top
      BY <1>1, <1>7, <1>8, <2>4
    <3>2. QED
      BY <2>4, <3>1, Below
  <2>5. QED
    BY <2>1, <2>2, <2>3, <2>4
<1>10. \A j, k \in 1..Len(calls') : j <= k => calls'[j].top <= calls'[k].top
  <2>1. ASSUME NEW j \in 1..Len(calls'), NEW k \in 1..Len(calls'), j <= k
        PROVE  calls'[j].top <= calls'[k].top
    <3>1. \/ j \in 1..Len(calls) /\ k \in 1..Len(calls)
          \/ j \in 1..Len(calls) /\ k = Len(calls) + 1
          \/ j = Len(calls) + 1 /\ k = j
      BY <1>1, <1>7, <2>1
    <3>2. CASE j \in 1..Len(calls) /\ k \in 1..Len(calls)
      BY <1>8, <2>1, <3>2 DEF Nested
    <3>3. CASE j \in 1..Len(calls) /\ k = Len(calls) + 1
      <4>1. Len(calls) \in 1..Len(calls) /\ j <= Len(calls)
        BY <1>1, <3>3
      <4>2. calls[j].top <= Current.top /\ calls[j] \in Activation
        BY <1>1, <3>3, <4>1 DEF Nested, Current
      <4>3. calls[j].top \in Nat
        BY <4>2 DEF Activation
      <4>4. calls'[j].top = calls[j].top /\ calls'[k].top = Len(lua')
        BY <1>5, <1>7, <1>8, <3>3
      <4>5. QED
        BY <1>2, <4>2, <4>3, <4>4
    <3>4. CASE j = Len(calls) + 1 /\ k = j
      BY <1>2, <1>5, <1>7, <3>4
    <3>5. QED
      BY <3>1, <3>2, <3>3, <3>4
  <2>2. QED
    BY <2>1
<1>11. Ground' = Ground
  <2>1. calls' # <<>> /\ calls # <<>> /\ 1 \in 1..Len(calls)
    BY <1>1, <1>7
  <2>2. QED
    BY <1>8, <2>1 DEF Ground
<1>12. QED
  BY <1>7, <1>9, <1>10, <1>11 DEF Nested

-----------------------------------------------------------------------------
(* The steps of to_json.                                                   *)

LEMMA ConvertBase ==
    ASSUME StackInv, Converting, Keeps(Current.top), Ground' = Ground,
           UNCHANGED <<pc, req, failed>>, high' \in Nat,
           lua' \in Seq(Slot), calls' \in Seq(Activation), Nested'
    PROVE  StackInv'
<1>1. StackTypes /\ Nested /\ Base
  BY DEF StackInv
<1>2. StackTypes'
  BY <1>1 DEF StackTypes
<1>3. /\ Ground \in Nat /\ Current.top \in Nat /\ Ground <= Current.top
      /\ failed \in Nat /\ req.base \in Nat
  BY <1>1, CurrentFacts, EvalAssumption DEF StackTypes, Request
<1>4. \A i \in 1..Ground : lua'[i] = lua[i]
  BY <1>3 DEF Keeps
<1>5. pc \in {"results", "variable"}
  BY <1>1 DEF Base, Converting
<1>6. failed <= Ground /\ \A i \in 1..failed : lua'[i].tag = "error"
  <2>1. failed <= Ground /\ \A i \in 1..failed : lua[i].tag = "error"
    BY <1>1, <1>5 DEF Base
  <2>2. \A i \in 1..failed : i \in 1..Ground
    BY <1>3, <2>1
  <2>3. QED
    BY <1>4, <2>1, <2>2
<1>7. req.base = failed /\ (pc = "results" => req.next > req.base)
  BY <1>1, <1>5 DEF Base
<1>8. pc = "variable" =>
        /\ lua'[Ground].tag = "variable"
        /\ \/ Ground = req.base + 1
           \/ Ground = req.base + 2 /\ lua'[Ground - 1].tag = "function"
  <2>1. SUFFICES ASSUME pc = "variable"
                 PROVE  /\ lua'[Ground].tag = "variable"
                        /\ \/ Ground = req.base + 1
                           \/ Ground = req.base + 2 /\ lua'[Ground - 1].tag = "function"
    OBVIOUS
  <2>2. /\ lua[Ground].tag = "variable"
        /\ \/ Ground = req.base + 1
           \/ Ground = req.base + 2 /\ lua[Ground - 1].tag = "function"
    BY <1>1, <2>1 DEF Base
  <2>3. Ground \in 1..Ground
    BY <1>3, <2>2
  <2>4. Ground = req.base + 2 => Ground - 1 \in 1..Ground
    BY <1>3
  <2>5. QED
    BY <1>4, <2>2, <2>3, <2>4
<1>9. Base'
  BY <1>5, <1>6, <1>7, <1>8 DEF Base
<1>10. QED
  BY <1>2, <1>9 DEF StackInv

(* What the steps of to_json do to the stack under the innermost activation *)
(* and under all of them: nothing.                                          *)
Undisturbed == Keeps(Current.top) /\ Ground' = Ground

LEMMA HigherNat == ASSUME StackTypes, NEW n \in Nat PROVE Higher(n) \in Nat
BY DEF StackTypes, Higher

LEMMA OpaqueInv == ASSUME StackInv, Plain \/ Opaque \/ Other PROVE StackInv' /\ Undisturbed
<1>1. StackTypes /\ Nested /\ Converting /\ Current.at = "start"
  BY DEF StackInv, Plain, Opaque, Other, Starting
<1>2. UNCHANGED <<lua, pc, req, failed>> /\ calls' = Front(calls)
  BY DEF Plain, Opaque, Other, Name
<1>3. Len(lua) = Current.top /\ Top \in Nat /\ lua \in Seq(Slot)
  BY <1>1, CurrentFacts, ExtraFacts DEF StackTypes, Top
<1>4. high' \in Nat
  <2>1. CASE Plain
    BY <1>1, <2>1 DEF Plain, StackTypes
  <2>2. CASE Opaque \/ Other
    <3>1. Top + 1 \in Nat /\ high' = Higher(Top + 1)
      BY <1>3, <2>2 DEF Opaque, Other, Name
    <3>2. QED
      BY <1>1, <3>1, HigherNat
  <2>3. QED
    BY <2>1, <2>2
<1>5. Keeps(Current.top)
  BY <1>2 DEF Keeps
<1>6. calls' \in Seq(Activation) /\ Nested' /\ Ground' = Ground
  BY <1>1, <1>2, <1>3, <1>5, Ends
<1>7. QED
  BY <1>1, <1>2, <1>3, <1>4, <1>5, <1>6, ConvertBase DEF Undisturbed

LEMMA OpenInv == ASSUME StackInv, Open PROVE StackInv' /\ Undisturbed
<1>1. StackTypes /\ Nested /\ Converting /\ Current.at = "start" /\ Current.depth > 0
  BY DEF StackInv, Open, Starting
<1>2. /\ UNCHANGED <<pc, req, failed>> /\ calls' = GoTo("next", 0)
      /\ lua' = Append(lua, Mark("key")) /\ high' = Higher(Top + 1)
  BY DEF Open
<1>3. Len(lua) = Current.top /\ Top \in Nat /\ lua \in Seq(Slot)
  BY <1>1, CurrentFacts, ExtraFacts DEF StackTypes, Top
<1>4. Mark("key") \in Slot /\ Mark("key").tag = "key"
  BY Slots DEF Mark, Tags
<1>5. /\ lua' \in Seq(Slot) /\ Len(lua') = Current.top + 1
      /\ Keeps(Current.top) /\ lua'[Current.top + 1].tag = "key"
  BY <1>2, <1>3, <1>4, PushFacts DEF Keeps
<1>6. calls' \in Seq(Activation) /\ Nested' /\ Ground' = Ground
  BY <1>1, <1>2, <1>5, GoesOn, ExtraFacts
<1>7. high' \in Nat
  BY <1>1, <1>2, <1>3, HigherNat
<1>8. QED
  BY <1>1, <1>2, <1>5, <1>6, <1>7, ConvertBase DEF Undisturbed

LEMMA NextInv == ASSUME StackInv, Next_ PROVE StackInv' /\ Undisturbed
<1>1. StackTypes /\ Nested /\ Converting /\ Current.at = "next"
  BY DEF StackInv, Next_
<1> DEFINE n == Current.pos + 1
           value == Hold("value", Fields[Subject][n][2])
           pair == Append(lua, value)
<1>2. UNCHANGED <<pc, req, failed>>
  BY DEF Next_
<1>3. /\ Len(lua) = Current.top + 1 /\ Top = Len(lua) /\ Top \in Nat /\ lua \in Seq(Slot)
      /\ Current.top \in Nat
      /\ Current.depth > 0 /\ lua[Current.top + 1].tag = "key"
      /\ Subject \in Values /\ Current \in Activation
  BY <1>1, CurrentFacts, ExtraFacts DEF StackTypes, Top
<1>4. n \in Nat /\ Current.depth - 1 \in Nat
  BY <1>3 DEF Activation
<1>5. CASE n > Len(Fields[Subject])
  <2>1. lua' = Front(lua) /\ calls' = Front(calls) /\ high' = high
    BY <1>5 DEF Next_
  <2>2. lua' \in Seq(Slot) /\ Len(lua') = Current.top /\ Keeps(Current.top)
    <3>1. Len(lua) > 0 /\ Len(lua) - 1 = Current.top /\ lua \in Seq(Slot)
      BY <1>3
    <3>2. /\ Front(lua) \in Seq(Slot) /\ Len(Front(lua)) = Len(lua) - 1
          /\ \A i \in 1..Len(lua) - 1 : Front(lua)[i] = lua[i]
      BY <3>1, FrontFacts
    <3>3. QED
      BY <2>1, <3>1, <3>2 DEF Keeps
  <2>3. calls' \in Seq(Activation) /\ Nested' /\ Ground' = Ground
    BY <1>1, <2>1, <2>2, Ends
  <2>4. QED
    BY <1>1, <1>2, <2>1, <2>2, <2>3, ConvertBase DEF StackTypes, Undisturbed
<1>6. CASE ~(n > Len(Fields[Subject])) /\ Fits(Fields[Subject][n][1])
  <2>1. lua' = pair /\ calls' = Nest("value", n, pair, Inner(Current)) /\ high' = Higher(Top + 1)
    BY <1>6 DEF Next_
  <2>2. value \in Slot /\ value.tag = "value"
    <3>1. Fields[Subject] \in Seq(KeyTypes \X Values)
      BY <1>3, EvalAssumption
    <3>2. n \in 1..Len(Fields[Subject])
      BY <1>3, <1>4, <1>6, <3>1 DEF Activation
    <3>3. Fields[Subject][n][2] \in Values
      BY <3>1, <3>2
    <3>4. QED
      BY <3>3, Slots DEF Hold, Tags
  <2> HIDE DEF value
  <2>3. /\ lua' \in Seq(Slot) /\ Len(lua') = Current.top + 2
        /\ \A i \in 1..Current.top + 1 : lua'[i] = lua[i]
        /\ lua'[Current.top + 2] = value
    <3>1. /\ lua' \in Seq(Slot) /\ Len(lua') = Len(lua) + 1
          /\ \A i \in 1..Len(lua) : lua'[i] = lua[i]
          /\ lua'[Len(lua) + 1] = value
      BY <1>3, <2>1, <2>2, PushFacts
    <3>2. QED
      BY <1>3, <3>1
  <2>4. /\ Keeps(Current.top) /\ lua'[Current.top + 1].tag = "key"
        /\ lua'[Current.top + 2].tag = "value"
    BY <1>3, <2>2, <2>3 DEF Keeps
  <2>5. Inner(Current) \in Nat /\ calls' = Nest("value", n, lua', Inner(Current))
    BY <1>4, <2>1 DEF Inner
  <2>6. calls' \in Seq(Activation) /\ Nested' /\ Ground' = Ground
    <3>1. Len(lua') = Current.top + Extra("value") /\ "value" \in {"value", "meta"}
      BY <2>3, ExtraFacts
    <3>2. n \in Nat /\ Current.depth > 0
      BY <1>3, <1>4
    <3> HIDE DEF n, pair
    <3>3. QED
      BY <1>1, <2>3, <2>4, <2>5, <3>1, <3>2, Nests
  <2>7. high' \in Nat
    <3>1. Top + 1 \in Nat
      BY <1>3
    <3>2. QED
      BY <1>1, <2>1, <3>1, HigherNat
  <2>8. QED
    BY <1>1, <1>2, <2>3, <2>4, <2>6, <2>7, ConvertBase DEF Undisturbed
<1>7. CASE ~(n > Len(Fields[Subject])) /\ ~Fits(Fields[Subject][n][1])
  <2>1. lua' = lua /\ calls' = GoTo("next", n) /\ high' = Higher(Top + 1)
    BY <1>7 DEF Next_
  <2>2. Keeps(Current.top)
    BY <2>1 DEF Keeps
  <2>3. calls' \in Seq(Activation) /\ Nested' /\ Ground' = Ground
    <3>1. /\ lua' \in Seq(Slot) /\ Len(lua') = Current.top + Extra("next")
          /\ "next" \in {"next", "value", "meta"} /\ n \in Nat
          /\ Current.depth > 0 /\ lua'[Current.top + 1].tag = "key"
      BY <1>3, <1>4, <2>1, ExtraFacts
    <3> HIDE DEF n
    <3>2. QED
      BY <1>1, <2>1, <2>2, <3>1, GoesOn
  <2>4. high' \in Nat
    <3>1. Top + 1 \in Nat
      BY <1>3
    <3>2. QED
      BY <1>1, <2>1, <3>1, HigherNat
  <2>5. QED
    BY <1>1, <1>2, <1>3, <2>1, <2>2, <2>3, <2>4, ConvertBase DEF Undisturbed
<1>8. QED
  BY <1>5, <1>6, <1>7

LEMMA PopValueInv == ASSUME StackInv, PopValue PROVE StackInv' /\ Undisturbed
<1>1. StackTypes /\ Nested /\ Converting /\ Current.at = "value"
  BY DEF StackInv, PopValue
<1>2. /\ UNCHANGED <<pc, req, high, failed>>
      /\ lua' = Front(lua) /\ calls' = GoTo("next", Current.pos)
  BY DEF PopValue
<1>3. /\ Len(lua) = Current.top + 2 /\ lua \in Seq(Slot) /\ Current.top \in Nat
      /\ Current.depth > 0 /\ lua[Current.top + 1].tag = "key"
      /\ Current.pos \in Nat
  BY <1>1, CurrentFacts, ExtraFacts DEF StackTypes, Top, Activation
<1>4. /\ lua' \in Seq(Slot) /\ Len(lua') = Current.top + 1
      /\ \A i \in 1..Current.top + 1 : lua'[i] = lua[i]
  <2>1. /\ lua' \in Seq(Slot) /\ Len(lua') = Len(lua) - 1
        /\ \A i \in 1..Len(lua) - 1 : lua'[i] = lua[i]
    BY <1>2, <1>3, FrontFacts
  <2>2. QED
    BY <1>3, <2>1
<1>5. Keeps(Current.top) /\ lua'[Current.top + 1].tag = "key"
  BY <1>3, <1>4 DEF Keeps
<1>6. calls' \in Seq(Activation) /\ Nested' /\ Ground' = Ground
  BY <1>1, <1>2, <1>3, <1>4, <1>5, GoesOn, ExtraFacts
<1>7. QED
  BY <1>1, <1>2, <1>4, <1>5, <1>6, ConvertBase DEF StackTypes, Undisturbed

LEMMA CallMetaInv == ASSUME StackInv, CallMeta PROVE StackInv' /\ Undisturbed
<1>1. StackTypes /\ Nested /\ Converting /\ Current.at = "start" /\ MetaMethod \in Values
  BY DEF StackInv, CallMeta, Starting
<1> DEFINE method == Hold("meta", MetaMethod)
<1>2. /\ UNCHANGED <<pc, req, failed>> /\ high' = Higher(Top + 2)
      /\ lua' = Append(lua, method) /\ calls' = Nest("meta", 0, lua', Current.depth)
  BY DEF CallMeta
<1>3. method \in Slot /\ method.tag = "meta"
  BY <1>1, Slots DEF Hold, Tags
<1> HIDE DEF method
<1>4. /\ Len(lua) = Current.top /\ Top \in Nat /\ lua \in Seq(Slot)
      /\ Current.depth \in Nat
  BY <1>1, CurrentFacts, ExtraFacts DEF StackTypes, Top, Activation
<1>5. /\ lua' \in Seq(Slot) /\ Len(lua') = Current.top + 1
      /\ Keeps(Current.top) /\ lua'[Current.top + 1].tag = "meta"
  BY <1>2, <1>3, <1>4, PushFacts DEF Keeps
<1>6. calls' \in Seq(Activation) /\ Nested' /\ Ground' = Ground
  <2>1. /\ Len(lua') = Current.top + Extra("meta") /\ "meta" \in {"value", "meta"}
        /\ 0 \in Nat
    BY <1>5, ExtraFacts
  <2>2. QED
    BY <1>1, <1>2, <1>4, <1>5, <2>1, Nests
<1>7. high' \in Nat
  <2>1. Top + 2 \in Nat
    BY <1>4
  <2>2. QED
    BY <1>1, <1>2, <2>1, HigherNat
<1>8. QED
  BY <1>1, <1>2, <1>5, <1>6, <1>7, ConvertBase DEF Undisturbed

LEMMA PopMetaInv == ASSUME StackInv, PopMeta PROVE StackInv' /\ Undisturbed
<1>1. StackTypes /\ Nested /\ Converting /\ Current.at = "meta"
  BY DEF StackInv, PopMeta
<1>2. /\ UNCHANGED <<pc, req, high, failed>>
      /\ lua' = Front(lua) /\ calls' = Front(calls)
  BY DEF PopMeta
<1>3. Len(lua) = Current.top + 1 /\ lua \in Seq(Slot) /\ Current.top \in Nat
  BY <1>1, CurrentFacts, ExtraFacts DEF StackTypes, Top
<1>4. lua' \in Seq(Slot) /\ Len(lua') = Current.top /\ Keeps(Current.top)
  BY <1>2, <1>3, FrontFacts DEF Keeps
<1>5. calls' \in Seq(Activation) /\ Nested' /\ Ground' = Ground
  BY <1>1, <1>2, <1>4, Ends
<1>6. QED
  BY <1>1, <1>2, <1>4, <1>5, ConvertBase DEF StackTypes, Undisturbed

LEMMA Empty ==
    ASSUME calls' = <<>>
    PROVE  calls' \in Seq(Activation) /\ Nested' /\ Ground' = Top'
<1>1. Len(calls') = 0
  OBVIOUS
<1>2. QED
  BY <1>1 DEF Nested, Ground

LEMMA RaiseInv == ASSUME StackInv, Raise PROVE StackInv'
<1>1. lua' = <<>> /\ calls' = <<>> /\ pc' = "left" /\ UNCHANGED <<req, high, failed>>
  BY DEF Raise
<1>2. StackTypes' /\ Nested' /\ Base'
  BY <1>1, Empty DEF StackInv, StackTypes, Base
<1>3. QED
  BY <1>2 DEF StackInv

LEMMA ConvertInv == ASSUME StackInv, Convert PROVE StackInv'
BY OpaqueInv, OpenInv, NextInv, PopValueInv, CallMetaInv, PopMetaInv, RaiseInv DEF Convert

-----------------------------------------------------------------------------
(* The steps of the handlers of requests.                                  *)

(* Where no conversion goes on, the whole stack belongs to the handler.    *)
LEMMA AloneFacts ==
    ASSUME StackInv, calls = <<>>
    PROVE  /\ StackTypes /\ Base /\ Ground = Top /\ Top \in Nat /\ lua \in Seq(Slot)
           /\ failed \in Nat /\ Len(lua) = Top
           /\ pc \notin {"left", "crashed"} =>
                failed <= Top /\ \A i \in 1..failed : lua[i].tag = "error"
<1>1. StackTypes /\ Base /\ Ground = Top
  BY DEF StackInv, Ground
<1>2. QED
  BY <1>1, EvalAssumption DEF StackTypes, Base, Top

LEMMA IdleFacts ==
    ASSUME StackInv, pc \notin {"results", "variable"}
    PROVE  calls = <<>>
BY DEF StackInv, Base

LEMMA InitInv == ASSUME Init PROVE StackInv
<1>1. lua = <<>> /\ calls = <<>> /\ pc = "idle" /\ req = NoRequest /\ high = 0 /\ failed = 0
  BY DEF Init
<1>2. StackTypes
  BY <1>1, EvalAssumption DEF StackTypes, Request, NoRequest
<1>3. Len(calls) = 0 /\ Len(lua) = 0
  BY <1>1
<1>4. Nested /\ Base
  BY <1>1, <1>3 DEF Nested, Base, Ground, Top
<1>5. QED
  BY <1>2, <1>4 DEF StackInv

LEMMA NextPauseInv == ASSUME StackInv, NextPause PROVE StackInv'
<1>1. /\ lua' = <<>> /\ calls' = <<>> /\ pc' = "idle" /\ req' = NoRequest
      /\ high' = 0 /\ failed' = 0
  BY DEF NextPause
<1>2. StackTypes'
  BY <1>1, EvalAssumption DEF StackTypes, Request, NoRequest
<1>3. Nested' /\ Ground' = 0
  <2>1. Len(lua') = 0
    BY <1>1
  <2>2. QED
    BY <1>1, <2>1, Empty DEF Top
<1>4. Base'
  BY <1>1, <1>3 DEF Base
<1>5. QED
  BY <1>2, <1>3, <1>4 DEF StackInv

LEMMA EvalInv ==
    ASSUME StackInv, NEW stack_no, NEW depth \in Nat, Eval(stack_no, depth)
    PROVE  StackInv'
<1>1. pc = "idle" /\ calls = <<>> /\ UNCHANGED calls /\ high' = Top + 1
  BY IdleFacts DEF Eval
<1>2. /\ StackTypes /\ Top \in Nat /\ lua \in Seq(Slot) /\ Len(lua) = Top /\ Top = failed
      /\ failed \in Nat /\ \A i \in 1..failed : lua[i].tag = "error"
  BY <1>1, AloneFacts DEF Base
<1>3. calls' \in Seq(Activation) /\ Nested' /\ Ground' = Top' /\ calls' = <<>>
  BY <1>1, Empty
<1>4. /\ Mark("chunk") \in Slot /\ Mark("chunk").tag = "chunk"
      /\ Mark("error") \in Slot /\ Mark("error").tag = "error"
  BY Slots DEF Mark, Tags
<1>5. ASSUME NEW tag \in {"chunk", "error"}, lua' = Append(lua, Mark(tag))
      PROVE  /\ lua' \in Seq(Slot) /\ Top' = Top + 1 /\ lua'[Top + 1].tag = tag
             /\ \A i \in 1..failed : lua'[i].tag = "error"
  BY <1>2, <1>4, <1>5, PushFacts DEF Top
<1>6. req' \in Request /\ req'.base = Top
  <2>1. req' = [base |-> Top, depth |-> depth + 1, next |-> 0, rest |-> <<>>]
    BY DEF Eval, NoRequest
  <2>2. depth + 1 \in Nat /\ <<>> \in Seq(Variable)
    OBVIOUS
  <2>3. QED
    BY <1>2, <2>1, <2>2 DEF Request
<1>7. CASE lua' = Append(lua, Mark("chunk")) /\ pc' = "env" /\ UNCHANGED failed
  <2>1. /\ lua' \in Seq(Slot) /\ Top' = Top + 1 /\ lua'[Top + 1].tag = "chunk"
        /\ \A i \in 1..failed : lua'[i].tag = "error"
    BY <1>5, <1>7
  <2>2. StackTypes'
    BY <1>1, <1>2, <1>3, <1>6, <1>7, <2>1 DEF StackTypes
  <2>3. Base'
    BY <1>2, <1>3, <1>6, <1>7, <2>1 DEF Base
  <2>4. QED
    BY <1>3, <2>2, <2>3 DEF StackInv
<1>8. CASE /\ failed < MaxFailed /\ lua' = Append(lua, Mark("error"))
           /\ failed' = failed + 1 /\ UNCHANGED pc
  <2>1. /\ lua' \in Seq(Slot) /\ Top' = Top + 1 /\ lua'[Top + 1].tag = "error"
        /\ \A i \in 1..failed : lua'[i].tag = "error"
    BY <1>5, <1>8
  <2>2. \A i \in 1..failed' : lua'[i].tag = "error"
    <3>1. \A i \in 1..failed' : i \in 1..failed \/ i = Top + 1
      BY <1>2, <1>8
    <3>2. QED
      BY <2>1, <3>1
  <2>3. failed' \in 0..MaxFailed
    <3>1. MaxFailed \in Nat
      BY EvalAssumption
    <3>2. QED
      BY <1>2, <1>8, <3>1
  <2>4. StackTypes'
    BY <1>1, <1>2, <1>3, <1>6, <1>8, <2>1, <2>3 DEF StackTypes
  <2>5. Base'
    BY <1>1, <1>2, <1>3, <1>8, <2>1, <2>2 DEF Base
  <2>6. QED
    BY <1>3, <2>4, <2>5 DEF StackInv
<1>9. QED
  BY <1>7, <1>8 DEF Eval

LEMMA CreateEvalEnvInv == ASSUME StackInv, CreateEvalEnv PROVE StackInv'
<1>1. /\ pc = "env" /\ calls = <<>> /\ lua' = Append(lua, Mark("env")) /\ pc' = "call"
      /\ high' = Higher(Top + 5) /\ UNCHANGED <<calls, req, failed>>
  BY IdleFacts DEF CreateEvalEnv
<1>2. /\ StackTypes /\ Top \in Nat /\ lua \in Seq(Slot) /\ Len(lua) = Top
      /\ Top = failed + 1 /\ lua[Top].tag = "chunk" /\ req.base = failed
      /\ failed \in Nat /\ \A i \in 1..failed : lua[i].tag = "error"
  BY <1>1, AloneFacts DEF Base
<1>3. calls' \in Seq(Activation) /\ Nested' /\ Ground' = Top' /\ calls' = <<>>
  BY <1>1, Empty
<1>4. Mark("env") \in Slot /\ Mark("env").tag = "env"
  BY Slots DEF Mark, Tags
<1>5. /\ lua' \in Seq(Slot) /\ Top' = Top + 1 /\ lua'[Top + 1].tag = "env"
      /\ \A i \in 1..Top : lua'[i] = lua[i]
  BY <1>1, <1>2, <1>4, PushFacts DEF Top
<1>6. lua'[Top].tag = "chunk" /\ \A i \in 1..failed : lua'[i].tag = "error"
  <2>1. Top \in 1..Top /\ \A i \in 1..failed : i \in 1..Top
    BY <1>2
  <2>2. QED
    BY <1>2, <1>5, <2>1
<1>7. high' \in Nat
  <2>1. Top + 5 \in Nat
    BY <1>2
  <2>2. QED
    BY <1>1, <1>2, <2>1, HigherNat
<1>8. StackTypes'
  BY <1>1, <1>2, <1>3, <1>5, <1>7 DEF StackTypes
<1>9. Base'
  BY <1>1, <1>2, <1>3, <1>5, <1>6 DEF Base
<1>10. QED
  BY <1>3, <1>8, <1>9 DEF StackInv

LEMMA CallInv == ASSUME StackInv, Call PROVE StackInv'
<1>1. pc = "call" /\ calls = <<>> /\ UNCHANGED calls
  BY IdleFacts DEF Call
<1>2. /\ StackTypes /\ lua \in Seq(Slot) /\ Len(lua) = Top /\ Top = failed + 2
      /\ req.base = failed /\ failed \in Nat /\ high \in Nat /\ req \in Request
      /\ \A i \in 1..failed : lua[i].tag = "error"
  BY <1>1, AloneFacts DEF Base, StackTypes
<1>3. calls' \in Seq(Activation) /\ Nested' /\ Ground' = Top' /\ calls' = <<>>
  BY <1>1, Empty
<1> DEFINE under == SubSeq(lua, 1, Top - 2)
<1>4. /\ under \in Seq(Slot) /\ Len(under) = failed
      /\ \A i \in 1..failed : under[i].tag = "error"
  <2>1. Top - 2 = failed /\ failed \in 0..Len(lua)
    BY <1>2
  <2>2. /\ SubSeq(lua, 1, failed) \in Seq(Slot) /\ Len(SubSeq(lua, 1, failed)) = failed
        /\ \A i \in 1..failed : SubSeq(lua, 1, failed)[i] = lua[i]
    BY <1>2, <2>1, Prefix
  <2>3. QED
    BY <1>2, <2>1, <2>2
<1>5. CASE \E vs \in Results :
             /\ lua' = under \o [i \in 1..Len(vs) |-> Hold("result", vs[i])]
             /\ pc' = "results" /\ req' = [req EXCEPT !.next = req.base + 1]
             /\ high' = Higher(Top - 2 + Len(vs))
             /\ UNCHANGED failed
  <2>1. PICK vs \in Results :
             /\ lua' = under \o [i \in 1..Len(vs) |-> Hold("result", vs[i])]
             /\ pc' = "results" /\ req' = [req EXCEPT !.next = req.base + 1]
             /\ high' = Higher(Top - 2 + Len(vs))
             /\ UNCHANGED failed
    BY <1>5
  <2> HIDE DEF under
  <2>2. vs \in Seq(Values) /\ Len(vs) \in Nat
    <3>1. PICK n \in 0..MaxResults : vs \in [1..n -> Values]
      BY DEF Results
    <3>2. n \in Nat
      BY <3>1, EvalAssumption
    <3>3. vs \in Seq(Values)
      BY <3>1, <3>2
    <3>4. QED
      BY <3>3
  <2> DEFINE held == [i \in 1..Len(vs) |-> Hold("result", vs[i])]
  <2>3. held \in Seq(Slot) /\ Len(held) = Len(vs)
    <3>1. \A i \in 1..Len(vs) : Hold("result", vs[i]) \in Slot
      BY <2>2, Slots DEF Tags
    <3>2. QED
      BY <2>2, <3>1
  <2> HIDE DEF held
  <2>4. lua' = under \o held
    BY <2>1 DEF held
  <2>5. /\ lua' \in Seq(Slot) /\ Len(lua') = failed + Len(vs)
        /\ \A i \in 1..failed : lua'[i].tag = "error"
    BY <1>2, <1>4, <2>2, <2>3, <2>4
  <2>6. req' \in Request /\ req'.base = failed /\ req'.next > req'.base
    <3>1. req' = [req EXCEPT !.next = req.base + 1] /\ req.base + 1 \in Nat
      BY <1>2, <2>1
    <3> DEFINE n == req.base + 1
    <3>2. req' = [req EXCEPT !.next = n] /\ n \in Nat /\ n > failed
      BY <1>2, <3>1
    <3> HIDE DEF n
    <3>3. req' \in Request /\ req'.base = req.base /\ req'.next = n
      BY <1>2, <3>2 DEF Request
    <3>4. QED
      BY <1>2, <3>2, <3>3
  <2>7. high' \in Nat
    <3>1. Top - 2 + Len(vs) \in Nat
      BY <1>2, <2>2
    <3>2. QED
      BY <1>2, <2>1, <3>1, HigherNat
  <2>8. StackTypes'
    BY <1>2, <1>3, <2>1, <2>5, <2>6, <2>7 DEF StackTypes
  <2>9. Base'
    <3>1. pc' = "results" /\ failed' = failed /\ calls' = <<>> /\ req'.base = failed'
      BY <1>3, <2>1, <2>6
    <3>2. failed' <= Ground' /\ req'.next > req'.base
      BY <1>2, <1>3, <2>1, <2>2, <2>5, <2>6 DEF Top
    <3>3. \A i \in 1..failed' : lua'[i].tag = "error"
      BY <2>5, <3>1
    <3>4. QED
      BY <3>1, <3>2, <3>3 DEF Base
  <2>10. QED
    BY <1>3, <2>8, <2>9 DEF StackInv
<1>6. CASE /\ failed < MaxFailed /\ lua' = Append(under, Mark("error"))
           /\ pc' \in {"idle", "crashed"} /\ failed' = failed + 1
           /\ UNCHANGED <<req, high>>
  <2> HIDE DEF under
  <2>1. Mark("error") \in Slot /\ Mark("error").tag = "error"
    BY Slots DEF Mark, Tags
  <2>2. /\ lua' \in Seq(Slot) /\ Len(lua') = failed + 1 /\ lua'[failed + 1].tag = "error"
        /\ \A i \in 1..failed : lua'[i].tag = "error"
    BY <1>4, <1>6, <2>1, PushFacts
  <2>3. \A i \in 1..failed' : lua'[i].tag = "error"
    <3>1. \A i \in 1..failed' : i \in 1..failed \/ i = failed + 1
      BY <1>2, <1>6
    <3>2. QED
      BY <2>2, <3>1
  <2>4. failed' \in 0..MaxFailed
    <3>1. MaxFailed \in Nat
      BY EvalAssumption
    <3>2. QED
      BY <1>2, <1>6, <3>1
  <2>5. StackTypes'
    BY <1>2, <1>3, <1>6, <2>2, <2>4 DEF StackTypes
  <2>6. Base'
    BY <1>2, <1>3, <1>6, <2>2, <2>3 DEF Base, Top
  <2>7. QED
    BY <1>3, <2>5, <2>6 DEF StackInv
<1>7. QED
  BY <1>5, <1>6 DEF Call

(* A handler calls to_json for a value on its own part of the stack.       *)
LEMMA Starts ==
    ASSUME NEW idx \in Nat, NEW depth \in Nat, lua' \in Seq(Slot),
           idx \in 1..Top', calls' = <<ToJson(idx, depth, Top')>>
    PROVE  calls' \in Seq(Activation) /\ Nested' /\ Ground' = Top' /\ calls' # <<>>
<1> DEFINE a == ToJson(idx, depth, Top')
<1>1. Top' \in Nat
  BY DEF Top
<1>2. a \in Activation /\ a.idx = idx /\ a.at = "start" /\ a.top = Top'
  BY <1>1 DEF ToJson, Activation
<1> HIDE DEF a
<1>3. calls' = <<a>>
  BY DEF a
<1>4. Len(calls') = 1 /\ calls'[1] = a /\ calls' \in Seq(Activation) /\ calls' # <<>>
  BY <1>2, <1>3
<1>5. ActOK(1)'
  BY <1>1, <1>2, <1>4, ExtraFacts DEF ActOK
<1>6. \A k \in 1..Len(calls') : k = 1
  BY <1>4
<1>7. Nested'
  BY <1>1, <1>2, <1>4, <1>5, <1>6 DEF Nested
<1>8. QED
  BY <1>2, <1>4, <1>7 DEF Ground

LEMMA ConvertResultInv == ASSUME StackInv, ConvertResult PROVE StackInv'
<1>1. pc = "results" /\ calls = <<>> /\ UNCHANGED <<high, failed>>
  BY DEF ConvertResult
<1>2. /\ StackTypes /\ lua \in Seq(Slot) /\ Len(lua) = Top /\ Top \in Nat
      /\ req.base = failed /\ failed \in Nat /\ failed <= Top /\ req \in Request
      /\ req.next > req.base
      /\ \A i \in 1..failed : lua[i].tag = "error"
  BY <1>1, AloneFacts DEF Base, StackTypes
<1>3. CASE req.next > Top
  <2>1. lua' = SubSeq(lua, 1, failed) /\ pc' = "idle" /\ UNCHANGED <<calls, req>>
    BY <1>2, <1>3 DEF ConvertResult
  <2>2. failed \in 0..Len(lua)
    BY <1>2
  <2>3. /\ lua' \in Seq(Slot) /\ Len(lua') = failed
        /\ \A i \in 1..failed : lua'[i].tag = "error"
    BY <1>2, <2>1, <2>2, Prefix
  <2>4. calls' = <<>> /\ calls' \in Seq(Activation) /\ Nested' /\ Ground' = Top'
    BY <1>1, <2>1, Empty
  <2>5. StackTypes'
    BY <1>1, <1>2, <2>1, <2>3, <2>4 DEF StackTypes
  <2>6. Base'
    BY <1>1, <1>2, <2>1, <2>3, <2>4 DEF Base, Top
  <2>7. QED
    BY <2>4, <2>5, <2>6 DEF StackInv
<1>4. CASE ~(req.next > Top)
  <2>1. /\ calls' = <<ToJson(req.next, req.depth, Top)>>
        /\ req' = [req EXCEPT !.next = @ + 1] /\ UNCHANGED <<lua, pc>>
    BY <1>4 DEF ConvertResult
  <2>2. req.next \in Nat /\ req.depth \in Nat /\ req.next \in 1..Top /\ Top' = Top
    BY <1>2, <1>4, <2>1 DEF Request, Top
  <2>3. calls' \in Seq(Activation) /\ Nested' /\ Ground' = Top
    BY <1>2, <2>1, <2>2, Starts
  <2>4. req' \in Request /\ req'.base = failed /\ req'.next > failed
    <3> DEFINE n == req.next + 1
    <3>1. req' = [req EXCEPT !.next = n] /\ n \in Nat /\ n > failed
      BY <1>2, <2>1, <2>2
    <3> HIDE DEF n
    <3>2. req' \in Request /\ req'.base = req.base /\ req'.next = n
      BY <1>2, <3>1 DEF Request
    <3>3. QED
      BY <1>2, <3>1, <3>2
  <2>5. StackTypes'
    BY <1>1, <1>2, <2>1, <2>3, <2>4 DEF StackTypes
  <2>6. Base'
    BY <1>1, <1>2, <2>1, <2>3, <2>4 DEF Base
  <2>7. QED
    BY <2>3, <2>5, <2>6 DEF StackInv
<1>5. QED
  BY <1>3, <1>4

(* The first step of the handlers that list variables.                     *)
LEMMA ListsInv ==
    ASSUME StackInv, pc = "idle", pc' = "list", UNCHANGED <<calls, failed>>,
           NEW depth \in Nat, NEW rest \in Seq(Variable), high' \in Nat,
           req' = [NoRequest EXCEPT !.base = Top, !.depth = depth, !.rest = rest],
           \/ lua' = lua
           \/ lua' = Append(lua, Mark("function"))
    PROVE  StackInv'
<1>1. calls = <<>>
  BY IdleFacts
<1>2. /\ StackTypes /\ Top \in Nat /\ lua \in Seq(Slot) /\ Len(lua) = Top /\ Top = failed
      /\ failed \in Nat /\ \A i \in 1..failed : lua[i].tag = "error"
  BY <1>1, AloneFacts DEF Base
<1>3. calls' \in Seq(Activation) /\ Nested' /\ Ground' = Top' /\ calls' = <<>>
  BY <1>1, Empty
<1>4. req' \in Request /\ req'.base = failed
  <2>1. req' = [base |-> Top, depth |-> depth, next |-> 0, rest |-> rest]
    BY DEF NoRequest
  <2>2. QED
    BY <1>2, <2>1 DEF Request
<1>5. CASE lua' = lua
  <2>1. Top' = Top
    BY <1>5 DEF Top
  <2>2. StackTypes'
    BY <1>2, <1>3, <1>4, <1>5 DEF StackTypes
  <2>3. Base'
    BY <1>2, <1>3, <1>4, <1>5, <2>1 DEF Base
  <2>4. QED
    BY <1>3, <2>2, <2>3 DEF StackInv
<1>6. CASE lua' = Append(lua, Mark("function"))
  <2>1. Mark("function") \in Slot /\ Mark("function").tag = "function"
    BY Slots DEF Mark, Tags
  <2>2. /\ lua' \in Seq(Slot) /\ Top' = Top + 1 /\ lua'[Top + 1].tag = "function"
        /\ \A i \in 1..failed : lua'[i].tag = "error"
    BY <1>2, <1>6, <2>1, PushFacts DEF Top
  <2>3. StackTypes'
    BY <1>2, <1>3, <1>4, <2>2 DEF StackTypes
  <2>4. Base'
    BY <1>2, <1>3, <1>4, <2>2 DEF Base
  <2>5. QED
    BY <1>3, <2>3, <2>4 DEF StackInv
<1>7. QED
  BY <1>5, <1>6

LEMMA BeginInv == ASSUME StackInv, Begin PROVE StackInv'
<1>1. PICK depth \in Depths :
          \/ \E stack_no \in 0..Frames :
               \/ Eval(stack_no, depth)
               \/ \E vs \in Lists : \/ GetLocalVariable(stack_no, depth, vs)
                                    \/ GetUpvalues(stack_no, depth, vs)
          \/ GetGlobal(depth)
  BY DEF Begin
<1>2. depth \in Nat /\ depth + 1 \in Nat
  BY EvalAssumption
<1>3. \A vs \in Lists : vs \in Seq(Variable)
  BY EvalAssumption
<1>4. Top \in Nat
  BY DEF StackInv, StackTypes, Top
<1>5. ASSUME NEW stack_no \in 0..Frames, Eval(stack_no, depth) PROVE StackInv'
  BY <1>2, <1>5, EvalInv
<1>6. ASSUME NEW stack_no \in 0..Frames, NEW vs \in Lists, GetLocalVariable(stack_no, depth, vs)
      PROVE  StackInv'
  <2>1. /\ pc = "idle" /\ pc' = "list" /\ UNCHANGED <<calls, failed>>
        /\ high' = Top /\ lua' = lua
        /\ req' = [NoRequest EXCEPT !.base = Top, !.depth = depth, !.rest = vs]
    BY <1>6 DEF GetLocalVariable
  <2>2. high' \in Nat /\ vs \in Seq(Variable)
    BY <1>3, <1>4, <2>1
  <2>3. QED
    BY <1>2, <2>1, <2>2, ListsInv
<1>7. ASSUME NEW stack_no \in 0..Frames, NEW vs \in Lists, GetUpvalues(stack_no, depth, vs)
      PROVE  StackInv'
  <2>1. /\ pc = "idle" /\ pc' = "list" /\ UNCHANGED <<calls, failed>>
        /\ high' = Top + 1 /\ lua' = Append(lua, Mark("function"))
        /\ req' = [NoRequest EXCEPT !.base = Top, !.depth = depth, !.rest = vs]
    BY <1>7 DEF GetUpvalues
  <2>2. high' \in Nat /\ vs \in Seq(Variable)
    BY <1>3, <1>4, <2>1
  <2>3. QED
    BY <1>2, <2>1, <2>2, ListsInv
<1>8. ASSUME GetGlobal(depth) PROVE StackInv'
  <2>1. PICK v \in Values :
          req' = [NoRequest EXCEPT !.base = Top, !.depth = depth + 1,
                                   !.rest = <<[temporary |-> FALSE, val |-> v]>>]
    BY <1>8 DEF GetGlobal
  <2> DEFINE rest == <<[temporary |-> FALSE, val |-> v]>>
  <2>2. rest \in Seq(Variable)
    BY DEF Variable
  <2>3. req' = [NoRequest EXCEPT !.base = Top, !.depth = depth + 1, !.rest = rest]
    BY <2>1
  <2> HIDE DEF rest
  <2>4. pc = "idle" /\ pc' = "list" /\ high' = Top /\ UNCHANGED <<lua, calls, failed>>
    BY <1>8 DEF GetGlobal
  <2>5. QED
    BY <1>2, <1>4, <2>2, <2>3, <2>4, ListsInv
<1>9. QED
  BY <1>1, <1>5, <1>6, <1>7, <1>8

LEMMA ConvertVariableInv == ASSUME StackInv, ConvertVariable PROVE StackInv'
<1>1. pc = "list" /\ calls = <<>> /\ UNCHANGED failed
  BY DEF ConvertVariable
<1>2. /\ StackTypes /\ lua \in Seq(Slot) /\ Len(lua) = Top /\ Top \in Nat
      /\ req.base = failed /\ failed \in Nat /\ req \in Request /\ high \in Nat
      /\ \A i \in 1..failed : lua[i].tag = "error"
      /\ \/ Top = failed
         \/ Top = failed + 1 /\ lua[Top].tag = "function"
  <2>1. StackTypes /\ Base /\ Ground = Top
    BY <1>1, AloneFacts
  <2>2. /\ req.base = failed
        /\ \/ Top = failed
           \/ Top = failed + 1 /\ lua[Top].tag = "function"
    BY <1>1, <2>1 DEF Base
  <2>3. QED
    BY <1>1, <2>1, <2>2, AloneFacts DEF StackTypes
<1>3. CASE req.rest = <<>>
  <2>1. /\ lua' = IF Top > failed THEN Front(lua) ELSE lua
        /\ pc' = "idle" /\ UNCHANGED <<calls, req, high>>
    BY <1>2, <1>3 DEF ConvertVariable
  <2>2. calls' = <<>> /\ calls' \in Seq(Activation) /\ Nested' /\ Ground' = Top'
    BY <1>1, <2>1, Empty
  <2>3. /\ lua' \in Seq(Slot) /\ Len(lua') = failed
        /\ \A i \in 1..failed : lua'[i].tag = "error"
    <3>1. CASE Top = failed
      BY <1>2, <2>1, <3>1
    <3>2. CASE Top = failed + 1
      <4>1. lua' = Front(lua) /\ Len(lua) > 0 /\ Len(lua) - 1 = failed
        BY <1>2, <2>1, <3>2
      <4>2. QED
        BY <1>2, <4>1, FrontFacts
    <3>3. QED
      BY <1>2, <3>1, <3>2
  <2>4. StackTypes'
    BY <1>1, <1>2, <2>1, <2>2, <2>3 DEF StackTypes
  <2>5. Base'
    BY <1>1, <1>2, <2>1, <2>2, <2>3 DEF Base, Top
  <2>6. QED
    BY <2>2, <2>4, <2>5 DEF StackInv
<1>4. CASE req.rest # <<>>
  <2>1. req' = [req EXCEPT !.rest = Tail(@)] /\ high' = Higher(Top + 1)
    BY <1>4 DEF ConvertVariable
  <2>2. /\ req.rest \in Seq(Variable) /\ Tail(req.rest) \in Seq(Variable)
        /\ Head(req.rest) \in Variable /\ req.depth \in Nat
    BY <1>2, <1>4 DEF Request
  <2>3. req' \in Request /\ req'.base = failed
    <3> DEFINE rest == Tail(req.rest)
    <3>1. req' = [req EXCEPT !.rest = rest] /\ rest \in Seq(Variable)
      BY <2>1, <2>2
    <3> HIDE DEF rest
    <3>2. req' \in Request /\ req'.base = req.base
      BY <1>2, <3>1 DEF Request
    <3>3. QED
      BY <1>2, <3>2
  <2>4. high' \in Nat
    <3>1. Top + 1 \in Nat
      BY <1>2
    <3>2. QED
      BY <1>2, <2>1, <3>1, HigherNat
  <2>5. CASE Head(req.rest).temporary
    <3>1. UNCHANGED <<lua, calls, pc>>
      BY <1>4, <2>5 DEF ConvertVariable
    <3>2. calls' = <<>> /\ calls' \in Seq(Activation) /\ Nested' /\ Ground' = Top' /\ Top' = Top
      BY <1>1, <3>1, Empty DEF Top
    <3>3. StackTypes'
      BY <1>1, <1>2, <2>3, <2>4, <3>1, <3>2 DEF StackTypes
    <3>4. Base'
      BY <1>1, <1>2, <2>3, <3>1, <3>2 DEF Base
    <3>5. QED
      BY <3>2, <3>3, <3>4 DEF StackInv
  <2>6. CASE ~Head(req.rest).temporary
    <3> DEFINE held == Hold("variable", Head(req.rest).val)
    <3>1. /\ lua' = Append(lua, held) /\ pc' = "variable"
          /\ calls' = <<ToJson(Top + 1, req.depth, Top + 1)>>
      BY <1>4, <2>6 DEF ConvertVariable
    <3>2. held \in Slot /\ held.tag = "variable"
      BY <2>2, Slots DEF Variable, Hold, Tags
    <3> HIDE DEF held
    <3>3. /\ lua' \in Seq(Slot) /\ Top' = Top + 1 /\ lua'[Top + 1].tag = "variable"
          /\ \A i \in 1..Top : lua'[i] = lua[i]
      BY <1>2, <3>1, <3>2, PushFacts DEF Top
    <3>4. calls' \in Seq(Activation) /\ Nested' /\ Ground' = Top + 1 /\ calls' # <<>>
      <4>1. Top + 1 \in Nat /\ Top + 1 \in 1..Top' /\ calls' = <<ToJson(Top + 1, req.depth, Top')>>
        BY <1>2, <3>1, <3>3
      <4>2. QED
        BY <2>2, <3>3, <4>1, Starts
    <3>5. StackTypes'
      BY <1>1, <1>2, <2>3, <2>4, <3>1, <3>3, <3>4 DEF StackTypes
    <3>6. \A i \in 1..failed : lua'[i].tag = "error"
      BY <1>2, <3>3
    <3>7. Top = failed + 1 => lua'[Top].tag = "function"
      <4>1. Top = failed + 1 => Top \in 1..Top
        BY <1>2
      <4>2. QED
        BY <1>2, <3>3, <4>1
    <3>8. Base'
      <4>1. /\ pc' = "variable" /\ failed' = failed /\ req'.base = failed
            /\ Ground' = Top + 1 /\ Ground' - 1 = Top /\ lua'[Ground'].tag = "variable"
        BY <1>1, <1>2, <2>3, <3>1, <3>3, <3>4
      <4>2. failed' <= Ground' /\ (Ground' = failed + 1 \/ Ground' = failed + 2)
        BY <1>2, <4>1
      <4>3. Ground' = failed + 2 => lua'[Ground' - 1].tag = "function"
        BY <1>2, <3>7, <4>1
      <4>4. QED
        BY <3>6, <4>1, <4>2, <4>3 DEF Base
    <3>9. QED
      BY <3>4, <3>5, <3>8 DEF StackInv
  <2>7. QED
    BY <2>5, <2>6
<1>5. QED
  BY <1>3, <1>4

LEMMA PopVariableInv == ASSUME StackInv, PopVariable PROVE StackInv'
<1>1. /\ pc = "variable" /\ calls = <<>> /\ lua' = Front(lua) /\ pc' = "list"
      /\ UNCHANGED <<calls, req, high, failed>>
  BY DEF PopVariable
<1>2. /\ StackTypes /\ lua \in Seq(Slot) /\ Len(lua) = Top /\ Top \in Nat
      /\ req.base = failed /\ failed \in Nat
      /\ \A i \in 1..failed : lua[i].tag = "error"
      /\ \/ Top = failed + 1
         \/ Top = failed + 2 /\ lua[Top - 1].tag = "function"
  <2>1. StackTypes /\ Base /\ Ground = Top
    BY <1>1, AloneFacts
  <2>2. /\ req.base = failed
        /\ \/ Top = failed + 1
           \/ Top = failed + 2 /\ lua[Top - 1].tag = "function"
    BY <1>1, <2>1 DEF Base
  <2>3. QED
    BY <1>1, <2>1, <2>2, AloneFacts
<1>3. calls' = <<>> /\ calls' \in Seq(Activation) /\ Nested' /\ Ground' = Top'
  BY <1>1, Empty
<1>4. /\ lua' \in Seq(Slot) /\ Top' = Top - 1
      /\ \A i \in 1..Top - 1 : lua'[i] = lua[i]
  BY <1>1, <1>2, FrontFacts DEF Top
<1>5. \A i \in 1..failed : lua'[i].tag = "error"
  BY <1>2, <1>4
<1>6. Top = failed + 2 => lua'[Top - 1].tag = "function"
  <2>1. Top = failed + 2 => Top - 1 \in 1..Top - 1
    BY <1>2
  <2>2. QED
    BY <1>2, <1>4, <2>1
<1>7. StackTypes'
  BY <1>1, <1>2, <1>3, <1>4 DEF StackTypes
<1>8. Base'
  <2>1. /\ pc' = "list" /\ failed' = failed /\ req'.base = failed
        /\ Ground' = Top - 1 /\ (Ground' = failed \/ Ground' = failed + 1)
        /\ failed' <= Ground'
    BY <1>1, <1>2, <1>3, <1>4
  <2>2. Ground' = failed + 1 => lua'[Ground'].tag = "function"
    BY <1>2, <1>6, <2>1
  <2>3. QED
    BY <1>3, <1>5, <2>1, <2>2 DEF Base
<1>9. QED
  BY <1>3, <1>7, <1>8 DEF StackInv

LEMMA UnchangedInv == ASSUME StackInv, UNCHANGED vars PROVE StackInv'
<1>1. UNCHANGED <<lua, calls, pc, req, high, failed>>
  BY DEF vars
<1>2. StackTypes' /\ Base'
  BY <1>1 DEF StackInv, StackTypes, Base, Ground, Top
<1>3. Nested'
  BY <1>1 DEF StackInv, Nested, ActOK, Top
<1>4. QED
  BY <1>2, <1>3 DEF StackInv

LEMMA StackInvariant == Spec => []StackInv
<1>1. Init => StackInv
  BY InitInv
<1>2. StackInv /\ [Next]_vars => StackInv'
  BY NextPauseInv, BeginInv, CreateEvalEnvInv, CallInv, ConvertResultInv,
     ConvertVariableInv, PopVariableInv, ConvertInv, UnchangedInv DEF Next, Handle
<1>3. QED
  BY <1>1, <1>2, PTL DEF Spec

-----------------------------------------------------------------------------
(* The stack keeps its shape, and no activation of to_json is left with an *)
(* index past the top of the stack: what it converts is still there.       *)
THEOREM StackTypeCorrect == Spec => []TypeOK
<1>1. StackInv => TypeOK
  <2>1. SUFFICES ASSUME StackInv PROVE TypeOK
    OBVIOUS
  <2>2. ASSUME NEW k \in DOMAIN calls PROVE calls[k].idx \in 1..Top
    <3>1. StackTypes /\ Nested /\ Converting
      BY <2>1, <2>2 DEF StackInv, StackTypes, Converting
    <3>2. /\ Len(calls) \in Nat /\ Len(calls) \in 1..Len(calls) /\ k \in 1..Len(calls)
          /\ k <= Len(calls) /\ calls[k] \in Activation
      BY <2>2, <3>1 DEF StackTypes
    <3>3. calls[k].top <= Current.top /\ calls[k].idx \in 1..calls[k].top
      BY <3>1, <3>2 DEF Nested, ActOK, Current
    <3>4. Current.top \in Nat /\ Current.top <= Top /\ Top \in Nat
      <4>1. /\ Current.top + Extra(Current.at) = Top /\ Current.top \in Nat /\ Top \in Nat
            /\ Current \in Activation
        BY <3>1, CurrentFacts
      <4>2. Extra(Current.at) \in Nat
        BY <4>1, ExtraFacts DEF Activation
      <4>3. QED
        BY <4>1, <4>2
    <3>5. calls[k].top \in Nat
      BY <3>2 DEF Activation
    <3>6. QED
      BY <3>3, <3>4, <3>5
  <2>3. QED
    BY <2>1, <2>2 DEF StackInv, StackTypes, TypeOK
<1>2. QED
  BY <1>1, StackInvariant, PTL

(* Whatever a pause evaluates and lists, between two requests the stack    *)
(* the hook was given holds one error for each evaluation that failed, and *)
(* nothing else: eval, the lists and to_json clean up after themselves.    *)
THEOREM StackBalanced == Spec => []Balanced
<1>1. StackInv => Balanced
  <2>1. SUFFICES ASSUME StackInv, pc = "idle"
                 PROVE  calls = <<>> /\ Top = failed /\ \A i \in DOMAIN lua : lua[i].tag = "error"
    BY DEF Balanced
  <2>2. calls = <<>>
    BY <2>1, IdleFacts
  <2>3. /\ Top = failed /\ lua \in Seq(Slot) /\ Len(lua) = Top
        /\ \A i \in 1..failed : lua[i].tag = "error"
    BY <2>1, <2>2, AloneFacts DEF Base
  <2>4. QED
    BY <2>2, <2>3
<1>2. QED
  BY <1>1, StackInvariant, PTL

(* Every lua_pop of to_json and of the handlers removes the slot it is     *)
(* meant for, whatever conversions went on above that slot.                *)
THEOREM PopsOnlyItsOwn == Spec => []PopsItsOwn
<1>1. StackInv => PopsItsOwn
  <2>1. SUFFICES ASSUME StackInv PROVE PopsItsOwn
    OBVIOUS
  <2>2. ASSUME Converting
        PROVE  /\ Current.at = "next" => lua[Top].tag = "key"
               /\ Current.at = "value" => lua[Top].tag = "value" /\ lua[Top - 1].tag = "key"
               /\ Current.at = "meta" => lua[Top].tag = "meta"
    <3>1. StackTypes /\ Nested
      BY <2>1 DEF StackInv
    <3>2. /\ Current.top \in Nat /\ Top \in Nat /\ Current.top + Extra(Current.at) = Top
          /\ Current.at \in {"next", "value"} => lua[Current.top + 1].tag = "key"
          /\ Current.at = "value" => lua[Current.top + 2].tag = "value"
          /\ Current.at = "meta" => lua[Current.top + 1].tag = "meta"
      BY <2>2, <3>1, CurrentFacts
    <3>3. CASE Current.at = "next"
      BY <3>2, <3>3, ExtraFacts
    <3>4. CASE Current.at = "value"
      <4>1. Top = Current.top + 2 /\ Top - 1 = Current.top + 1
        BY <3>2, <3>4, ExtraFacts
      <4>2. QED
        BY <3>2, <3>4, <4>1
    <3>5. CASE Current.at = "meta"
      BY <3>2, <3>5, ExtraFacts
    <3>6. QED
      BY <3>3, <3>4, <3>5
  <2>3. ASSUME ~Converting
        PROVE  /\ pc = "variable" => lua[Top].tag = "variable"
               /\ pc = "list" /\ Top > req.base => lua[Top].tag = "function"
    <3>1. calls = <<>>
      BY <2>3 DEF Converting
    <3>2. Base /\ Ground = Top /\ Top \in Nat /\ failed \in Nat
      BY <2>1, <3>1, AloneFacts
    <3>3. QED
      BY <3>2 DEF Base
  <2>4. ASSUME pc = "call"
        PROVE  lua[Top].tag = "env" /\ lua[Top - 1].tag = "chunk"
    <3>1. calls = <<>>
      BY <2>1, <2>4, IdleFacts
    <3>2. Base /\ Ground = Top
      BY <2>1, <3>1, AloneFacts
    <3>3. QED
      BY <2>4, <3>2 DEF Base
  <2>5. QED
    BY <2>2, <2>3, <2>4 DEF PopsItsOwn
<1>2. QED
  BY <1>1, StackInvariant, PTL

-----------------------------------------------------------------------------
(* How high the stack gets.  An activation has been called so low that the *)
(* keys and values of the depth it still has fit under the bound; only the *)
(* result of a metamethod lies a slot higher, and is not passed on.        *)

Most == IF MaxResults > 2 THEN MaxResults ELSE 2
Budget == req.base + Most + 3 * req.depth
OfMeta(k) == k > 1 /\ calls[k - 1].at = "meta"

Room(k) ==
    /\ calls[k].top + 3 * calls[k].depth <= Budget + IF OfMeta(k) THEN 1 ELSE 0
    /\ OfMeta(k) => ~Delegates(lua[calls[k].idx].val)

Low ==
    /\ \A k \in 1..Len(calls) : Room(k)
    /\ pc = "results" => Ground <= req.base + MaxResults
    /\ HighBounded

LowInv == StackInv /\ Low

LEMMA MostFacts == Most \in Nat /\ Most >= 2 /\ Most >= MaxResults
BY EvalAssumption DEF Most

LEMMA BudgetFacts ==
    ASSUME StackTypes
    PROVE  /\ Budget \in Nat /\ req.base \in Nat /\ req.depth \in Nat /\ high \in Nat
           /\ HighBounded <=> (pc \notin {"left", "crashed"} =>
                                  high <= req.base + 6 \/ high <= Budget + 2)
<1>1. req.base \in Nat /\ req.depth \in Nat /\ high \in Nat
  BY DEF StackTypes, Request
<1>2. Budget \in Nat
  BY <1>1, MostFacts DEF Budget
<1>3. QED
  BY <1>1, <1>2 DEF HighBounded, Budget, Most

(* The innermost activation has no more on the stack than is left to it.   *)
LEMMA InnermostRoom ==
    ASSUME LowInv, Converting
    PROVE  /\ Len(calls) \in 1..Len(calls) /\ Room(Len(calls))
           /\ Current.top \in Nat /\ Current.depth \in Nat /\ Budget \in Nat
           /\ Current.top + 3 * Current.depth <= Budget + 1
           /\ Delegates(Subject) => Current.top + 3 * Current.depth <= Budget
<1>1. StackTypes /\ Nested /\ Low
  BY DEF LowInv, StackInv
<1>2. /\ Len(calls) \in 1..Len(calls) /\ Current \in Activation /\ Current.top \in Nat
      /\ Budget \in Nat
  BY <1>1, CurrentFacts, BudgetFacts
<1>3. Room(Len(calls)) /\ Current.depth \in Nat
  BY <1>1, <1>2 DEF Low, Activation
<1>4. /\ Current.top + 3 * Current.depth <= Budget + IF OfMeta(Len(calls)) THEN 1 ELSE 0
      /\ OfMeta(Len(calls)) => ~Delegates(Subject)
  BY <1>3 DEF Room, Current, Subject
<1>5. Current.top + 3 * Current.depth \in Nat
  BY <1>2, <1>3
<1>6. QED
  BY <1>2, <1>3, <1>4, <1>5

(* An activation keeps its room while it stays where it is.                *)
LEMMA RoomKept ==
    ASSUME StackTypes, Nested, Converting, Keeps(Current.top), req' = req,
           NEW k \in 1..Len(calls), Room(k),
           \A j \in 1..Len(calls) - 1 : calls'[j] = calls[j],
           calls'[k].idx = calls[k].idx, calls'[k].top = calls[k].top,
           calls'[k].depth = calls[k].depth
    PROVE  Room(k)'
<1>1. Len(calls) \in Nat /\ Len(calls) \in 1..Len(calls) /\ Current.top \in Nat
  BY CurrentFacts
<1>2. OfMeta(k)' <=> OfMeta(k)
  <2>1. k > 1 => k - 1 \in 1..Len(calls) - 1
    BY <1>1
  <2>2. QED
    BY <2>1 DEF OfMeta
<1>3. lua'[calls'[k].idx] = lua[calls[k].idx]
  <2>1. ActOK(k) /\ calls[k].top <= Current.top /\ calls[k] \in Activation
    <3>1. k <= Len(calls)
      BY <1>1
    <3>2. QED
      BY <1>1, <3>1 DEF Nested, Current, StackTypes
  <2>2. calls[k].idx \in 1..Current.top
    BY <1>1, <2>1 DEF ActOK, Activation
  <2>3. QED
    BY <2>2 DEF Keeps
<1>4. Budget' = Budget
  BY DEF Budget
<1>5. QED
  BY <1>2, <1>3, <1>4 DEF Room

LEMMA RoomEnds ==
    ASSUME LowInv, Converting, Keeps(Current.top), req' = req, calls' = Front(calls)
    PROVE  \A k \in 1..Len(calls') : Room(k)'
<1>1. StackTypes /\ Nested /\ calls \in Seq(Activation) /\ Len(calls) \in Nat /\ Len(calls) > 0
  BY CurrentFacts DEF LowInv, StackInv, StackTypes
<1>2. Len(calls') = Len(calls) - 1 /\ \A k \in 1..Len(calls) - 1 : calls'[k] = calls[k]
  BY <1>1, FrontFacts
<1>3. SUFFICES ASSUME NEW k \in 1..Len(calls') PROVE Room(k)'
  OBVIOUS
<1>4. k \in 1..Len(calls) - 1 /\ k \in 1..Len(calls)
  BY <1>1, <1>2
<1>5. calls'[k] = calls[k] /\ Room(k)
  BY <1>2, <1>4 DEF LowInv, Low
<1>6. QED
  BY <1>1, <1>2, <1>4, <1>5, RoomKept

LEMMA RoomGoesOn ==
    ASSUME LowInv, Converting, Keeps(Current.top), req' = req,
           NEW at \in {"next", "value", "meta"}, NEW pos \in Nat, calls' = GoTo(at, pos)
    PROVE  \A k \in 1..Len(calls') : Room(k)'
<1>1. StackTypes /\ Nested /\ Len(calls) \in Nat /\ Len(calls) > 0
  BY CurrentFacts DEF LowInv, StackInv
<1>2. /\ Len(calls') = Len(calls) /\ \A k \in 1..Len(calls) - 1 : calls'[k] = calls[k]
      /\ calls'[Len(calls)] = Moved(at, pos)
  <2>1. /\ Len(GoTo(at, pos)) = Len(calls)
        /\ \A k \in 1..Len(calls) - 1 : GoTo(at, pos)[k] = calls[k]
        /\ GoTo(at, pos)[Len(calls)] = Moved(at, pos)
    BY <1>1, GoToFacts
  <2>2. QED
    BY <2>1
<1>3. /\ Moved(at, pos).idx = Current.idx /\ Moved(at, pos).top = Current.top
      /\ Moved(at, pos).depth = Current.depth
  BY <1>1, MovedFacts
<1>4. SUFFICES ASSUME NEW k \in 1..Len(calls) PROVE Room(k)'
  BY <1>2
<1>5. /\ calls'[k].idx = calls[k].idx /\ calls'[k].top = calls[k].top
      /\ calls'[k].depth = calls[k].depth
  <2>1. k = Len(calls) \/ k \in 1..Len(calls) - 1
    BY <1>1
  <2>2. QED
    BY <1>2, <1>3, <2>1 DEF Current
<1>6. Room(k)
  BY DEF LowInv, Low
<1>7. QED
  BY <1>1, <1>2, <1>5, <1>6, RoomKept

LEMMA RoomNests ==
    ASSUME LowInv, Converting, Keeps(Current.top), req' = req,
           NEW at \in {"value", "meta"}, NEW pos \in Nat, NEW depth \in Nat,
           Len(lua') \in Nat, calls' = Nest(at, pos, lua', depth),
           Len(lua') + 3 * depth <= Budget + IF at = "meta" THEN 1 ELSE 0,
           at = "meta" => ~Delegates(lua'[Len(lua')].val)
    PROVE  \A k \in 1..Len(calls') : Room(k)'
<1> DEFINE new == ToJson(Len(lua'), depth, Len(lua'))
<1>1. StackTypes /\ Nested /\ Len(calls) \in Nat /\ Len(calls) > 0
  BY CurrentFacts DEF LowInv, StackInv
<1>2. Deeper(calls', Moved(at, pos), new)
  <2>1. new \in Activation /\ calls' = Append(GoTo(at, pos), new)
    BY DEF Nest, ToJson, Activation
  <2> HIDE DEF new
  <2>2. Deeper(Append(GoTo(at, pos), new), Moved(at, pos), new)
    BY <1>1, <2>1, NestFacts, Zenon
  <2>3. QED
    BY <2>1, <2>2
<1>3. new.idx = Len(lua') /\ new.top = Len(lua') /\ new.depth = depth
  BY DEF ToJson
<1> HIDE DEF new
<1>4. /\ Len(calls') = Len(calls) + 1 /\ \A k \in 1..Len(calls) - 1 : calls'[k] = calls[k]
      /\ calls'[Len(calls)] = Moved(at, pos) /\ calls'[Len(calls) + 1] = new
  BY <1>2 DEF Deeper
<1>5. /\ Moved(at, pos).idx = Current.idx /\ Moved(at, pos).top = Current.top
      /\ Moved(at, pos).depth = Current.depth /\ Moved(at, pos).at = at
  BY <1>1, MovedFacts
<1>6. ASSUME NEW k \in 1..Len(calls) PROVE Room(k)'
  <2>1. /\ calls'[k].idx = calls[k].idx /\ calls'[k].top = calls[k].top
        /\ calls'[k].depth = calls[k].depth
    <3>1. k = Len(calls) \/ k \in 1..Len(calls) - 1
      BY <1>1
    <3>2. QED
      BY <1>4, <1>5, <3>1 DEF Current
  <2>2. Room(k)
    BY DEF LowInv, Low
  <2>3. QED
    BY <1>1, <1>4, <2>1, <2>2, RoomKept
<1>7. ASSUME NEW n \in Nat, n = Len(calls) + 1 PROVE Room(n)'
  <2>1. OfMeta(n)' <=> at = "meta"
    <3>1. n > 1 /\ n - 1 = Len(calls)
      BY <1>1, <1>7
    <3>2. QED
      BY <1>4, <1>5, <3>1 DEF OfMeta
  <2>2. Budget' = Budget
    BY DEF Budget
  <2>3. QED
    BY <1>3, <1>4, <1>7, <2>1, <2>2 DEF Room
<1>8. \A k \in 1..Len(calls') : k \in 1..Len(calls) \/ (k \in Nat /\ k = Len(calls) + 1)
  BY <1>1, <1>4
<1>9. QED
  BY <1>6, <1>7, <1>8

(* A step of to_json that needs no more than two slots above the bound.    *)
LEMMA ConvertLowBase ==
    ASSUME LowInv, Converting, Undisturbed, UNCHANGED <<pc, req>>, StackInv',
           \A k \in 1..Len(calls') : Room(k)',
           high' = high \/ \E n \in Nat : high' = Higher(n) /\ n <= Budget + 2
    PROVE  LowInv'
<1>1. StackTypes /\ StackTypes' /\ Low
  BY DEF LowInv, StackInv
<1>2. HighBounded'
  <2>1. Budget' = Budget
    BY DEF Budget
  <2>2. high' = high \/ high' <= Budget + 2
    BY DEF Higher
  <2>3. HighBounded /\ (HighBounded <=> (pc \notin {"left", "crashed"} =>
                                            high <= req.base + 6 \/ high <= Budget + 2))
    BY <1>1, BudgetFacts DEF Low
  <2>4. HighBounded' <=> (pc \notin {"left", "crashed"} =>
                            high' <= req.base + 6 \/ high' <= Budget + 2)
    BY <2>1 DEF HighBounded, Budget, Most
  <2>5. QED
    BY <2>2, <2>3, <2>4
<1>3. pc' = "results" => Ground' <= req'.base + MaxResults
  BY <1>1 DEF Low, Undisturbed
<1>4. QED
  BY <1>2, <1>3 DEF LowInv, Low

LEMMA EndLow ==
    ASSUME LowInv, Plain \/ Opaque \/ Other \/ PopMeta PROVE LowInv'
<1>1. StackInv /\ StackTypes /\ Nested /\ Converting
  BY DEF LowInv, StackInv, Plain, Opaque, Other, PopMeta, Starting
<1>2. UNCHANGED <<pc, req>> /\ calls' = Front(calls)
  BY DEF Plain, Opaque, Other, Name, PopMeta
<1>3. StackInv' /\ Undisturbed
  BY <1>1, OpaqueInv, PopMetaInv
<1>4. \A k \in 1..Len(calls') : Room(k)'
  BY <1>1, <1>2, <1>3, RoomEnds DEF Undisturbed
<1>5. high' = high \/ \E n \in Nat : high' = Higher(n) /\ n <= Budget + 2
  <2>1. CASE Plain \/ PopMeta
    BY <2>1 DEF Plain, PopMeta
  <2>2. CASE Opaque \/ Other
    <3>1. high' = Higher(Top + 1) /\ Current.at = "start"
      BY <2>2 DEF Opaque, Other, Name, Starting
    <3>2. Top = Current.top /\ Top \in Nat
      BY <1>1, <3>1, CurrentFacts, ExtraFacts
    <3>3. Top + 1 \in Nat /\ Top + 1 <= Budget + 2
      BY <1>1, <3>2, InnermostRoom
    <3>4. QED
      BY <3>1, <3>3
  <2>3. QED
    BY <2>1, <2>2
<1>6. QED
  BY <1>1, <1>2, <1>3, <1>4, <1>5, ConvertLowBase

LEMMA OpenLow == ASSUME LowInv, Open PROVE LowInv'
<1>1. /\ StackInv /\ StackTypes /\ Nested /\ Converting
      /\ Current.at = "start" /\ Current.depth > 0
  BY DEF LowInv, StackInv, Open, Starting
<1>2. UNCHANGED <<pc, req>> /\ calls' = GoTo("next", 0) /\ high' = Higher(Top + 1)
  BY DEF Open
<1>3. StackInv' /\ Undisturbed
  BY <1>1, OpenInv
<1>4. \A k \in 1..Len(calls') : Room(k)'
  BY <1>1, <1>2, <1>3, RoomGoesOn DEF Undisturbed
<1>5. Top + 1 \in Nat /\ Top + 1 <= Budget + 2
  <2>1. Top = Current.top /\ Top \in Nat
    BY <1>1, CurrentFacts, ExtraFacts
  <2>2. QED
    BY <1>1, <2>1, InnermostRoom
<1>6. QED
  BY <1>1, <1>2, <1>3, <1>4, <1>5, ConvertLowBase

LEMMA NextLow == ASSUME LowInv, Next_ PROVE LowInv'
<1>1. StackInv /\ StackTypes /\ Nested /\ Converting /\ Current.at = "next"
  BY DEF LowInv, StackInv, Next_
<1> DEFINE n == Current.pos + 1
           pair == Append(lua, Hold("value", Fields[Subject][n][2]))
<1>2. UNCHANGED <<pc, req>>
  BY DEF Next_
<1>3. StackInv' /\ Undisturbed /\ Keeps(Current.top)
  BY <1>1, NextInv DEF Undisturbed
<1>4. /\ Top = Current.top + 1 /\ Top \in Nat /\ Current.top \in Nat /\ Current.depth \in Nat
      /\ Budget \in Nat /\ Current.depth > 0 /\ Current.top + 3 * Current.depth <= Budget + 1
      /\ Current.pos \in Nat
  BY <1>1, CurrentFacts, ExtraFacts, InnermostRoom DEF Activation
<1>5. Top + 1 \in Nat /\ Top + 1 <= Budget + 2
  BY <1>4
<1>6. CASE n > Len(Fields[Subject])
  <2>1. calls' = Front(calls) /\ high' = high
    BY <1>6 DEF Next_
  <2>2. \A k \in 1..Len(calls') : Room(k)'
    BY <1>1, <1>2, <1>3, <2>1, RoomEnds
  <2>3. QED
    BY <1>1, <1>2, <1>3, <2>1, <2>2, ConvertLowBase
<1>7. CASE ~(n > Len(Fields[Subject])) /\ Fits(Fields[Subject][n][1])
  <2>1. lua' = pair /\ calls' = Nest("value", n, lua', Inner(Current)) /\ high' = Higher(Top + 1)
    BY <1>7 DEF Next_
  <2>2. Len(lua') = Current.top + 2
    <3>1. lua \in Seq(Slot) /\ Len(lua) = Top
      BY <1>1 DEF StackTypes, Top
    <3>2. Len(lua') = Len(lua) + 1
      BY <2>1, <3>1
    <3>3. QED
      BY <1>4, <3>1, <3>2
  <2>3. /\ Inner(Current) \in Nat /\ Len(lua') \in Nat
        /\ Len(lua') + 3 * Inner(Current) <= Budget
    <3>1. ASSUME NEW t \in Nat, NEW d \in Nat, NEW b \in Nat, d > 0, t + 3 * d <= b + 1
          PROVE  d - 1 \in Nat /\ t + 2 + 3 * (d - 1) <= b
      BY <3>1
    <3>2. Inner(Current) = Current.depth - 1
      BY DEF Inner
    <3> DEFINE d == Inner(Current)
    <3> HIDE DEF d
    <3>3. d \in Nat /\ Current.top + 2 + 3 * d <= Budget
      BY <1>4, <3>1, <3>2 DEF d
    <3>4. QED
      BY <1>4, <2>2, <3>3 DEF d
  <2>4. \A k \in 1..Len(calls') : Room(k)'
    <3>1. n \in Nat /\ "value" \in {"value", "meta"} /\ "value" # "meta"
      BY <1>4
    <3> HIDE DEF n
    <3>2. Len(lua') + 3 * Inner(Current) <= Budget + IF "value" = "meta" THEN 1 ELSE 0
      BY <1>4, <2>3
    <3>3. QED
      BY <1>1, <1>2, <1>3, <2>1, <2>3, <3>1, <3>2, RoomNests
  <2>5. QED
    BY <1>1, <1>2, <1>3, <1>5, <2>1, <2>4, ConvertLowBase
<1>8. CASE ~(n > Len(Fields[Subject])) /\ ~Fits(Fields[Subject][n][1])
  <2>1. calls' = GoTo("next", n) /\ high' = Higher(Top + 1)
    BY <1>8 DEF Next_
  <2>2. n \in Nat
    BY <1>4
  <2> HIDE DEF n
  <2>3. \A k \in 1..Len(calls') : Room(k)'
    BY <1>1, <1>2, <1>3, <2>1, <2>2, RoomGoesOn
  <2>4. QED
    BY <1>1, <1>2, <1>3, <1>5, <2>1, <2>3, ConvertLowBase
<1>9. QED
  BY <1>6, <1>7, <1>8

LEMMA PopValueLow == ASSUME LowInv, PopValue PROVE LowInv'
<1>1. StackInv /\ StackTypes /\ Nested /\ Converting
  BY DEF LowInv, StackInv, PopValue
<1>2. UNCHANGED <<pc, req, high>> /\ calls' = GoTo("next", Current.pos)
  BY DEF PopValue
<1>3. StackInv' /\ Undisturbed
  BY <1>1, PopValueInv
<1>4. Current.pos \in Nat
  BY <1>1, CurrentFacts DEF Activation
<1>5. \A k \in 1..Len(calls') : Room(k)'
  BY <1>1, <1>2, <1>3, <1>4, RoomGoesOn DEF Undisturbed
<1>6. QED
  BY <1>1, <1>2, <1>3, <1>5, ConvertLowBase

(* The userdata is not itself what a metamethod returned, for that has no  *)
(* metamethod; so there is a slot left for what it returns.                *)
LEMMA CallMetaLow == ASSUME ShortChains, LowInv, CallMeta PROVE LowInv'
<1>1. /\ StackInv /\ StackTypes /\ Nested /\ Converting /\ Current.at = "start"
      /\ Type[Subject] = "userdata" /\ MetaMethod \in Values
  BY DEF LowInv, StackInv, CallMeta, Starting
<1> DEFINE method == Hold("meta", MetaMethod)
<1>2. /\ UNCHANGED <<pc, req>> /\ high' = Higher(Top + 2)
      /\ lua' = Append(lua, method) /\ calls' = Nest("meta", 0, lua', Current.depth)
  BY DEF CallMeta
<1>3. StackInv' /\ Undisturbed /\ Keeps(Current.top)
  BY <1>1, CallMetaInv DEF Undisturbed
<1>4. Subject \in Values /\ Delegates(Subject) /\ ~Delegates(MetaMethod)
  <2>1. Subject \in Values
    BY <1>1, CurrentFacts
  <2>2. Delegates(Subject) /\ MetaMethod = Returned(Subject)
    BY <1>1 DEF Delegates, MetaMethod
  <2>3. QED
    BY <2>1, <2>2 DEF ShortChains
<1>5. /\ Top = Current.top /\ Top \in Nat /\ Current.depth \in Nat /\ Budget \in Nat
      /\ Current.top + 3 * Current.depth <= Budget
  BY <1>1, <1>4, CurrentFacts, ExtraFacts, InnermostRoom
<1>6. Len(lua') = Top + 1 /\ lua'[Len(lua')] = method /\ method.val = MetaMethod
  <2>1. method \in Slot /\ method.val = MetaMethod
    BY <1>1 DEF Hold, Slot, Tags
  <2>2. lua \in Seq(Slot) /\ Len(lua) = Top
    BY <1>1 DEF StackTypes, Top
  <2> HIDE DEF method
  <2>3. QED
    BY <1>2, <2>1, <2>2, PushFacts
<1> HIDE DEF method
<1>7. \A k \in 1..Len(calls') : Room(k)'
  <2>1. Len(lua') \in Nat /\ Len(lua') + 3 * Current.depth <= Budget + 1
    BY <1>5, <1>6
  <2>2. ~Delegates(lua'[Len(lua')].val)
    BY <1>4, <1>6
  <2>3. "meta" \in {"value", "meta"} /\ 0 \in Nat
    OBVIOUS
  <2>4. Len(lua') + 3 * Current.depth <= Budget + IF "meta" = "meta" THEN 1 ELSE 0
    BY <2>1
  <2>5. QED
    BY <1>1, <1>2, <1>3, <1>5, <2>1, <2>2, <2>3, <2>4, RoomNests
<1>8. Top + 2 \in Nat /\ Top + 2 <= Budget + 2
  BY <1>5
<1>9. QED
  BY <1>1, <1>2, <1>3, <1>7, <1>8, ConvertLowBase

LEMMA ConvertLow == ASSUME ShortChains, LowInv, Convert PROVE LowInv'
<1>1. CASE Raise
  <2>1. calls' = <<>> /\ pc' = "left"
    BY <1>1 DEF Raise
  <2>2. Len(calls') = 0 /\ StackInv'
    BY <1>1, <2>1, RaiseInv DEF LowInv
  <2>3. QED
    BY <2>1, <2>2 DEF LowInv, Low, HighBounded
<1>2. QED
  BY <1>1, EndLow, OpenLow, NextLow, PopValueLow, CallMetaLow DEF Convert

(* Where no activation is left, only the bound itself is to be kept.       *)
LEMMA AloneLow ==
    ASSUME StackInv', calls' = <<>>,
           pc' = "results" => Top' <= req'.base + MaxResults,
           pc' \in {"left", "crashed"} \/ high' <= req'.base + 6 \/ high' <= Budget' + 2
    PROVE  LowInv'
<1>1. Len(calls') = 0 /\ Ground' = Top'
  BY DEF Ground
<1>2. HighBounded'
  <2>1. HighBounded' <=> (pc' \notin {"left", "crashed"} =>
                            high' <= req'.base + 6 \/ high' <= Budget' + 2)
    BY DEF HighBounded, Budget, Most
  <2>2. QED
    BY <2>1
<1>3. QED
  BY <1>1, <1>2 DEF LowInv, Low

LEMMA StartLow ==
    ASSUME StackInv', NEW idx \in Nat, NEW depth \in Nat, idx \in 1..Top',
           calls' = <<ToJson(idx, depth, Top')>>,
           depth = req'.depth, Top' <= req'.base + Most,
           pc' = "results" => Top' <= req'.base + MaxResults,
           high' <= req'.base + 6 \/ high' <= Budget' + 2
    PROVE  LowInv'
<1> DEFINE a == ToJson(idx, depth, Top')
<1>1. a.top = Top' /\ a.depth = depth
  BY DEF ToJson
<1>2. StackTypes' /\ Top' \in Nat
  BY DEF StackInv, StackTypes, Top
<1>3. Ground' = Top'
  <2>1. calls' # <<>> /\ calls'[1].top = Top'
    BY DEF ToJson
  <2>2. QED
    BY <2>1 DEF Ground
<1> HIDE DEF a
<1>4. calls' = <<a>>
  BY DEF a
<1>5. Len(calls') = 1 /\ calls'[1] = a
  BY <1>4
<1>6. ASSUME NEW k \in 1..Len(calls') PROVE Room(k)'
  <2>1. k = 1
    BY <1>5, <1>6
  <2>2. ~OfMeta(k)'
    BY <2>1 DEF OfMeta
  <2>3. req'.base \in Nat /\ Most \in Nat /\ req'.depth \in Nat
    BY <1>2, MostFacts DEF StackTypes, Request
  <2>4. calls'[k].top + 3 * calls'[k].depth <= Budget'
    BY <1>1, <1>2, <1>5, <2>1, <2>3 DEF Budget
  <2>5. QED
    BY <2>2, <2>3, <2>4, MostFacts DEF Room, Budget
<1>7. HighBounded'
  <2>1. HighBounded' <=> (pc' \notin {"left", "crashed"} =>
                            high' <= req'.base + 6 \/ high' <= Budget' + 2)
    BY DEF HighBounded, Budget, Most
  <2>2. QED
    BY <2>1
<1>8. QED
  BY <1>3, <1>6, <1>7 DEF LowInv, Low

LEMMA InitLow == ASSUME Init PROVE LowInv
<1>1. StackInv /\ calls = <<>> /\ pc = "idle" /\ high = 0 /\ req.base = 0
  BY InitInv DEF Init, NoRequest
<1>2. Len(calls) = 0
  BY <1>1
<1>3. HighBounded
  BY <1>1 DEF HighBounded
<1>4. QED
  BY <1>1, <1>2, <1>3 DEF LowInv, Low

LEMMA NextPauseLow == ASSUME LowInv, NextPause PROVE LowInv'
<1>1. StackInv'
  BY NextPauseInv DEF LowInv
<1>2. calls' = <<>> /\ pc' = "idle" /\ high' = 0 /\ req'.base = 0
  BY DEF NextPause, NoRequest
<1>3. QED
  BY <1>1, <1>2, AloneLow

LEMMA BeginLow == ASSUME LowInv, Begin PROVE LowInv'
<1>1. StackInv /\ StackInv'
  BY BeginInv DEF LowInv
<1>2. PICK depth \in Depths :
          \/ \E stack_no \in 0..Frames :
               \/ Eval(stack_no, depth)
               \/ \E vs \in Lists : \/ GetLocalVariable(stack_no, depth, vs)
                                    \/ GetUpvalues(stack_no, depth, vs)
          \/ GetGlobal(depth)
  BY DEF Begin
<1>3. /\ pc = "idle" /\ UNCHANGED calls /\ pc' \in {"idle", "env", "list"}
      /\ req'.base = Top /\ high' \in {Top, Top + 1}
  BY <1>2 DEF Eval, GetLocalVariable, GetUpvalues, GetGlobal, NoRequest
<1>4. calls' = <<>> /\ Top \in Nat
  BY <1>1, <1>3, IdleFacts DEF StackInv, StackTypes, Top
<1>5. high' <= req'.base + 6
  BY <1>3, <1>4
<1>6. QED
  BY <1>1, <1>3, <1>4, <1>5, AloneLow

LEMMA CreateEvalEnvLow == ASSUME LowInv, CreateEvalEnv PROVE LowInv'
<1>1. StackInv /\ StackInv' /\ HighBounded
  BY CreateEvalEnvInv DEF LowInv, Low
<1>2. /\ pc = "env" /\ calls' = <<>> /\ calls = <<>> /\ pc' = "call"
      /\ high' = Higher(Top + 5) /\ req' = req
  BY <1>1, IdleFacts DEF CreateEvalEnv
<1>3. /\ StackTypes /\ Top = req.base + 1 /\ req.base \in Nat /\ high \in Nat
      /\ high <= req.base + 6 \/ high <= Budget + 2
  BY <1>1, <1>2, AloneFacts, BudgetFacts DEF Base
<1>4. Budget' = Budget /\ (high' <= req.base + 6 \/ high' <= Budget + 2)
  BY <1>2, <1>3 DEF Budget, Higher
<1>5. QED
  BY <1>1, <1>2, <1>4, AloneLow

LEMMA CallLow == ASSUME LowInv, Call PROVE LowInv'
<1>1. StackInv /\ StackInv' /\ HighBounded
  BY CallInv DEF LowInv, Low
<1>2. pc = "call" /\ calls = <<>> /\ calls' = <<>>
  BY <1>1, IdleFacts DEF Call
<1>3. /\ StackTypes /\ Top = req.base + 2 /\ req.base \in Nat /\ high \in Nat
      /\ lua \in Seq(Slot) /\ Len(lua) = Top /\ req \in Request /\ req.depth \in Nat
      /\ high <= req.base + 6 \/ high <= Budget + 2
  BY <1>1, <1>2, AloneFacts, BudgetFacts DEF Base, StackTypes
<1> DEFINE under == SubSeq(lua, 1, Top - 2)
<1>4. CASE \E vs \in Results :
             /\ lua' = under \o [i \in 1..Len(vs) |-> Hold("result", vs[i])]
             /\ pc' = "results" /\ req' = [req EXCEPT !.next = req.base + 1]
             /\ high' = Higher(Top - 2 + Len(vs))
  <2>1. PICK vs \in Results :
             /\ lua' = under \o [i \in 1..Len(vs) |-> Hold("result", vs[i])]
             /\ pc' = "results" /\ req' = [req EXCEPT !.next = req.base + 1]
             /\ high' = Higher(Top - 2 + Len(vs))
    BY <1>4
  <2>2. Len(vs) \in Nat /\ Len(vs) <= MaxResults
    <3>1. PICK n \in 0..MaxResults : vs \in [1..n -> Values]
      BY DEF Results
    <3>2. n \in Nat /\ n <= MaxResults
      BY <3>1, EvalAssumption
    <3>3. Len(vs) = n
      BY <3>1, <3>2
    <3>4. QED
      BY <3>2, <3>3
  <2>3. under \in Seq(Slot) /\ Len(under) = req.base
    <3>1. Top - 2 = req.base /\ req.base \in 0..Len(lua)
      BY <1>3
    <3>2. SubSeq(lua, 1, req.base) \in Seq(Slot) /\ Len(SubSeq(lua, 1, req.base)) = req.base
      BY <1>3, <3>1, Prefix
    <3>3. QED
      BY <3>1, <3>2
  <2> HIDE DEF under
  <2> DEFINE held == [i \in 1..Len(vs) |-> Hold("result", vs[i])]
             Any == {Hold("result", vs[i]) : i \in 1..Len(vs)} \cup Slot
  <2>4. held \in Seq(Any) /\ Len(held) = Len(vs) /\ under \in Seq(Any)
    BY <2>2, <2>3
  <2> HIDE DEF held, Any
  <2>5. lua' = under \o held
    BY <2>1 DEF held
  <2>6. Top' = req.base + Len(vs)
    BY <2>3, <2>4, <2>5 DEF Top
  <2>7. req'.base = req.base /\ req'.depth = req.depth /\ Budget' = Budget
    <3>1. req'.base = req.base /\ req'.depth = req.depth
      BY <1>3, <2>1 DEF Request
    <3>2. QED
      BY <3>1 DEF Budget
  <2>8. high' <= req.base + 6 \/ high' <= Budget + 2
    <3>1. Budget = req.base + Most + 3 * req.depth /\ Most \in Nat /\ MaxResults <= Most
      BY MostFacts DEF Budget
    <3> DEFINE l == Len(vs)
               d == req.depth
               r == req.base
    <3> HIDE DEF l, d, r
    <3>2. r + l <= Budget + 2
      <4>1. r \in Nat /\ d \in Nat /\ l \in Nat /\ l <= MaxResults /\ MaxResults \in Nat
        BY <1>3, <2>2, EvalAssumption DEF l, d, r
      <4>2. Budget = r + Most + 3 * d
        BY <3>1 DEF d, r
      <4>3. QED
        BY <3>1, <4>1, <4>2
    <3>3. Top - 2 + Len(vs) = req.base + Len(vs)
      BY <1>3, <2>2
    <3>4. QED
      BY <1>3, <2>1, <3>2, <3>3 DEF Higher, l, r
  <2>9. Top' <= req'.base + MaxResults
    BY <1>3, <2>2, <2>6, <2>7, EvalAssumption
  <2>10. QED
    BY <1>1, <1>2, <2>7, <2>8, <2>9, AloneLow
<1>5. CASE pc' \in {"idle", "crashed"} /\ UNCHANGED <<req, high>>
  <2>1. Budget' = Budget
    BY <1>5 DEF Budget
  <2>2. QED
    BY <1>1, <1>2, <1>3, <1>5, <2>1, AloneLow
<1>6. QED
  BY <1>4, <1>5 DEF Call

LEMMA ConvertResultLow == ASSUME LowInv, ConvertResult PROVE LowInv'
<1>1. StackInv /\ StackInv' /\ HighBounded
  BY ConvertResultInv DEF LowInv, Low
<1>2. pc = "results" /\ calls = <<>> /\ UNCHANGED high
  BY DEF ConvertResult
<1>3. /\ StackTypes /\ Top \in Nat /\ req \in Request /\ high \in Nat
      /\ req.next > req.base /\ req.base \in Nat /\ req.depth \in Nat /\ req.next \in Nat
      /\ high <= req.base + 6 \/ high <= Budget + 2
  BY <1>1, <1>2, AloneFacts, BudgetFacts DEF Base, StackTypes, Request
<1>4. Top <= req.base + MaxResults
  BY <1>1, <1>2, AloneFacts DEF LowInv, Low
<1>5. CASE req.next > Top
  <2>1. pc' = "idle" /\ UNCHANGED <<calls, req>>
    BY <1>5 DEF ConvertResult
  <2>2. Budget' = Budget
    BY <2>1 DEF Budget
  <2>3. QED
    BY <1>1, <1>2, <1>3, <2>1, <2>2, AloneLow
<1>6. CASE ~(req.next > Top)
  <2>1. /\ calls' = <<ToJson(req.next, req.depth, Top)>>
        /\ req' = [req EXCEPT !.next = @ + 1] /\ UNCHANGED <<lua, pc>>
    BY <1>6 DEF ConvertResult
  <2>2. Top' = Top /\ req.next \in 1..Top
    BY <1>3, <1>6, <2>1 DEF Top
  <2>3. req'.base = req.base /\ req'.depth = req.depth /\ Budget' = Budget
    <3>1. req'.base = req.base /\ req'.depth = req.depth
      BY <1>3, <2>1 DEF Request
    <3>2. QED
      BY <3>1 DEF Budget
  <2>4. Top <= req.base + Most
    BY <1>3, <1>4, MostFacts, EvalAssumption
  <2>5. QED
    BY <1>1, <1>2, <1>3, <1>4, <2>1, <2>2, <2>3, <2>4, StartLow
<1>7. QED
  BY <1>5, <1>6

LEMMA ConvertVariableLow == ASSUME LowInv, ConvertVariable PROVE LowInv'
<1>1. StackInv /\ StackInv' /\ HighBounded
  BY ConvertVariableInv DEF LowInv, Low
<1>2. pc = "list" /\ calls = <<>>
  BY DEF ConvertVariable
<1>3. /\ StackTypes /\ Top \in Nat /\ lua \in Seq(Slot) /\ Len(lua) = Top
      /\ req \in Request /\ high \in Nat
      /\ req.base \in Nat /\ req.depth \in Nat /\ Top <= req.base + 1
      /\ high <= req.base + 6 \/ high <= Budget + 2
  BY <1>1, <1>2, AloneFacts, BudgetFacts DEF Base, StackTypes
<1>4. CASE req.rest = <<>>
  <2>1. pc' = "idle" /\ UNCHANGED <<calls, req, high>>
    BY <1>4 DEF ConvertVariable
  <2>2. Budget' = Budget
    BY <2>1 DEF Budget
  <2>3. QED
    BY <1>1, <1>2, <1>3, <2>1, <2>2, AloneLow
<1>5. CASE req.rest # <<>>
  <2>1. req' = [req EXCEPT !.rest = Tail(@)] /\ high' = Higher(Top + 1)
    BY <1>5 DEF ConvertVariable
  <2>2. req'.base = req.base /\ req'.depth = req.depth /\ Budget' = Budget
    <3>1. req'.base = req.base /\ req'.depth = req.depth
      BY <1>3, <2>1 DEF Request
    <3>2. QED
      BY <3>1 DEF Budget
  <2>3. high' <= req.base + 6 \/ high' <= Budget + 2
    BY <1>3, <2>1 DEF Higher
  <2>4. CASE Head(req.rest).temporary
    <3>1. UNCHANGED <<calls, pc>>
      BY <1>5, <2>4 DEF ConvertVariable
    <3>2. QED
      BY <1>1, <1>2, <2>2, <2>3, <3>1, AloneLow
  <2>5. CASE ~Head(req.rest).temporary
    <3> DEFINE held == Hold("variable", Head(req.rest).val)
    <3>1. /\ lua' = Append(lua, held) /\ pc' = "variable"
          /\ calls' = <<ToJson(Top + 1, req.depth, Top + 1)>>
      BY <1>5, <2>5 DEF ConvertVariable
    <3>2. lua' \in Seq(Slot)
      BY <1>1 DEF StackInv, StackTypes
    <3> HIDE DEF held
    <3>3. Top' = Top + 1 /\ Top + 1 \in Nat
      BY <1>3, <3>1 DEF Top
    <3>4. Top + 1 \in 1..Top' /\ Top' <= req.base + Most /\ calls' = <<ToJson(Top + 1, req.depth, Top')>>
      BY <1>3, <3>1, <3>3, MostFacts
    <3>5. QED
      BY <1>1, <1>3, <2>2, <2>3, <3>1, <3>3, <3>4, StartLow
  <2>6. QED
    BY <2>4, <2>5
<1>6. QED
  BY <1>4, <1>5

LEMMA PopVariableLow == ASSUME LowInv, PopVariable PROVE LowInv'
<1>1. StackInv /\ StackTypes /\ StackInv' /\ HighBounded
  BY PopVariableInv DEF LowInv, Low, StackInv
<1>2. pc = "variable" /\ calls' = <<>> /\ pc' = "list" /\ UNCHANGED <<req, high>>
  BY DEF PopVariable
<1>3. Budget' = Budget /\ (high <= req.base + 6 \/ high <= Budget + 2)
  BY <1>1, <1>2, BudgetFacts DEF Budget
<1>4. QED
  BY <1>1, <1>2, <1>3, AloneLow

LEMMA UnchangedLow == ASSUME LowInv, UNCHANGED vars PROVE LowInv'
<1>1. StackInv' /\ UNCHANGED <<lua, calls, pc, req, high, failed>>
  BY UnchangedInv DEF LowInv, vars
<1>2. QED
  BY <1>1 DEF LowInv, Low, Room, OfMeta, Budget, HighBounded, Ground, Top

(* If no metamethod returns a userdata that has such a metamethod too, the *)
(* stack never gets higher above the errors of the failed evaluations than *)
(* what the results and the depth of the request allow: the conversion of  *)
(* a value of any shape, in any nesting, needs three slots for each level. *)
THEOREM StackHighBounded == ASSUME ShortChains PROVE Spec => []HighBounded
<1>1. Init => LowInv
  BY InitLow
<1>2. LowInv /\ [Next]_vars => LowInv'
  BY NextPauseLow, BeginLow, CreateEvalEnvLow, CallLow, ConvertResultLow,
     ConvertVariableLow, PopVariableLow, ConvertLow, UnchangedLow DEF Next, Handle
<1>3. LowInv => HighBounded
  BY DEF LowInv, Low
<1>4. QED
  BY <1>1, <1>2, <1>3, PTL DEF Spec
=============================================================================
