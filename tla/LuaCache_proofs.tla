--------------------------- MODULE LuaCache_proofs ---------------------------
(***************************************************************************)
(* Theorems about LuaCache, for any chunks and versions of the game.       *)
(*                                                                         *)
(* ForcedRunIsCurrent needs to know what the file of the chunk being       *)
(* loaded holds (FreshFile).  StaleHasExcuse compares a file with the      *)
(* executable, which an update changes at once; the inductive invariant    *)
(* compares it with the digest (OldHasExcuse), which only a start changes. *)
(***************************************************************************)
EXTENDS LuaCache, TLAPS

InSync(t) == t.of = exe /\ t.is \in {"whole", "edited"}

(* In a run that forces, the chunk being read has just been decompiled.    *)
FreshFile ==
    force /\ pc = "read" /\ chunk \in Chunks => file[chunk] # None /\ InSync(file[chunk])

ForcedLoads ==
    force /\ pc # "off" =>
        \A c \in Chunks \ refused : loaded[c] # None => InSync(loaded[c])

(* What setup_debugger() establishes.                                      *)
Started ==
    /\ force => ~never
    /\ pc = "md5" => md5 = None /\ (force \/ never)
    /\ pc \in {"run", "open", "write", "read", "reread"} => md5 = exe

(* A file of a version other than the digest's has the excuse.             *)
OldHasExcuse ==
    \A c \in Chunks : file[c] # None /\ file[c].of # md5 =>
        \/ md5 = None
        \/ pc # "off" /\ (force \/ never)
        \/ c \in missed

(* The decompiler at work: it was asked to, and the file is its own.       *)
Decompiling ==
    /\ pc \in {"open", "write"} => ~never
    /\ pc = "open" => force \/ file[chunk] = None
    /\ pc = "write" => file[chunk].is = "cut"
    /\ pc = "reread" => chunk \in refused

CacheInv == TypeOK /\ FreshFile /\ ForcedLoads /\ Started /\ OldHasExcuse /\ Decompiling

-----------------------------------------------------------------------------
LEMMA CacheInitInv == Init => CacheInv
BY CacheAssumption DEF Init, CacheInv, TypeOK, PCs, Text, Kinds, All, FreshFile, ForcedLoads,
   Started, OldHasExcuse, Decompiling

(* Between two steps of a load only one file and one loaded text change.   *)
LEMMA CacheType == ASSUME CacheInv, [Next]_vars PROVE TypeOK'
<1>1. TypeOK /\ CacheInv
  BY DEF CacheInv
<1>2. ASSUME NEW is \in Kinds PROVE Current(is) \in Text
  BY <1>1 DEF Current, Text, TypeOK
<1>3. ASSUME NEW forced \in BOOLEAN, NEW stopped \in BOOLEAN, Start(forced, stopped)
      PROVE  TypeOK'
  BY <1>1, <1>3 DEF TypeOK, Start, ForceNow, PCs
<1>4. CASE WriteMd5
  BY <1>1, <1>4 DEF TypeOK, WriteMd5, PCs, flags
<1>5. ASSUME NEW c \in All, Load(c) PROVE TypeOK'
  BY <1>1, <1>5 DEF TypeOK, Load, PCs, flags, disk
<1>6. CASE OpenFile
  <2>1. file' \in [All -> Text \cup {None}]
    BY <1>1, <1>2, <1>6 DEF TypeOK, OpenFile, Kinds
  <2>2. QED
    BY <1>1, <1>6, <2>1 DEF TypeOK, OpenFile, PCs, flags
<1>7. CASE WriteFile
  <2>1. Decompiled(chunk) \in Text
    BY <1>2 DEF Decompiled, Kinds
  <2>2. file' \in [All -> Text \cup {None}]
    BY <1>1, <1>7, <2>1 DEF TypeOK, WriteFile
  <2>3. QED
    BY <1>1, <1>7, <2>2 DEF TypeOK, WriteFile, PCs, flags
<1>8. CASE Read
  <2>1. loaded' \in [All -> Text \cup {None}]
    <3>1. PICK is \in Kinds : loaded' = [loaded EXCEPT ![chunk] =
                                  IF file[chunk] = None THEN Current(is) ELSE file[chunk]]
      BY <1>8 DEF Read, Kinds
    <3>2. QED
      BY <1>1, <1>2, <3>1 DEF TypeOK
  <2>2. QED
    BY <1>1, <1>8, <2>1 DEF TypeOK, Read, PCs, flags, disk
<1>9. CASE Stop \/ WritingFails
  BY <1>1, <1>9 DEF TypeOK, Stop, WritingFails, PCs, flags, disk
<1>10. CASE Delete
  BY <1>1, <1>10 DEF TypeOK, Delete, flags
<1>11. ASSUME NEW v \in Versions, Update(v) PROVE TypeOK'
  BY <1>1, <1>11 DEF TypeOK, Update, flags
<1>12. ASSUME NEW c \in Chunks, Edit(c) PROVE TypeOK'
  <2>1. [file[c] EXCEPT !.is = "edited"] \in Text
    BY <1>1, <1>12 DEF TypeOK, Edit, Text, Kinds, All
  <2>2. file' \in [All -> Text \cup {None}]
    BY <1>1, <1>12, <2>1 DEF TypeOK, Edit
  <2>3. QED
    BY <1>1, <1>12, <2>2 DEF TypeOK, Edit, flags
<1>13. CASE UNCHANGED vars
  BY <1>1, <1>13 DEF TypeOK, vars
<1>14. QED
  BY <1>3, <1>4, <1>5, <1>6, <1>7, <1>8, <1>9, <1>10, <1>11, <1>12, <1>13
     DEF Next, Process, User

(* What an edit leaves of a file.                                          *)
LEMMA EditFacts ==
    ASSUME TypeOK, NEW c \in Chunks, Edit(c), NEW d \in Chunks
    PROVE  /\ file'[d] = None <=> file[d] = None
           /\ file[d] # None => file'[d].of = file[d].of
           /\ InSync(file[d]) /\ file[d] # None => InSync(file[d])'
<1>1. file' = [file EXCEPT ![c].is = "edited"] /\ exe' = exe /\ c \in All /\ d \in All
  BY DEF Edit, All
<1>2. file[c] \in Text /\ file[c] # None
  BY <1>1 DEF TypeOK, Edit
<1>3. CASE d # c
  BY <1>1, <1>3 DEF TypeOK, InSync
<1>4. CASE d = c
  <2>1. file'[c] = [file[c] EXCEPT !.is = "edited"]
    BY <1>1 DEF TypeOK
  <2>2. file'[c] \in Text /\ file'[c].of = file[c].of /\ file'[c].is = "edited"
    BY <1>2, <2>1 DEF Text, Kinds
  <2>3. QED
    BY <1>1, <1>2, <1>4, <2>2, CacheAssumption DEF InSync
<1>5. QED
  BY <1>3, <1>4

LEMMA FreshFileInv == ASSUME CacheInv, [Next]_vars PROVE FreshFile'
<1>1. TypeOK /\ FreshFile /\ Started
  BY DEF CacheInv
<1>2. CASE WriteFile
  <2>1. file'[chunk] = Decompiled(chunk) /\ chunk' = chunk /\ exe' = exe
    BY <1>1, <1>2 DEF TypeOK, WriteFile
  <2>2. chunk \in Chunks => Decompiled(chunk) = Current("whole")
    BY CacheAssumption DEF Decompiled
  <2>3. exe \in Versions /\ Current("whole") \in Text
    BY <1>1 DEF TypeOK, Current, Text, Kinds
  <2>4. QED
    BY <2>1, <2>2, <2>3, CacheAssumption DEF FreshFile, InSync, Current
<1>3. ASSUME NEW c \in All, Load(c) PROVE FreshFile'
  BY <1>1, <1>3 DEF FreshFile, Load, ShouldDecompile, Started, flags
<1>4. ASSUME NEW c \in Chunks, Edit(c) PROVE FreshFile'
  <2>1. UNCHANGED <<pc, force, chunk>>
    BY <1>4 DEF Edit, flags
  <2>2. SUFFICES ASSUME force, pc = "read", chunk \in Chunks
                 PROVE  file'[chunk] # None /\ InSync(file[chunk])'
    BY <2>1 DEF FreshFile
  <2>3. file[chunk] # None /\ InSync(file[chunk])
    BY <1>1, <2>2 DEF FreshFile
  <2>4. QED
    BY <1>1, <1>4, <2>1, <2>2, <2>3, EditFacts
<1>5. CASE WriteMd5 \/ OpenFile \/ WritingFails \/ Read \/ Stop \/ Delete
  BY <1>5 DEF FreshFile, WriteMd5, OpenFile, WritingFails, Read, Stop, Delete
<1>6. ASSUME NEW v \in Versions, Update(v) PROVE FreshFile'
  BY <1>6 DEF FreshFile, Update
<1>7. ASSUME NEW forced \in BOOLEAN, NEW stopped \in BOOLEAN, Start(forced, stopped)
      PROVE  FreshFile'
  BY <1>7 DEF FreshFile, Start
<1>8. CASE UNCHANGED vars
  BY <1>1, <1>8 DEF FreshFile, InSync, vars
<1>9. QED
  BY <1>2, <1>3, <1>4, <1>5, <1>6, <1>7, <1>8 DEF Next, Process, User

LEMMA ForcedLoadsInv == ASSUME CacheInv, [Next]_vars PROVE ForcedLoads'
<1>1. TypeOK /\ FreshFile /\ ForcedLoads /\ Decompiling
  BY DEF CacheInv
<1>2. CASE Read
  <2>1. UNCHANGED <<exe, force, file, refused>> /\ pc \in {"read", "reread"}
    BY <1>2 DEF Read, disk, flags
  <2>2. SUFFICES ASSUME force, NEW c \in Chunks \ refused, loaded'[c] # None
                 PROVE  InSync(loaded'[c])
    BY <2>1 DEF ForcedLoads, InSync
  <2>3. CASE c = chunk
    <3>1. pc = "read"
      BY <1>1, <2>1, <2>3 DEF Decompiling
    <3>2. file[chunk] # None /\ InSync(file[chunk])
      BY <1>1, <2>2, <2>3, <3>1 DEF FreshFile
    <3>3. loaded'[c] = file[chunk]
      BY <1>1, <1>2, <2>3, <3>2 DEF TypeOK, Read
    <3>4. QED
      BY <3>2, <3>3
  <2>4. CASE c # chunk
    <3>1. loaded'[c] = loaded[c]
      BY <1>1, <1>2, <2>4 DEF TypeOK, Read, All
    <3>2. QED
      BY <1>1, <2>1, <2>2, <3>1 DEF ForcedLoads
  <2>5. QED
    BY <2>3, <2>4
<1>3. ASSUME NEW forced \in BOOLEAN, NEW stopped \in BOOLEAN, Start(forced, stopped)
      PROVE  ForcedLoads'
  BY <1>3 DEF ForcedLoads, Start, All
<1>4. CASE Stop \/ Delete
  BY <1>4 DEF ForcedLoads, Stop, Delete
<1>5. ASSUME NEW v \in Versions, Update(v) PROVE ForcedLoads'
  BY <1>5 DEF ForcedLoads, Update
<1>6. ASSUME UNCHANGED <<exe, force, loaded>>, refused \subseteq refused', pc = "off" => pc' = "off"
      PROVE  ForcedLoads'
  BY <1>1, <1>6 DEF ForcedLoads, InSync
<1>7. ASSUME NEW c \in Chunks, Edit(c) PROVE ForcedLoads'
  BY <1>6, <1>7 DEF Edit, flags
<1>8. ASSUME NEW c \in All, Load(c) PROVE ForcedLoads'
  BY <1>6, <1>8 DEF Load, flags, disk
<1>9. CASE WriteMd5 \/ OpenFile \/ WriteFile \/ WritingFails
  BY <1>6, <1>9 DEF WriteMd5, OpenFile, WriteFile, WritingFails, flags, disk
<1>10. CASE UNCHANGED vars
  BY <1>6, <1>10 DEF vars
<1>11. QED
  BY <1>2, <1>3, <1>4, <1>5, <1>7, <1>8, <1>9, <1>10 DEF Next, Process, User

LEMMA StartedInv == ASSUME CacheInv, [Next]_vars PROVE Started'
<1>1. TypeOK /\ Started
  BY DEF CacheInv
<1>2. ASSUME NEW forced \in BOOLEAN, NEW stopped \in BOOLEAN, Start(forced, stopped)
      PROVE  Started'
  BY <1>1, <1>2 DEF TypeOK, Started, Start, ForceNow
<1>3. ASSUME NEW c \in All, Load(c) PROVE Started'
  BY <1>1, <1>3 DEF Started, Load, flags, disk
<1>4. CASE WriteMd5 \/ OpenFile \/ WriteFile \/ WritingFails \/ Read \/ Stop \/ Delete
  BY <1>1, <1>4 DEF Started, WriteMd5, OpenFile, WriteFile, WritingFails, Read, Stop, Delete,
                    flags, disk
<1>5. ASSUME NEW v \in Versions, Update(v) PROVE Started'
  BY <1>1, <1>5 DEF Started, Update, flags
<1>6. ASSUME NEW c \in Chunks, Edit(c) PROVE Started'
  BY <1>1, <1>6 DEF Started, Edit, flags
<1>7. CASE UNCHANGED vars
  BY <1>1, <1>7 DEF Started, vars
<1>8. QED
  BY <1>2, <1>3, <1>4, <1>5, <1>6, <1>7 DEF Next, Process, User

LEMMA OldHasExcuseInv == ASSUME CacheInv, [Next]_vars PROVE OldHasExcuse'
<1>1. TypeOK /\ Started /\ OldHasExcuse
  BY DEF CacheInv
<1>2. ASSUME NEW forced \in BOOLEAN, NEW stopped \in BOOLEAN, Start(forced, stopped)
      PROVE  OldHasExcuse'
  BY <1>1, <1>2 DEF OldHasExcuse, Start
<1>3. CASE WriteMd5
  BY <1>1, <1>3 DEF OldHasExcuse, Started, WriteMd5, flags
<1>4. CASE OpenFile \/ WriteFile
  <2>1. md5 = exe /\ md5' = md5 /\ pc' # "off" /\ UNCHANGED <<exe, force, never>>
    BY <1>1, <1>4 DEF Started, OpenFile, WriteFile, flags
  <2>2. file'[chunk].of = exe
    BY <1>1, <1>4 DEF TypeOK, OpenFile, WriteFile, Decompiled, Current
  <2>3. ASSUME NEW c \in Chunks, c # chunk
        PROVE  file'[c] = file[c] /\ (c \in missed' <=> c \in missed)
    BY <1>1, <1>4, <2>3 DEF TypeOK, OpenFile, WriteFile, All
  <2>4. pc # "off"
    BY <1>4 DEF OpenFile, WriteFile
  <2>5. QED
    BY <1>1, <2>1, <2>2, <2>3, <2>4 DEF OldHasExcuse
<1>5. CASE Stop
  <2>1. CASE pc = "md5"
    BY <1>1, <1>5, <2>1 DEF OldHasExcuse, Started, Stop, disk
  <2>2. CASE pc # "md5"
    BY <1>1, <1>5, <2>2 DEF OldHasExcuse, Started, Stop, disk, TypeOK, PCs
  <2>3. QED
    BY <2>1, <2>2
<1>6. CASE Read \/ WritingFails
  BY <1>1, <1>6 DEF OldHasExcuse, Read, WritingFails, flags, disk
<1>7. CASE Delete
  BY <1>7 DEF OldHasExcuse, Delete, All
<1>8. ASSUME NEW v \in Versions, Update(v) PROVE OldHasExcuse'
  BY <1>1, <1>8 DEF OldHasExcuse, Update, flags
<1>9. ASSUME NEW c \in Chunks, Edit(c) PROVE OldHasExcuse'
  <2>1. UNCHANGED <<md5, pc, force, never, missed>>
    BY <1>9 DEF Edit, flags
  <2>2. QED
    BY <1>1, <1>9, <2>1, EditFacts DEF OldHasExcuse
<1>10. ASSUME NEW c \in All, Load(c) PROVE OldHasExcuse'
  BY <1>1, <1>10 DEF OldHasExcuse, Load, flags, disk
<1>11. CASE UNCHANGED vars
  BY <1>1, <1>11 DEF OldHasExcuse, vars
<1>12. QED
  BY <1>2, <1>3, <1>4, <1>5, <1>6, <1>7, <1>8, <1>9, <1>10, <1>11 DEF Next, Process, User

LEMMA DecompilingInv == ASSUME CacheInv, [Next]_vars PROVE Decompiling'
<1>1. TypeOK /\ Started /\ Decompiling
  BY DEF CacheInv
<1>2. ASSUME NEW forced \in BOOLEAN, NEW stopped \in BOOLEAN, Start(forced, stopped)
      PROVE  Decompiling'
  BY <1>2 DEF Decompiling, Start
<1>3. ASSUME NEW c \in All, Load(c) PROVE Decompiling'
  BY <1>1, <1>3 DEF Decompiling, Load, ShouldDecompile, flags, disk
<1>4. CASE OpenFile
  <2>1. file'[chunk].is = "cut"
    BY <1>1, <1>4 DEF TypeOK, OpenFile, Current
  <2>2. QED
    BY <1>1, <1>4, <2>1 DEF Decompiling, OpenFile, flags
<1>5. CASE WriteMd5 \/ WriteFile \/ WritingFails \/ Read \/ Stop \/ Delete
  BY <1>5 DEF Decompiling, WriteMd5, WriteFile, WritingFails, Read, Stop, Delete, flags
<1>6. ASSUME NEW v \in Versions, Update(v) PROVE Decompiling'
  BY <1>6 DEF Decompiling, Update
<1>7. ASSUME NEW c \in Chunks, Edit(c) PROVE Decompiling'
  <2>1. UNCHANGED <<pc, force, never, chunk, refused>>
    BY <1>7 DEF Edit, flags
  <2>2. pc \in {"open", "write"} /\ file[chunk] = None => file'[chunk] = None
    BY <1>1, <1>7 DEF TypeOK, Edit
  <2>3. pc = "write" => file'[chunk].is = "cut"
    BY <1>1, <1>7 DEF TypeOK, Edit, Decompiling
  <2>4. QED
    BY <1>1, <2>1, <2>2, <2>3 DEF Decompiling
<1>8. CASE UNCHANGED vars
  BY <1>1, <1>8 DEF Decompiling, vars
<1>9. QED
  BY <1>2, <1>3, <1>4, <1>5, <1>6, <1>7, <1>8 DEF Next, Process, User

(* The one step that writes a file is the decompiler's.                    *)
LEMMA OnlyDecompilerWrites ==
    ASSUME CacheInv, [Next]_vars, NEW c \in Chunks, file'[c] # file[c]
    PROVE  \/ Delete \/ Edit(c)
           \/ ~never /\ (force \/ file[c] = None \/ file[c].is = "cut")
<1>1. TypeOK /\ Decompiling
  BY DEF CacheInv
<1>2. CASE OpenFile \/ WriteFile
  <2>1. c = chunk
    BY <1>1, <1>2 DEF TypeOK, OpenFile, WriteFile, All
  <2>2. QED
    BY <1>1, <1>2, <2>1 DEF Decompiling, OpenFile, WriteFile
<1>3. ASSUME NEW d \in Chunks, Edit(d) PROVE d = c
  BY <1>1, <1>3 DEF TypeOK, Edit, All
<1>4. CASE Process
  BY <1>2, <1>4 DEF Process, Start, Load, WriteMd5, WritingFails, Read, Stop, disk
<1>5. CASE User
  BY <1>3, <1>5 DEF User, Update
<1>6. QED
  BY <1>4, <1>5 DEF Next, vars

LEMMA CacheInvariant == Spec => []CacheInv
<1>1. CacheInv /\ [Next]_vars => CacheInv'
  BY CacheType, FreshFileInv, ForcedLoadsInv, StartedInv, OldHasExcuseInv,
     DecompilingInv DEF CacheInv
<1>2. QED
  BY <1>1, CacheInitInv, PTL DEF Spec

-----------------------------------------------------------------------------
(* The theorems.                                                           *)

(* The state always has its type.                                          *)
THEOREM CacheTypeCorrect == Spec => []TypeOK
<1>1. CacheInv => TypeOK
  BY DEF CacheInv
<1>2. QED
  BY <1>1, CacheInvariant, PTL

(* A run that forces decompilation runs Lua of the installed game only,    *)
(* whatever crashed before it, unless it cannot write the file.            *)
THEOREM ForcedRunAlwaysCurrent == Spec => []ForcedRunIsCurrent
<1>1. CacheInv => ForcedRunIsCurrent
  BY DEF CacheInv, ForcedLoads, InSync, ForcedRunIsCurrent
<1>2. QED
  BY <1>1, CacheInvariant, PTL

(* Every file of another version has one of the three excuses.             *)
THEOREM StaleAlwaysHasExcuse == Spec => []StaleHasExcuse
<1>1. CacheInv => StaleHasExcuse
  BY CacheAssumption DEF CacheInv, TypeOK, OldHasExcuse, StaleHasExcuse, Stale
<1>2. QED
  BY <1>1, CacheInvariant, PTL

(* Only a run that forces decompilation writes over a file in use, and     *)
(* none does with --stop-lua-updates.                                      *)
THEOREM EditsAlwaysKept == Spec => EditsKept
<1>1. CacheInv /\ [Next]_vars =>
        [\A c \in Chunks : file'[c] # file[c] =>
           \/ Delete \/ Edit(c)
           \/ ~never /\ (force \/ file[c] = None \/ file[c].is = "cut")]_vars
  BY OnlyDecompilerWrites
<1>2. QED
  BY <1>1, CacheInvariant, PTL DEF Spec, EditsKept
=============================================================================
