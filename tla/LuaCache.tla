------------------------------ MODULE LuaCache ------------------------------
(***************************************************************************)
(* The decompiled Lua of the game: the files under ./lua, the digest file  *)
(* beside them, the start-up of main.cpp that compares the digest with the *)
(* game executable, and the lua_load hook that fills and uses the files.   *)
(*                                                                         *)
(* The files outlive the process.  The process may end or crash between    *)
(* any two steps, the game may be updated, or set back to an older version,*)
(* while it is not running, and the user edits the files at any time and   *)
(* deletes them while the game is not running.  A file may be impossible   *)
(* to create or to fill: another program has it open, the disk is full.    *)
(***************************************************************************)
CONSTANTS
    Chunks,     \* the chunks of the game, shipped as bytecode
    Loose,      \* chunks of mods and of the disk, plaintext
    Versions,   \* the versions of the game; each has Lua of its own
    None        \* no file, no digest, nothing loaded

(* A text: the version it comes from, and what became of it.  "cut" is a   *)
(* file that was created and not yet filled, "shipped" what the game       *)
(* itself has, "mangled" what decompiling plaintext yields, "spent" what a *)
(* reader gives that has been read before.                                 *)
Kinds == {"whole", "edited", "cut", "shipped", "mangled", "spent"}
Text == [of : Versions, is : Kinds]

ASSUME CacheAssumption ==
    /\ None \notin Versions /\ None \notin Text
    /\ Chunks \cap Loose = {}

VARIABLES
    exe,      \* the version of the installed game
    md5,      \* dieselluadebugger_raidmd5.txt
    file,     \* the file of each chunk
    pc,       \* where the process is: see PCs
    force,    \* g_force_new_decompilation
    never,    \* g_never_update_lua
    chunk,    \* the chunk being loaded
    loaded,   \* what the process last got for each chunk (history)
    missed,   \* chunks a run ought to have decompiled anew but did not (history)
    refused   \* chunks whose file this run could not write (history)

vars == <<exe, md5, file, pc, force, never, chunk, loaded, missed, refused>>
disk == <<exe, md5, file>>
flags == <<force, never>>

All == Chunks \cup Loose
PCs == {"off", "md5", "run", "open", "write", "read", "reread"}

Current(is) == [of |-> exe, is |-> is]

-----------------------------------------------------------------------------
Init ==
    /\ exe \in Versions
    /\ md5 = None
    /\ file = [c \in All |-> None]
    /\ pc = "off"
    /\ force = FALSE /\ never = FALSE
    /\ chunk \in All
    /\ loaded = [c \in All |-> None]
    /\ missed = {} /\ refused = {}

(* Mutant of ForceNow: the digest is not looked at.                        *)
ForceArgumentOnly(forced, stopped, digest) == forced /\ ~stopped

(* The value setup_debugger() leaves in g_force_new_decompilation.         *)
ForceNow(forced, stopped, digest) == (forced \/ digest # exe) /\ ~stopped

(* setup_debugger() with the two options given or not.  If the digest      *)
(* differs its file is opened, which empties it.                           *)
Start(forced, stopped) ==
    /\ pc = "off"
    /\ force' = ForceNow(forced, stopped, md5)
    /\ never' = stopped
    /\ pc' = IF md5 # exe THEN "md5" ELSE "run"
    /\ md5' = IF md5 # exe THEN None ELSE md5
    /\ loaded' = [c \in All |-> None] /\ refused' = {}
    /\ UNCHANGED <<exe, file, chunk, missed>>

(* Mutant of WriteMd5: the file is opened to append.                       *)
WriteMd5Appends ==
    /\ pc = "md5"
    /\ md5' = <<md5, exe>>
    /\ pc' = "run"
    /\ UNCHANGED <<exe, file, flags, chunk, loaded, missed, refused>>

WriteMd5 ==
    /\ pc = "md5"
    /\ md5' = exe
    /\ pc' = "run"
    /\ UNCHANGED <<exe, file, flags, chunk, loaded, missed, refused>>

(* Mutants of ShouldDecompile: a file is never written over; the options   *)
(* are looked at in the other order.                                       *)
ShouldDecompileMissing(c) == ~never /\ c \notin Loose /\ file[c] = None
ShouldDecompileForgetsNever(c) == force \/ (c \notin Loose /\ file[c] = None)

(* should_decompile_file().  The test of the install path is always true:  *)
(* it takes a position, or npos, for a truth value.                        *)
ShouldDecompile(c) == ~never /\ (force \/ (c \notin Loose /\ file[c] = None))

(* The game loads a chunk: lua_load_h().                                   *)
Load(c) ==
    /\ pc = "run"
    /\ chunk' = c
    /\ pc' = IF ShouldDecompile(c) THEN "open" ELSE "read"
    /\ UNCHANGED <<disk, flags, loaded, missed, refused>>

(* decompile_buffer(): the file is opened, which empties it.               *)
OpenFile ==
    /\ pc = "open"
    /\ file' = [file EXCEPT ![chunk] = Current("cut")]
    /\ pc' = "write"
    /\ UNCHANGED <<exe, md5, flags, chunk, loaded, missed, refused>>

Decompiled(c) == Current(IF c \in Loose THEN "mangled" ELSE "whole")

(* ... and the decompiled text is written.                                 *)
WriteFile ==
    /\ pc = "write"
    /\ file' = [file EXCEPT ![chunk] = Decompiled(chunk)]
    /\ pc' = "read"
    /\ missed' = missed \ {chunk}
    /\ UNCHANGED <<exe, md5, flags, chunk, loaded, refused>>

(* The file cannot be created, or not filled; nobody looks.                *)
WritingFails ==
    /\ pc \in {"open", "write"}
    /\ pc' = "reread"
    /\ refused' = refused \cup {chunk}
    /\ UNCHANGED <<disk, flags, chunk, loaded, missed>>

(* The text comes from the file if there is one, else from the game, whose *)
(* reader may have nothing to give if decompile_buffer() has used it up.   *)
Read ==
    /\ pc \in {"read", "reread"}
    /\ \E is \in {"shipped"} \cup {k \in {"spent"} : pc = "reread"} :
         loaded' = [loaded EXCEPT ![chunk] =
                      IF file[chunk] = None THEN Current(is) ELSE file[chunk]]
    /\ pc' = "run"
    /\ UNCHANGED <<disk, flags, chunk, missed, refused>>

(* The game ends, or crashes in the middle of anything.  The files of an   *)
(* older version that this run knew of stay.                               *)
Stop ==
    /\ pc # "off"
    /\ pc' = "off"
    /\ missed' = IF pc = "md5" THEN missed
                 ELSE missed \cup {c \in Chunks : file[c] # None /\ file[c].of # exe}
    /\ UNCHANGED <<disk, flags, chunk, loaded, refused>>

(* The game is updated, or set back, while it is not running.              *)
Update(v) ==
    /\ pc = "off" /\ v # exe
    /\ exe' = v
    /\ UNCHANGED <<md5, file, pc, flags, chunk, loaded, missed, refused>>

(* The user edits a file the decompiler is done with.                      *)
Edit(c) ==
    /\ file[c] # None /\ file[c].is \in {"whole", "edited"}
    /\ file' = [file EXCEPT ![c].is = "edited"]
    /\ UNCHANGED <<exe, md5, pc, flags, chunk, loaded, missed, refused>>

(* The user deletes the folder ./lua.                                      *)
Delete ==
    /\ pc = "off"
    /\ file' = [c \in All |-> None] /\ md5' = None
    /\ missed' = {}
    /\ UNCHANGED <<exe, pc, flags, chunk, loaded, refused>>

Process ==
    \/ \E forced, stopped \in BOOLEAN : Start(forced, stopped)
    \/ \E c \in All : Load(c)
    \/ WriteMd5 \/ OpenFile \/ WriteFile \/ WritingFails \/ Read \/ Stop

User == Delete \/ (\E v \in Versions : Update(v)) \/ (\E c \in Chunks : Edit(c))

Next == Process \/ User
Spec == Init /\ [][Next]_vars

-----------------------------------------------------------------------------
(* Properties.                                                             *)

(* Every part of the state has its type.                                   *)
TypeOK ==
    /\ exe \in Versions /\ md5 \in Versions \cup {None}
    /\ file \in [All -> Text \cup {None}]
    /\ pc \in PCs
    /\ force \in BOOLEAN /\ never \in BOOLEAN
    /\ chunk \in All
    /\ loaded \in [All -> Text \cup {None}]
    /\ missed \subseteq Chunks /\ refused \subseteq All

(* A run that forces decompilation only executes Lua of the installed      *)
(* version, in full, whatever earlier runs, crashes and updates have left  *)
(* on the disk, but for chunks whose file it could not write: of these it  *)
(* may execute an old version, an empty file or nothing.                   *)
ForcedRunIsCurrent ==
    force /\ pc # "off" =>
        \A c \in Chunks \ refused : loaded[c] # None =>
            loaded[c].of = exe /\ loaded[c].is \in {"whole", "edited"}

(* A file of another version is never there unnoticed: the next start sees *)
(* another digest, or this run decompiles anew whatever it loads, or it is *)
(* one that a run which knew of the update did not get to.                 *)
Stale(c) == file[c] # None /\ file[c].of # exe
StaleHasExcuse ==
    \A c \in Chunks : Stale(c) =>
        \/ md5 # exe
        \/ pc # "off" /\ (force \/ never)
        \/ c \in missed

(* With --stop-lua-updates the mod leaves every file alone; without it, a  *)
(* file that was edited, or is in use, is written over only by a run that  *)
(* forces decompilation.                                                   *)
EditsKept ==
    [][\A c \in Chunks : file'[c] # file[c] =>
         \/ Delete \/ Edit(c)
         \/ ~never /\ (force \/ file[c] = None \/ file[c].is = "cut")]_vars

(* main.cpp: "lua will be force decompiled if raid's executable updates".  *)
(* Unless told to stop, the mod runs no Lua of another version.            *)
LoadedIsCurrent ==
    pc # "off" /\ ~never =>
        \A c \in Chunks : loaded[c] # None => loaded[c].of = exe
=============================================================================
