------------------------------- MODULE Naming -------------------------------
(***************************************************************************)
(* The naming service of the kernel (kernel/src/naming): the temporary     *)
(* file system, the resolution of absolute paths, the global table of      *)
(* opened objects with its handles, the system calls in front of it and    *)
(* the way the user programs (shell, ls, ntest) call them.                 *)
(*                                                                         *)
(* A path is the sequence of its components, as path.split("/") yields it: *)
(* <<"", "a">> is "/a", <<"", "">> is "/", <<"a">> the relative "a".       *)
(* A Result<usize, Errno> is the integer the system call returns: an Errno *)
(* is negative.  Objects are numbered in the order of their creation; the  *)
(* root directory is object 1.                                             *)
(***************************************************************************)
EXTENDS Integers, Sequences, SequencesExt, FiniteSets

CONSTANTS NmThreads,   \* threads that make naming system calls
          NmCfgs,      \* what the programs of a run use; a record of
                       \*   paths   the paths they name
                       \*   flags   the OpenOptions they open with, as numbers
                       \*   handles MAX_OPEN_OBJECTS
                       \*   writes  bound: writes in one behaviour
                       \*   fds     bound: handles one thread keeps
          MaxObjs,     \* bound: objects in the file system
          MaxPos,      \* bound: position within an object
          Texts,       \* byte sequences a program writes
          BufLens      \* lengths of the buffers a program reads into

VARIABLES nmCfg,    \* the configuration of this run, fixed
          objs,     \* the file system: a sequence of directories and files
          table,    \* OpenObjectTable::open_handles
          free,     \* OpenObjectTable::free_handles, 0 marks a free handle
          cwdPath,  \* CWD
          user,     \* what each thread is doing and what it was last told
          written,  \* ghost: every write so far, oldest first
          last      \* what the last step returned, and what it read from where

nmVars == <<nmCfg, objs, table, free, cwdPath, user, written, last>>

ENOENT     == -2
ENOHANDLES == -3
EBADF      == -4
ENOTDIR    == -7
EINVAL     == -8
EINVALH    == -9

IsErr(r) == r < 0

-----------------------------------------------------------------------------
(* OpenOptions: READONLY = 1, READWRITE = 2, CREATE = 3, EXCLUSIVE = 4,    *)
(* DIRECTORY = 5 overlap as bit sets; contains asks for all bits.          *)
Bit(n, b)      == (n \div 2^b) % 2
contains(n, f) == \A b \in 0..2 : Bit(f, b) = 1 => Bit(n, b) = 1
CREATE         == 3
DIRECTORY      == 5

NewDir  == [kind |-> "dir",  files |-> <<>>, data |-> <<>>]
NewFile == [kind |-> "file", files |-> <<>>, data |-> <<>>]

is_dir(o) == objs[o].kind = "dir"

(* TmpFs Dir::lookup: the first entry of that name.                        *)
LookupIn(d, name) ==
  LET k == SelectInSeq(objs[d].files, LAMBDA e : e.name = name)
  IN  IF k = 0 THEN ENOENT ELSE objs[d].files[k].obj

check_absolute_path(path) == Len(path) > 1 /\ path[1] = ""

(* The components after the root, one directory after the other; a         *)
(* component below a file, or a missing one, ends the walk with ENOENT.    *)
Step(o, name) ==
  IF IsErr(o) THEN o ELSE IF ~ is_dir(o) THEN ENOENT ELSE LookupIn(o, name)

lookup_named_object(path) ==
  IF ~ check_absolute_path(path) THEN ENOENT
  ELSE IF path = <<"", "">> THEN 1
  ELSE FoldLeft(Step, 1, Tail(path))

lookup_dir(path) ==
  LET o == lookup_named_object(path)
  IN  IF IsErr(o) THEN o ELSE IF is_dir(o) THEN o ELSE ENOTDIR

(* create_file and create_dir of the directory d, which has no such name.  *)
Created(d, name, inode) ==
  Append([objs EXCEPT ![d].files =
            Append(@, [name |-> name, obj |-> Len(objs) + 1])], inode)

(* The parent of a new object: with one component left it is the root,     *)
(* for a relative path "a/b" too.                                          *)
ParentPath(path) ==
  LET rest == Front(path)
  IN  IF Len(rest) = 1 THEN <<"", "">>
      ELSE IF rest = <<>> THEN <<"">> ELSE rest

(* The bound on the file system: an object is left for every call that may *)
(* still create one.                                                       *)
Room == Len(objs) + Cardinality({t \in NmThreads : user[t].pc # "idle"}) < MaxObjs

(* Mutant: the name is not looked up before it is added.                   *)
MakeOutcomeUnchecked(path) ==
  IF IsErr(lookup_dir(ParentPath(path))) THEN ENOTDIR ELSE 0

(* mkdir and touch: every failure is reported as ENOTDIR.                  *)
MakeOutcome(path) ==
  LET d == lookup_dir(ParentPath(path))
  IN  IF IsErr(d) \/ ~ IsErr(LookupIn(d, Last(path))) THEN ENOTDIR ELSE 0

Make(path, inode) ==
  IF IsErr(MakeOutcome(path))
    THEN UNCHANGED objs
    ELSE objs' = Created(lookup_dir(ParentPath(path)), Last(path), inode)

-----------------------------------------------------------------------------
(* The table of opened objects.                                            *)

(* lookup_opened_object: the index of the first entry with that handle.    *)
EntryOf(h) == SelectInSeq(table, LAMBDA e : e.h = h)

(* OpenedObject::new.  Two ghosts: seen, the objects this handle has       *)
(* listed, and full, how many entries there were at its first None.        *)
Opened(h, o, flags) ==
  [h |-> h, obj |-> o, pos |-> 0, flags |-> flags,
   seen |-> <<>>, full |-> -1]

FreeHandles == {h \in 0..(nmCfg.handles - 1) : free[h] = 0}
FirstFree   == CHOOSE h \in FreeHandles : \A g \in FreeHandles : h <= g

(* swap_remove(k): the last entry takes the place of entry k.              *)
swap_remove(s, k) == Front([s EXCEPT ![k] = Last(s)])

(* The slot of free_handles that free_handle(h) clears: the code uses the  *)
(* index at which the entry was found, not the handle.                     *)
ClearedSlot(k) == k - 1

Done(t)     == [user[t] EXCEPT !.pc = "idle", !.path = <<>>, !.flags = 0, !.obj = 0]
Tells(r)    == [ret |-> r, obj |-> 0, pos |-> 0, bytes |-> <<>>]
Quietly     == last' = Tells(0)
Returns(r)  == last' = Tells(r)

-----------------------------------------------------------------------------
(* api::open: look the object up and give it a handle; when that fails and *)
(* CREATE is asked for, touch the path and try once more.  The table and   *)
(* the directories have locks of their own, so other threads run between   *)
(* the steps.  A walk over several directories is one step: directories    *)
(* only ever grow.                                                         *)
Refused(t, again, path, flags, e) ==
  IF ~ again /\ contains(flags, CREATE)
    THEN /\ user' = [user EXCEPT ![t].pc = "touch", ![t].path = path, ![t].flags = flags]
         /\ Quietly
    ELSE user' = [user EXCEPT ![t] = Done(t)] /\ Returns(e)

(* open_objects::open up to the allocation of the handle.                  *)
Look(t, again, path, flags) ==
  LET o == lookup_named_object(path)
  IN  IF IsErr(o) THEN Refused(t, again, path, flags, ENOENT)
      ELSE IF contains(flags, DIRECTORY) /\ ~ is_dir(o)
        THEN Refused(t, again, path, flags, ENOTDIR)
        ELSE /\ user' = [user EXCEPT ![t] =
                    [@ EXCEPT !.pc = IF again THEN "realloc" ELSE "alloc",
                              !.path = path, !.flags = flags, !.obj = o]]
             /\ Quietly

SysOpen(t, path, flags) ==
  /\ user[t].pc = "idle" /\ Len(user[t].fds) < nmCfg.fds
  /\ contains(flags, CREATE) => Room
  /\ Look(t, FALSE, path, flags)
  /\ UNCHANGED <<objs, table, free, cwdPath, written>>

Touch(t) ==
  LET path == user[t].path IN
  /\ user[t].pc = "touch"
  /\ Make(path, NewFile)
  /\ IF IsErr(MakeOutcome(path))
       THEN user' = [user EXCEPT ![t] = Done(t)] /\ Returns(ENOTDIR)
       ELSE user' = [user EXCEPT ![t].pc = "relook"] /\ Quietly
  /\ UNCHANGED <<table, free, cwdPath, written>>

LookAgain(t) ==
  /\ user[t].pc = "relook"
  /\ Look(t, TRUE, user[t].path, user[t].flags)
  /\ UNCHANGED <<objs, table, free, cwdPath, written>>

(* allocate_handle with find_free_handle, under the lock of the table.     *)
Allocate(t) ==
  LET u == user[t] IN
  /\ u.pc \in {"alloc", "realloc"}
  /\ IF FreeHandles = {}
       THEN /\ Refused(t, u.pc = "realloc", u.path, u.flags, ENOHANDLES)
            /\ UNCHANGED <<table, free>>
       ELSE /\ free' = [free EXCEPT ![FirstFree] = 1]
            /\ table' = Append(table, Opened(FirstFree, u.obj, u.flags))
            /\ user' = [user EXCEPT ![t] =
                 [Done(t) EXCEPT !.fds = Append(@, [h |-> FirstFree, obj |-> u.obj])]]
            /\ Returns(FirstFree)
  /\ UNCHANGED <<objs, cwdPath, written>>

(* mkdir and touch as system calls.                                        *)
SysMake(t, path, inode) ==
  /\ user[t].pc = "idle" /\ Room
  /\ Make(path, inode)
  /\ Returns(MakeOutcome(path))
  /\ UNCHANGED <<table, free, cwdPath, user, written>>

(* free_handle: the thread gives the handle up whatever the answer is.     *)
SysClose(t, i) ==
  LET k == EntryOf(user[t].fds[i].h) IN
  /\ user[t].pc = "idle"
  /\ IF k = 0
       THEN UNCHANGED <<table, free>> /\ Returns(EINVALH)
       ELSE /\ table' = swap_remove(table, k)
            /\ free' = [free EXCEPT ![ClearedSlot(k)] = 0]
            /\ Returns(0)
  /\ user' = [user EXCEPT ![t].fds = RemoveAt(@, i)]
  /\ UNCHANGED <<objs, cwdPath, written>>

-----------------------------------------------------------------------------
(* Operations on an open handle.  The lock of the table is held from the   *)
(* lookup of the handle to the store of the new position, so each is one   *)
(* step.                                                                   *)

(* File::read at an offset: what is there, at most n bytes.                *)
FileRead(f, pos, n) ==
  LET data == objs[f].data
  IN  IF pos > Len(data) THEN <<>>
      ELSE SubSeq(data, pos + 1, IF Len(data) - pos < n THEN Len(data) ELSE pos + n)

(* Mutant: the data ends where the write ends.                             *)
FileWriteShrinks(f, pos, buf) ==
  [i \in 1..(pos + Len(buf)) |->
     IF i > pos THEN buf[i - pos]
     ELSE IF i <= Len(objs[f].data) THEN objs[f].data[i] ELSE 0]

(* File::write at an offset: grows the data with zeros, then overwrites.   *)
FileWrite(f, pos, buf) ==
  LET data == objs[f].data
      end  == pos + Len(buf)
      size == IF end > Len(data) THEN end ELSE Len(data)
  IN  [i \in 1..size |->
         IF i \in (pos + 1)..end THEN buf[i - pos]
         ELSE IF i <= Len(data) THEN data[i] ELSE 0]

(* File::stat: the Stat made with the file is never updated.               *)
StatSize(f) == 0

NewPos(e, origin, offset) ==
  CASE origin = "Start"   -> offset
    [] origin = "End"     -> StatSize(e.obj) + offset
    [] origin = "Current" -> e.pos + offset

(* The checks every operation on the i-th handle of thread t starts with.  *)
Uses(t, i, kind, k) ==
  /\ user[t].pc = "idle"
  /\ k = EntryOf(user[t].fds[i].h)
  /\ k # 0 /\ objs[table[k].obj].kind = kind

SysRead(t, i, n) == \E k \in DOMAIN table :
  LET bytes == FileRead(table[k].obj, table[k].pos, n) IN
  /\ Uses(t, i, "file", k)
  /\ table' = [table EXCEPT ![k].pos = @ + Len(bytes)]
  /\ last' = [ret |-> Len(bytes), obj |-> table[k].obj, pos |-> table[k].pos,
              bytes |-> bytes]
  /\ UNCHANGED <<objs, free, cwdPath, user, written>>

SysWrite(t, i, buf) == \E k \in DOMAIN table :
  LET e == table[k] IN
  /\ Uses(t, i, "file", k)
  /\ e.pos + Len(buf) <= MaxPos /\ Len(written) < nmCfg.writes
  /\ objs' = [objs EXCEPT ![e.obj].data = FileWrite(e.obj, e.pos, buf)]
  /\ table' = [table EXCEPT ![k].pos = @ + Len(buf)]
  /\ written' = Append(written, [obj |-> e.obj, pos |-> e.pos, bytes |-> buf])
  /\ Returns(Len(buf))
  /\ UNCHANGED <<free, cwdPath, user>>

SysSeek(t, i, offset, origin) == \E k \in DOMAIN table :
  /\ Uses(t, i, "file", k)
  /\ NewPos(table[k], origin, offset) <= MaxPos
  /\ table' = [table EXCEPT ![k].pos = NewPos(table[k], origin, offset)]
  /\ Returns(0)
  /\ UNCHANGED <<objs, free, cwdPath, user, written>>

(* Dir::readdir: the entry at an index, as a sequence of at most one.      *)
DirRead(d, index) ==
  IF index < Len(objs[d].files) THEN <<objs[d].files[index + 1].obj>> ELSE <<>>

(* api::readdir: 1 for a further entry, 0 for none.                        *)
Further(entry) == Len(entry)

(* readdir: the position moves on even when there is no further entry.     *)
SysReaddir(t, i) == \E k \in DOMAIN table :
  LET e     == table[k]
      entry == DirRead(e.obj, e.pos)
  IN
  /\ Uses(t, i, "dir", k)
  /\ e.pos < MaxPos
  /\ table' = [table EXCEPT ![k].pos = @ + 1, ![k].seen = @ \o entry,
                             ![k].full = IF entry # <<>> \/ @ # -1
                                           THEN @ ELSE Len(objs[e.obj].files)]
  /\ Returns(Further(entry))
  /\ UNCHANGED <<objs, free, cwdPath, user, written>>

(* An operation on a handle the table does not know, or of the wrong kind, *)
(* and sys_read or sys_write with an empty buffer.                         *)
SysRefused(t, i, kind) ==
  LET k == EntryOf(user[t].fds[i].h) IN
  /\ user[t].pc = "idle"
  /\ \/ k = 0 /\ Returns(EINVALH)
     \/ k # 0 /\ objs[table[k].obj].kind # kind /\ Returns(EBADF)
     \/ kind = "file" /\ Returns(EINVAL)
  /\ UNCHANGED <<objs, table, free, cwdPath, user, written>>

(* cd: the path becomes the working directory once it names a directory.   *)
CdOutcome(path) == IF IsErr(lookup_dir(path)) THEN ENOTDIR ELSE 0

SysCd(t, path) ==
  /\ user[t].pc = "idle"
  /\ cwdPath' = IF CdOutcome(path) = 0 THEN path ELSE cwdPath
  /\ Returns(CdOutcome(path))
  /\ UNCHANGED <<objs, table, free, user, written>>

-----------------------------------------------------------------------------
(* api::init, and the calls the threads make.                              *)
NmInit ==
  /\ nmCfg \in NmCfgs
  /\ objs = <<NewDir>>
  /\ table = <<>>
  /\ free = [h \in 0..(nmCfg.handles - 1) |-> 0]
  /\ cwdPath = <<"", "">>
  /\ user = [t \in NmThreads |->
               [pc |-> "idle", path |-> <<>>, flags |-> 0, obj |-> 0, fds |-> <<>>]]
  /\ written = <<>>
  /\ last = Tells(0)

OpenCall(t) ==
  \/ \E path \in nmCfg.paths, flags \in nmCfg.flags : SysOpen(t, path, flags)
  \/ Touch(t) \/ LookAgain(t) \/ Allocate(t)

PathCall(t) == \E path \in nmCfg.paths :
  \/ \E inode \in {NewDir, NewFile} : SysMake(t, path, inode)
  \/ SysCd(t, path)

HandleCall(t) == \E i \in DOMAIN user[t].fds :
  \/ SysClose(t, i) \/ SysReaddir(t, i)
  \/ \E n \in BufLens : SysRead(t, i, n)
  \/ \E buf \in Texts : SysWrite(t, i, buf)
  \/ \E offset \in 0..1, origin \in {"Start", "End", "Current"} :
       SysSeek(t, i, offset, origin)
  \/ \E kind \in {"file", "dir"} : SysRefused(t, i, kind)

NmNext ==
  /\ \E t \in NmThreads : OpenCall(t) \/ PathCall(t) \/ HandleCall(t)
  /\ UNCHANGED nmCfg

NmSpec == NmInit /\ [][NmNext]_nmVars

-----------------------------------------------------------------------------
(* The file system stays a tree: every object but the root is the entry of *)
(* exactly one directory, under one name, and no directory has two entries *)
(* of one name, however the create calls of the threads interleave.        *)
OneName ==
  /\ \A o \in 2..Len(objs) :
       Cardinality({<<d, k>> \in (DOMAIN objs) \X (1..MaxObjs) :
                      k <= Len(objs[d].files) /\ objs[d].files[k].obj = o}) = 1
  /\ \A d \in DOMAIN objs : \A j, k \in DOMAIN objs[d].files :
       objs[d].files[j].name = objs[d].files[k].name => j = k

(* Reference for a file: byte i is the one of the last write that covered  *)
(* it, and 0 where no write did.                                           *)
Covers(w, f, i) == w.obj = f /\ i \in (w.pos + 1)..(w.pos + Len(w.bytes))
ByteOf(f, i) ==
  LET ws == {k \in DOMAIN written : Covers(written[k], f, i)}
      w  == written[CHOOSE k \in ws : \A m \in ws : m <= k]
  IN  IF ws = {} THEN 0 ELSE w.bytes[i - w.pos]

(* A read returns what was last written at the position of its handle,     *)
(* through whichever handle it was written, and stops at the largest end   *)
(* of a write.                                                             *)
ReadsWritten ==
  last.obj # 0 =>
    /\ \A i \in DOMAIN last.bytes : last.bytes[i] = ByteOf(last.obj, last.pos + i)
    /\ \A k \in DOMAIN written :
         written[k].obj = last.obj /\ last.bytes = <<>>
           => written[k].pos + Len(written[k].bytes) <= last.pos

(* A directory listing is complete and has no duplicates: up to its first  *)
(* None a handle has listed every entry of the directory exactly once and  *)
(* in order, whatever other threads created meanwhile.                     *)
ListingExact == \A k \in DOMAIN table :
  LET e == table[k]
      n == IF e.full = -1 THEN Len(e.seen) ELSE e.full
  IN  /\ is_dir(e.obj) /\ e.full = -1 => Len(e.seen) = e.pos
      /\ Len(e.seen) >= n
      /\ \A i \in 1..n : e.seen[i] = objs[e.obj].files[i].obj
      /\ IsInjective(e.seen)

(* Directories are exact, however calls of threads interleave: one entry   *)
(* per object and name, and a listing that shows each entry once.          *)
NamesExact == OneName /\ ListingExact

(* "Helper function of 'allocate' to find a free handle": a handle in use  *)
(* is not given out a second time, so an operation on a handle reaches the *)
(* object its caller opened.                                               *)
HandlesDistinct ==
  \A j, k \in DOMAIN table : table[j].h = table[k].h => j = k
=============================================================================
