------------------------------- MODULE KeyFile -------------------------------
(***************************************************************************)
(* The list of keys and its file (data.c).  Threads that found a key (the  *)
(* EMM loggers, the external updater, the console) add it with AddNewKey;  *)
(* the housekeeper purges deleted items, reads the file again when it is   *)
(* newer than what was read, and saves the list when it was modified;      *)
(* somebody edits the file with an editor.                                 *)
(*                                                                         *)
(* Times are the seconds of stat.  The list lock is held as a reader by    *)
(* Save and as a writer within single steps.  A line is a key, a key that  *)
(* is commented out, or a comment (key NoKey).                              *)
(***************************************************************************)
EXTENDS Integers, Sequences, FiniteSets, SequencesExt, FiniteSetsExt

CONSTANTS Updaters,  \* threads that add keys
          Keys,      \* keys
          Id,        \* key -> its type, id, number, size and external id
          Super,     \* ids whose new keys supersede the old ones
          Keep,      \* superseded keys are commented out (SuperKeys = 0)
          Edits,     \* files an editor writes: [lines, long]
          Careful,   \* the editor waits for the next second and for the housekeeper
          First,     \* the file at the start, or NoFile
          MaxLen,    \* bound: items of the list at which no new key comes
          MaxTime,   \* bound: seconds
          NoKey

NoFile == [lines |-> <<>>, long |-> FALSE, mtime |-> 0]
Line   == [key : Keys \cup {NoKey}, live : BOOLEAN]

ASSUME KeyFileAssumption ==
  /\ Super \subseteq {Id[k] : k \in Keys} /\ Keep \in BOOLEAN /\ Careful \in BOOLEAN
  /\ \A e \in Edits : e.lines \in Seq(Line) /\ e.long \in BOOLEAN
  /\ First = NoFile \/ First \in [lines : Seq(Line), long : {FALSE}, mtime : {1}]
  /\ MaxLen \in Nat /\ MaxTime \in Nat /\ NoKey \notin Keys

VARIABLES
  disk,     \* the file: lines, whether one is too long to be read, mtime
  now,      \* second
  list,     \* items in their order: [no, key, live, deleted]
  mtime, modified, loaded, \* of the loader: SL_MODIFIED, SL_LOADED
  hk,       \* place of the housekeeper
  buffer,   \* file it opened, or the lines it has written
  upd,      \* updater -> [pc, nk, at, ref] of AddNewKey
  unread    \* ghost: the file was edited and not read in full since

loader == <<list, mtime, modified, loaded>>
fileVars == <<disk, now, loader, hk, buffer, upd, unread>>

Exists == disk # NoFile
Items  == 1 .. 2 * MaxLen + 10

FileTypeOK ==
  /\ disk.lines \in Seq(Line) /\ disk.long \in BOOLEAN /\ disk.mtime \in 0 .. MaxTime
  /\ now \in 1 .. MaxTime /\ mtime \in 0 .. MaxTime
  /\ \A i \in DOMAIN list : list[i].no \in Items /\ list[i].deleted \in BOOLEAN
  /\ modified \in BOOLEAN /\ loaded \in BOOLEAN /\ unread \in BOOLEAN
  /\ hk \in {"rest", "opened", "checked", "written", "renamed"}
  /\ \A t \in Updaters : upd[t].pc \in {"idle", "dup", "old", "comment", "add"}

-----------------------------------------------------------------------------
(* The list                                                                *)

Item(n, key, live) == [no |-> n, key |-> key, live |-> live, deleted |-> FALSE]
Valid(i)   == i.live /\ ~i.deleted
ValidKeys  == {i.key : i \in {j \in ToSet(list) : Valid(j)}}
Held       == UNION {{upd[t].at, upd[t].ref} : t \in Updaters}
UnusedNos  == Items \ ({list[i].no : i \in DOMAIN list} \cup Held)
Pos(n)     == CHOOSE i \in DOMAIN list : list[i].no = n
IsIn(n)    == \E i \in DOMAIN list : list[i].no = n

\* The k-th number of some.
Nth(S, k) == CHOOSE i \in S : Cardinality({j \in S : j < i}) = k - 1

\* A list without its deleted items, and what Save writes of them.
Kept(s) ==
  LET ps == {i \in DOMAIN s : ~s[i].deleted}
  IN [k \in 1 .. Cardinality(ps) |-> s[Nth(ps, k)]]
Lines ==
  LET kept == Kept(list)
  IN [k \in DOMAIN kept |-> [key |-> kept[k].key, live |-> kept[k].live]]

\* Items of the lines of a file; ParseLine and the comments in one.
Parsed(lines, ns) ==
  [k \in DOMAIN lines |-> Item(Nth(ns, k), lines[k].key, lines[k].live)]

AllDeleted == [i \in DOMAIN list |-> [list[i] EXCEPT !.deleted = TRUE]]

\* The valid keys of an id behind an item; 0 is the head of the list.
Matches(id, at) ==
  {i \in DOMAIN list : /\ at # 0 => i > Pos(at)
                       /\ Valid(list[i]) /\ Id[list[i].key] = id}
FindKeyNoTrig(id, at) ==
  IF Matches(id, at) = {} THEN 0 ELSE list[Min(Matches(id, at))].no

\* The item a new one is put behind: that before the reference, or that before
\* the first key.  The first item has none before it; 0 is the end.
ItemBehind(ref) ==
  LET keyNext == {i \in DOMAIN list : i + 1 \in DOMAIN list /\ list[i + 1].live}
  IN IF ref # 0 /\ IsIn(ref) /\ Pos(ref) > 1 THEN Pos(ref) - 1
     ELSE IF keyNext = {} THEN 0 ELSE Min(keyNext)

Add(item, i) == IF i = 0 THEN Append(list, item) ELSE InsertAt(list, i + 1, item)

FileInit ==
  /\ disk = First /\ now = 1
  /\ list = Parsed(First.lines, 1 .. Len(First.lines))
  /\ mtime = First.mtime /\ modified = FALSE /\ loaded = TRUE
  /\ hk = "rest" /\ buffer = NoFile /\ unread = FALSE
  /\ upd = [t \in Updaters |-> [pc |-> "idle", nk |-> NoKey, at |-> 0, ref |-> 0]]

-----------------------------------------------------------------------------
(* AddNewKey.  The lock is free between two searches.                      *)

\* Mutant: writers do not wait for a save.
WriteLockNot == TRUE

WriteLock == hk \notin {"written", "renamed"}

NewKey(t, k) ==
  /\ upd[t].pc = "idle" /\ Len(list) <= MaxLen
  /\ upd' = [upd EXCEPT ![t] = [pc |-> "dup", nk |-> k, at |-> 0, ref |-> 0]]
  /\ UNCHANGED <<disk, now, loader, hk, buffer, unread>>

\* A key that is known is not added.
Known(t) ==
  /\ upd[t].pc = "dup"
  /\ LET n == FindKeyNoTrig(Id[upd[t].nk], upd[t].at)
     IN upd' = [upd EXCEPT ![t] =
          IF n = 0 THEN [@ EXCEPT !.pc = "old", !.at = 0]
          ELSE IF list[Pos(n)].key = @.nk THEN [@ EXCEPT !.pc = "idle", !.at = 0]
          ELSE [@ EXCEPT !.at = n]]
  /\ UNCHANGED <<disk, now, loader, hk, buffer, unread>>

\* The old keys are marked without the lock; the first is the reference.
Old(t) ==
  /\ upd[t].pc = "old"
  /\ LET id == Id[upd[t].nk]
         n  == FindKeyNoTrig(id, upd[t].at)
     IN IF n = 0
        THEN upd' = [upd EXCEPT ![t].pc = "add"] /\ UNCHANGED loader
        ELSE /\ upd' = [upd EXCEPT ![t].at = n, ![t].ref = IF @ = 0 THEN n ELSE @,
                                   ![t].pc = IF id \in Super /\ Keep THEN "comment" ELSE @]
             /\ IF id \in Super
                THEN /\ list' = [list EXCEPT ![Pos(n)].deleted = TRUE]
                     /\ modified' = (modified \/ ~Keep) /\ UNCHANGED <<mtime, loaded>>
                ELSE UNCHANGED loader
  /\ UNCHANGED <<disk, now, hk, buffer, unread>>

\* The old key stays as a comment.
Comment(t) ==
  /\ upd[t].pc = "comment" /\ WriteLock
  /\ LET p == Pos(upd[t].at)
     IN list' = Add(Item(Min(UnusedNos), list[p].key, FALSE), p)
  /\ modified' = TRUE /\ upd' = [upd EXCEPT ![t].pc = "old"]
  /\ UNCHANGED <<disk, now, mtime, loaded, hk, buffer, unread>>

\* Mutant: the list is not marked as modified.
AddItemSilent(t) ==
  /\ upd[t].pc = "add" /\ WriteLock
  /\ list' = Add(Item(Min(UnusedNos), upd[t].nk, TRUE), ItemBehind(upd[t].ref))
  /\ upd' = [upd EXCEPT ![t] = [@ EXCEPT !.pc = "idle", !.at = 0, !.ref = 0]]
  /\ UNCHANGED <<disk, now, mtime, modified, loaded, hk, buffer, unread>>

AddItem(t) ==
  /\ upd[t].pc = "add" /\ WriteLock
  /\ list' = Add(Item(Min(UnusedNos), upd[t].nk, TRUE), ItemBehind(upd[t].ref))
  /\ modified' = TRUE
  /\ upd' = [upd EXCEPT ![t] = [@ EXCEPT !.pc = "idle", !.at = 0, !.ref = 0]]
  /\ UNCHANGED <<disk, now, mtime, loaded, hk, buffer, unread>>

-----------------------------------------------------------------------------
(* The housekeeper.  Each of the three has a timer of its own, so that any  *)
(* may be left out in a round.                                             *)

\* Deleted items are freed, when no descrambler is active.  No updater is amid
\* AddNewKey: nothing in the code makes sure of that.
Purge ==
  /\ hk = "rest" /\ \A t \in Updaters : upd[t].pc = "idle"
  /\ list' = Kept(list)
  /\ UNCHANGED <<disk, now, mtime, modified, loaded, hk, buffer, upd, unread>>

LoadOpen ==
  /\ hk = "rest" /\ Exists
  /\ hk' = "opened" /\ buffer' = disk
  /\ UNCHANGED <<disk, now, loader, upd, unread>>

\* SL_MISSINGOK: a list without a file may be saved.
OpenFailed ==
  /\ hk = "rest" /\ ~Exists /\ loaded' = TRUE
  /\ UNCHANGED <<disk, now, list, mtime, modified, hk, buffer, upd, unread>>

\* Mutant: a file that was read in part is saved all the same.
LoadsAnyway(long) == TRUE

\* A line too long for the buffer ends the loading.
Loads(long) == ~long

\* A file newer than the one known takes the place of the list, whatever has
\* been changed there; what is in memory stays behind as deleted items.
LoadRead ==
  /\ hk = "opened" /\ hk' = "rest" /\ buffer' = NoFile
  /\ IF mtime < disk.mtime
     THEN /\ list' = AllDeleted \o Parsed(buffer.lines, UnusedNos)
          /\ modified' = FALSE /\ mtime' = disk.mtime /\ loaded' = Loads(buffer.long)
          /\ unread' = (unread /\ (buffer.long \/ buffer.lines # disk.lines))
     ELSE UNCHANGED <<loader, unread>>
  /\ UNCHANGED <<disk, now, upd>>

\* Mutant: the file is not looked at before it is replaced.
CheckUnmodifiedNot == TRUE

\* A list that was not read from a file is saved over any.
CheckUnmodified == ~(mtime # 0 /\ mtime < disk.mtime)

CheckDoSave == loaded /\ modified /\ CheckUnmodified

SaveBegin ==
  /\ hk = "rest" /\ CheckDoSave /\ hk' = "checked"
  /\ UNCHANGED <<disk, now, loader, buffer, upd, unread>>

SaveWrite ==
  /\ hk = "checked" /\ hk' = "written"
  /\ buffer' = [lines |-> Lines, long |-> FALSE, mtime |-> 0]
  /\ UNCHANGED <<disk, now, loader, upd, unread>>

\* Closing the temporary file renames it.
SaveRename ==
  /\ hk = "written" /\ hk' = "renamed"
  /\ disk' = [buffer EXCEPT !.mtime = now] /\ buffer' = NoFile
  /\ UNCHANGED <<now, loader, upd, unread>>

SaveDone ==
  /\ hk = "renamed" /\ hk' = "rest"
  /\ mtime' = disk.mtime /\ modified' = FALSE
  /\ UNCHANGED <<disk, now, list, loaded, buffer, upd, unread>>

-----------------------------------------------------------------------------
(* The editor and the clock                                                *)

MayEdit == Careful => hk = "rest" /\ disk.mtime < now

Edit ==
  /\ MayEdit
  /\ \E e \in Edits : /\ e.lines # disk.lines \/ e.long # disk.long
                      /\ disk' = [lines |-> e.lines, long |-> e.long, mtime |-> now]
  /\ unread' = TRUE
  /\ UNCHANGED <<now, loader, hk, buffer, upd>>

Unlink ==
  /\ MayEdit /\ Exists /\ disk' = NoFile /\ unread' = FALSE
  /\ UNCHANGED <<now, loader, hk, buffer, upd>>

Second ==
  /\ now < MaxTime /\ now' = now + 1
  /\ UNCHANGED <<disk, loader, hk, buffer, upd, unread>>

-----------------------------------------------------------------------------
AddNewKey(t) == Known(t) \/ Old(t) \/ Comment(t) \/ AddItem(t)
Load == LoadOpen \/ LoadRead \/ OpenFailed
Save == SaveBegin \/ SaveWrite \/ SaveRename \/ SaveDone

FileNext ==
  \/ \E t \in Updaters : AddNewKey(t) \/ \E k \in Keys : NewKey(t, k)
  \/ Purge \/ Load \/ Save
  \/ Edit \/ Unlink \/ Second

\* The housekeeper comes round to each of its calls again and again, their
\* timers run out in between.  Nothing is asked of the updaters.
FileFairness == SF_fileVars(Load) /\ SF_fileVars(Save)

FileSpec == FileInit /\ [][FileNext]_fileVars /\ FileFairness

-----------------------------------------------------------------------------
(* Correctness                                                             *)

\* When the list counts as saved, the file that was read or written last holds
\* what the list holds, whatever updates came in between.
InStep ==
  hk = "rest" /\ ~modified /\ loaded /\ Exists /\ mtime = disk.mtime
    /\ (\A t \in Updaters : upd[t].pc \in {"idle", "dup"})
    => Lines = disk.lines

\* No save takes the place of a file somebody has edited and that was not read
\* in full since.
NoEditLost == [][SaveRename => ~unread]_fileVars

\* Only an edit makes the list be thrown away, not a save of its own.
OwnSavesStay == [][LoadRead /\ list' # list => unread]_fileVars

\* A key just added is the one that is found: none of the same id is before it.
NewKeyIsFound ==
  [][\A t \in Updaters : AddItem(t) =>
       LET same == {i \in DOMAIN list' : list'[i].live /\ ~list'[i].deleted
                                         /\ Id[list'[i].key] = Id[upd[t].nk]}
       IN list'[Min(same)].key = upd[t].nk]_fileVars

\* A key that is in the list gets into the file or leaves the list, except that
\* a file that was removed is made again only when the list is modified.
KeysReachFile ==
  \A k \in Keys :
    k \in ValidKeys /\ loaded /\ (Exists \/ modified)
      ~> \/ k \notin ValidKeys \/ (~Exists /\ ~modified)
         \/ [key |-> k, live |-> TRUE] \in ToSet(disk.lines)

\* A file that was edited and has no line too long is read again.
ReRead == unread /\ ~disk.long ~> ~unread \/ disk.long

-----------------------------------------------------------------------------
(* What the proofs rest on                                                 *)

\* Items with their numbers, of which nothing else is asked.
ItemsOf(ns) == [no : ns, key : Keys \cup {NoKey}, live : BOOLEAN, deleted : BOOLEAN]
Numbers(s)  == {s[i].no : i \in DOMAIN s}

Typed ==
  /\ list \in Seq(ItemsOf(Numbers(list)))
  /\ disk.lines \in Seq(Line) /\ disk.mtime \in Nat /\ mtime \in Nat /\ now \in Nat \ {0}
  /\ upd = [t \in Updaters |-> upd[t]]
  /\ \A t \in Updaters :
       /\ upd[t] = [pc |-> upd[t].pc, nk |-> upd[t].nk, at |-> upd[t].at, ref |-> upd[t].ref]
       /\ upd[t].nk \in Keys \cup {NoKey}
       /\ upd[t].pc = "comment" => upd[t].at \in Numbers(list)

\* No updater has marked items and not added its key yet.
Quiet == \A t \in Updaters : upd[t].pc \in {"idle", "dup"}

\* Times of the past.  What was read or written this second cannot be edited yet.
TimesInv ==
  /\ mtime <= now /\ disk.mtime <= now
  /\ mtime = now => disk.mtime = now

\* A save writes the list as it is, since nobody adds to it meanwhile.
SaveInv ==
  /\ hk = "opened" => buffer = disk
  /\ hk = "written" => /\ buffer \in [lines : Seq(Line), long : {FALSE}, mtime : {0}]
                       /\ Quiet => buffer.lines = Lines
  /\ hk = "renamed" => /\ disk.mtime > 0
                       /\ Quiet => disk.lines = Lines
  /\ hk \in {"rest", "opened", "checked"} /\ ~modified /\ loaded /\ Exists
       /\ mtime = disk.mtime /\ Quiet => Lines = disk.lines

\* A file is newer than what is known of it as long as an edit was not read; one
\* that was read in part is not saved.
UnreadInv ==
  /\ mtime < disk.mtime /\ hk # "renamed" => unread
  /\ First # NoFile => /\ mtime > 0
                       /\ unread => disk.mtime > 0 /\ (mtime < disk.mtime \/ ~loaded)
                       /\ hk \in {"checked", "written", "renamed"} => ~unread
=============================================================================
