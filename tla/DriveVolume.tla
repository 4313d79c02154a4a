---------------------------- MODULE DriveVolume ----------------------------
(***************************************************************************)
(* The exFAT volume of the virtual drive: ventoy-img-rs (exfat/ops.rs) as  *)
(* VentoyDrive (msd/ventoy_drive.rs) uses it.  A request opens the image   *)
(* of its own and runs one operation in a blocking thread: a transaction   *)
(* that marks the volume dirty, reads and writes clusters, FAT, bitmap and *)
(* directory slots one after the other, and clears the mark at the end.    *)
(* Any write may fail and the process may end between two of them.         *)
(*                                                                         *)
(* The lock of VentoyDrive belongs to the object, and every request makes  *)
(* an object of its own: it excludes nobody, so the writers of the model   *)
(* share nothing but the image.                                            *)
(***************************************************************************)
EXTENDS Integers, Sequences, SequencesExt, FiniteSets, FiniteSetsExt

CONSTANTS
    Writers,       \* requests that may be under way at the same time
    Names,         \* names of files and directories
    Width,         \* slots of 32 bytes the entry set of a name takes
    N,             \* clusters of the heap; cluster 1 is the root directory
    S,             \* slots of a cluster
    MaxDirectory,  \* MAX_DIRECTORY_SIZE, in clusters
    MaxRepeats,    \* bound: operations begun while the volume is marked dirty
    Requests,      \* [op, path, size, create, overwrite], paths of at most 2 names
    None

ASSUME DriveAssumption ==
    /\ N \in Nat \ {0} /\ S \in Nat \ {0} /\ MaxDirectory \in Nat \ {0}
    /\ MaxRepeats \in Nat
    /\ None \notin Names /\ Width \in [Names -> 1 .. S]
    /\ \A r \in Requests :
         /\ r.op \in {"upload", "mkdir", "remove", "delete"}
         /\ r.path \in Seq(Names) /\ Len(r.path) \in 1 .. 2 /\ r.size \in 0 .. N

VARIABLES
    bitmap, fat,  \* the allocation bitmap and the FAT
    content,      \* the slots of each cluster
    dirty,        \* VolumeDirty
    task,         \* the operation of each writer
    repeats       \* operations begun while the volume was marked dirty

volume == <<bitmap, fat, content>>
dvVars == <<bitmap, fat, content, dirty, task, repeats>>

Clusters == 1 .. N
Free == 0          \* FAT_ENTRY_FREE
EndOfChain == -1   \* FAT_ENTRY_END_OF_CHAIN

\* A slot.  "more" is a secondary entry, "other" anything that is neither a
\* file, nor deleted, nor the end: system entries of the root, data of files.
Slot(kind, name, dir, first, length, nofat) ==
    [kind |-> kind, name |-> name, dir |-> dir, first |-> first,
     length |-> length, nofat |-> nofat]
Blank(kind) == Slot(kind, None, FALSE, 0, 0, FALSE)
Zeros == [i \in 1 .. S |-> Blank("end")]
Data(name) == [i \in 1 .. S |-> Slot("other", name, FALSE, 0, 0, FALSE)]

\* FileEntryLocation; the root directory has no entry of its own.
Location(c, i) == [at |-> c, slot |-> i, entry |-> content[c][i]]
RootDir == [at |-> 0, slot |-> 0, entry |-> Slot("file", None, TRUE, 1, 0, FALSE)]

\* An operation; tree (history) is what a host saw of the clean volume when it
\* began.
IdleWriter == [pc |-> "idle", req |-> None, was |-> FALSE, path |-> << >>, k |-> 1,
         dir |-> None, loc |-> None, n |-> 0, then |-> "none", list |-> << >>,
         new |-> None, old |-> << >>, place |-> None, cache |-> None,
         tree |-> {}]

-----------------------------------------------------------------------------
(***************************************************************************)
(* Reading the volume                                                      *)
(***************************************************************************)

\* read_cluster_chain_limited: the chain from c, empty if it leaves the heap,
\* runs into a free cluster or into a cycle.
Chain(c) ==
    LET step(p, i) == IF p = << >> THEN p
                      ELSE IF fat[Last(p)] = EndOfChain THEN p
                      ELSE IF fat[Last(p)] \in Clusters \ ToSet(p)
                           THEN Append(p, fat[Last(p)]) ELSE << >>
    IN  IF c \in Clusters THEN FoldLeft(step, <<c>>, [i \in Clusters |-> i]) ELSE << >>

Contiguous(c, n) ==
    IF c \in Clusters /\ c + n - 1 <= N THEN [i \in 1 .. n |-> c + i - 1] ELSE << >>

\* clusters_for_allocation; empty for a file without data and for an error.
OfLength(p, n) == IF Len(p) = n THEN p ELSE << >>
Allocation(e) ==
    IF e.length = 0 THEN << >>
    ELSE IF e.nofat THEN Contiguous(e.first, e.length)
    ELSE OfLength(Chain(e.first), e.length)

AllocationOk(e) ==
    IF e.length = 0 THEN e.first = 0 /\ ~e.nofat ELSE Allocation(e) # << >>

\* directory_clusters; empty for an error.
Limited(p) == IF Len(p) <= MaxDirectory THEN p ELSE << >>
DirClusters(d) ==
    Limited(IF d.entry.nofat THEN Allocation(d.entry) ELSE Chain(d.entry.first))

\* The slots of a directory in the order they are scanned.
SlotsOf(p) == [i \in 1 .. S * Len(p) |-> <<p[((i - 1) \div S) + 1], ((i - 1) % S) + 1>>]
Positions(d) == SlotsOf(DirClusters(d))

Kind(p) == content[p[1]][p[2]].kind
Named(p, name) == Kind(p) = "file" /\ content[p[1]][p[2]].name = name

\* find_entry_in_directory: the first END slot hides what is behind it.
Hits(ps, name) == {i \in DOMAIN ps : /\ Named(ps[i], name)
                                     /\ \A j \in 1 .. i - 1 : Kind(ps[j]) # "end"}
FirstHit(ps, hits) == IF hits = {} THEN None ELSE Location(ps[Min(hits)][1], ps[Min(hits)][2])
FindAmong(ps, name) == FirstHit(ps, Hits(ps, name))
FindIn(d, name) == FindAmong(Positions(d), name)

\* list_files_in_directory: an END slot counts in the first cluster only.
Seen(ps, i) == Kind(ps[i]) = "file" /\ \A j \in 1 .. i - 1 : j <= S => Kind(ps[j]) # "end"
NamesAt(ps) == FlattenSeq([i \in DOMAIN ps |->
                             IF Seen(ps, i) THEN <<content[ps[i][1]][ps[i][2]].name>> ELSE << >>])
ListIn(d) == NamesAt(Positions(d))

\* find_free_slot_in_directory: the first run of w slots in one cluster that
\* are deleted or never used, or None.
FreeRuns(p, w) ==
    {r \in (1 .. Len(p)) \X (1 .. S) :
       /\ r[2] + w - 1 <= S
       /\ \A i \in r[2] .. r[2] + w - 1 : Kind(<<p[r[1]], i>>) \in {"end", "deleted"}}
FirstRun(runs) == CHOOSE r \in runs : \A q \in runs : r[1] < q[1] \/ (r[1] = q[1] /\ r[2] <= q[2])
PlaceOf(p, runs) == IF runs = {} THEN None ELSE <<p[FirstRun(runs)[1]], FirstRun(runs)[2]>>
FreeAmong(p, w) == PlaceOf(p, FreeRuns(p, w))
FreeSlot(d, w) == FreeAmong(DirClusters(d), w)

-----------------------------------------------------------------------------
(***************************************************************************)
(* What a host sees: entries down to the second level                      *)
(***************************************************************************)

FilesAmong(ps) ==
    {Location(ps[i][1], ps[i][2]) :
       i \in {i \in DOMAIN ps : Kind(ps[i]) = "file" /\ \A j \in 1 .. i - 1 : Kind(ps[j]) # "end"}}
EntriesOf(d) == FilesAmong(Positions(d))
Level(path, d) == {[path |-> Append(path, l.entry.name), loc |-> l] : l \in EntriesOf(d)}
WithBelow(top) == top \cup UNION {Level(x.path, x.loc) : x \in {y \in top : y.loc.entry.dir}}
Nodes == WithBelow(Level(<< >>, RootDir))

Item(path, dir, size, data) == [path |-> path, dir |-> dir, size |-> size, data |-> data]
\* ExfatFileReader: whose data the clusters of a file hold.
ReadFile(l) ==
    IF l.entry.dir THEN {} ELSE {content[c][1].name : c \in ToSet(Allocation(l.entry))}
\* The tree of files and directories, with the data of the files.
Tree ==
    {Item(x.path, x.loc.entry.dir,
          IF x.loc.entry.dir THEN 0 ELSE x.loc.entry.length, ReadFile(x.loc)) : x \in Nodes}

\* What a successful operation makes of the tree.
Expected(tree, r) ==
    LET parents == IF Len(r.path) = 1 THEN {} ELSE {Item(<<r.path[1]>>, TRUE, 0, {})}
    IN  CASE r.op = "upload" ->
               {x \in tree : x.path # r.path} \cup parents \cup
               {Item(r.path, FALSE, r.size, IF r.size = 0 THEN {} ELSE {Last(r.path)})}
          [] r.op = "mkdir" -> tree \cup parents \cup {Item(r.path, TRUE, 0, {})}
          [] OTHER -> {x \in tree : ~IsPrefix(r.path, x.path)}

-----------------------------------------------------------------------------
(***************************************************************************)
(* Volumes as VentoyImage::create leaves them, and as a host may           *)
(***************************************************************************)

\* format_exfat: the root directory with its system entries.
Formatted ==
    [bitmap |-> {1}, fat |-> [c \in Clusters |-> IF c = 1 THEN EndOfChain ELSE Free],
     content |-> [c \in Clusters |-> IF c = 1 THEN [Zeros EXCEPT ![1] = Blank("other")]
                                     ELSE Data(None)]]

\* A host has made a directory of two adjoining clusters, with a file of one
\* cluster and one without data, none of them with a chain in the FAT.
HostMade(dir, file, empty) ==
    [bitmap |-> 1 .. 4,
     fat |-> [c \in Clusters |-> IF c = 1 THEN EndOfChain ELSE Free],
     content |-> [c \in Clusters |->
        CASE c = 1 -> [i \in 1 .. S |-> IF i = 1 THEN Blank("other")
                         ELSE IF i = 2 THEN Slot("file", dir, TRUE, 2, 2, TRUE)
                         ELSE IF i <= 1 + Width[dir] THEN Blank("more") ELSE Blank("end")]
          [] c = 2 -> [i \in 1 .. S |-> IF i = 1 THEN Slot("file", empty, FALSE, 0, 0, FALSE)
                         ELSE Blank("more")]
          [] c = 3 -> [i \in 1 .. S |-> IF i = 1 THEN Slot("file", file, FALSE, 4, 1, TRUE)
                         ELSE IF i <= Width[file] THEN Blank("more") ELSE Blank("end")]
          [] c = 4 -> Data(file)
          [] OTHER -> Data(None)]]
HostVolumes ==
    {HostMade(x[1], x[2], x[3]) : x \in {x \in Names \X Names \X Names :
        Width[x[1]] < S /\ Width[x[3]] = S /\ x[2] # x[3]}}

DvInit ==
    /\ \E v \in {Formatted} \cup HostVolumes :
         /\ bitmap = v.bitmap /\ fat = v.fat /\ content = v.content
    /\ dirty = FALSE /\ task = [w \in Writers |-> IdleWriter]
    /\ repeats = 0

-----------------------------------------------------------------------------
(***************************************************************************)
(* The steps of an operation                                               *)
(***************************************************************************)

Does(w, t) == task' = [task EXCEPT ![w] = t]
At(w, pc) == task[w].pc = pc
\* The operation returns an error; the volume stays dirty.
Failed(w) == Does(w, IdleWriter)

\* get_bitmap_mut: read when it is first needed, kept while the image is open.
Bitmap(t) == IF t.cache = None THEN bitmap ELSE t.cache

\* ExfatFs::open finds the root directory and the bitmap; nothing is cached yet.
Open(r) == [IdleWriter EXCEPT !.req = r, !.path = r.path, !.dir = RootDir]

\* begin_write_transaction
Begin(w, r) ==
    /\ At(w, "idle")
    /\ Does(w, [Open(r) EXCEPT !.pc = "resolve", !.was = dirty,
                               !.tree = IF dirty THEN {} ELSE Tree])
    /\ dirty => repeats < MaxRepeats
    /\ repeats' = IF dirty THEN repeats + 1 ELSE 0
    /\ dirty' = TRUE
    /\ UNCHANGED volume

\* Clusters are asked for; a file without data needs none.
Allocate(t, n, then, new) ==
    IF n = 0 THEN [t EXCEPT !.pc = "slot", !.new = new]
    ELSE [t EXCEPT !.pc = "alloc", !.n = n, !.then = then, !.new = new]
NewDir(t, name) ==
    Allocate(t, 1, "zero", Slot("file", name, TRUE, 0, 1, FALSE))
NewFile(t) ==
    Allocate(t, t.req.size, "data",
             Slot("file", Last(t.path), FALSE, 0, t.req.size, FALSE))

\* resolve_path, one component: go down, or create the parent.
Descend(w) ==
    LET t == task[w]
        name == t.path[t.k]
    IN  /\ At(w, "resolve") /\ t.k < Len(t.path)
        /\ IF DirClusters(t.dir) = << >> THEN Failed(w)
           ELSE \E hit \in {FindIn(t.dir, name)} :
                \/ /\ hit = None
                   /\ IF t.req.create THEN Does(w, NewDir(t, name)) ELSE Failed(w)
                \/ /\ hit # None
                   /\ IF hit.entry.dir THEN Does(w, [t EXCEPT !.dir = hit, !.k = @ + 1])
                      ELSE Failed(w)
        /\ UNCHANGED <<volume, repeats, dirty>>

\* The target is looked up, and the operation decides what to do.
\* delete_recursive deletes what a directory holds first.
Target(w) ==
    LET t == task[w]
    IN  /\ At(w, "resolve") /\ t.k = Len(t.path)
        /\ IF DirClusters(t.dir) = << >> THEN Failed(w)
           ELSE \E hit \in {FindIn(t.dir, Last(t.path))} :
                \/ /\ t.req.op = "upload"
                   /\ IF hit = None THEN Does(w, NewFile(t))
                      ELSE IF hit.entry.dir \/ ~t.req.overwrite THEN Failed(w)
                      ELSE Does(w, [t EXCEPT !.pc = "free", !.loc = hit])
                \/ /\ t.req.op = "mkdir"
                   /\ IF hit = None THEN Does(w, NewDir(t, Last(t.path))) ELSE Failed(w)
                \/ /\ t.req.op \in {"remove", "delete"}
                   /\ IF hit = None THEN Failed(w)
                      ELSE IF hit.entry.dir /\ ListIn(hit) # << >>
                      THEN IF t.req.op = "delete" THEN Failed(w)
                           ELSE Does(w, [t EXCEPT !.path = Append(@, ListIn(hit)[1]), !.k = 1,
                                                  !.dir = RootDir])
                      ELSE Does(w, [t EXCEPT !.pc = "free", !.loc = hit])
        /\ UNCHANGED <<volume, repeats, dirty>>

\* free_clusters: the bitmap first ...
FreeBitmap(w) ==
    LET t == task[w]
        e == t.loc.entry
    IN  /\ At(w, "free")
        /\ \E list \in {IF e.dir THEN DirClusters(t.loc) ELSE Allocation(e)} :
           IF ~AllocationOk(e) \/ (e.dir /\ list = << >>)
           THEN Failed(w) /\ UNCHANGED bitmap
           ELSE /\ bitmap' = IF list = << >> THEN bitmap ELSE Bitmap(t) \ ToSet(list)
                /\ Does(w, [t EXCEPT !.list = list,
                     !.cache = IF list = << >> THEN @ ELSE bitmap',
                     !.pc = IF list = << >> \/ e.nofat THEN "unlink" ELSE "free_fat"])
        /\ UNCHANGED <<fat, content, dirty, repeats>>

\* ... then the FAT, unless the allocation had no chain.
FreeFat(w) ==
    /\ At(w, "free_fat")
    /\ fat' = [c \in Clusters |-> IF c \in ToSet(task[w].list) THEN Free ELSE fat[c]]
    /\ Does(w, [task[w] EXCEPT !.pc = "unlink"])
    /\ UNCHANGED <<bitmap, content, dirty, repeats>>

\* delete_file_entry.  An upload goes on to write the new file; a recursive
\* deletion goes on with the directory that held the entry.
Unlink(w) ==
    LET t == task[w]
        l == t.loc
    IN  /\ At(w, "unlink")
        /\ content' = [content EXCEPT ![l.at] =
             [i \in 1 .. S |-> IF i \in l.slot .. l.slot + Width[l.entry.name] - 1
                               THEN Blank("deleted") ELSE @[i]]]
        /\ Does(w, CASE t.req.op = "upload" -> NewFile(t)
                     [] t.req.op # "upload" /\ Len(t.path) > Len(t.req.path) ->
                          [t EXCEPT !.pc = "resolve", !.path = Front(@), !.k = 1,
                                    !.dir = RootDir]
                     [] OTHER -> [t EXCEPT !.pc = "commit"])
        /\ UNCHANGED <<bitmap, fat, dirty, repeats>>

\* find_free_clusters takes the lowest; allocate_clusters marks them first ...
AllocBitmap(w) ==
    LET t == task[w]
        free == Clusters \ Bitmap(t)
    IN  /\ At(w, "alloc")
        /\ IF Cardinality(free) < t.n THEN Failed(w) /\ UNCHANGED bitmap
           ELSE \E list \in {SubSeq(SetToSortSeq(free, <), 1, t.n)} :
                /\ bitmap' = Bitmap(t) \cup ToSet(list)
                /\ Does(w, [t EXCEPT !.pc = "alloc_fat", !.list = list, !.cache = bitmap'])
        /\ UNCHANGED <<fat, content, dirty, repeats>>

\* ... and then writes their chain.
AllocFat(w) ==
    LET t == task[w]
        l == t.list
    IN  /\ At(w, "alloc_fat")
        /\ fat' = [c \in Clusters |->
             IF c \notin ToSet(l) THEN fat[c]
             ELSE IF c = Last(l) THEN EndOfChain
             ELSE l[(CHOOSE i \in DOMAIN l : l[i] = c) + 1]]
        /\ Does(w, IF t.then = "extend" THEN [t EXCEPT !.pc = "extend"]
                   ELSE [t EXCEPT !.pc = t.then, !.new.first = l[1]])
        /\ UNCHANGED <<bitmap, content, dirty, repeats>>

\* The clusters of a new file get its data; that of a new directory is zeroed.
Fill(w) ==
    LET t == task[w]
    IN  /\ t.pc \in {"data", "zero"}
        /\ content' = [c \in Clusters |->
             IF c \notin ToSet(t.list) THEN content[c]
             ELSE IF t.pc = "zero" THEN Zeros ELSE Data(t.new.name)]
        /\ Does(w, [t EXCEPT !.pc = "slot"])
        /\ UNCHANGED <<bitmap, fat, dirty, repeats>>

\* create_entry_in_directory finds room for the entry, or extends the directory.
FindSlot(w) ==
    LET t == task[w]
    IN  /\ At(w, "slot")
        /\ \E place \in {FreeSlot(t.dir, Width[t.new.name])}, old \in {DirClusters(t.dir)} :
           IF old = << >> \/ (place = None /\ t.dir.at # 0 /\ Len(old) = MaxDirectory)
           THEN Failed(w)
           ELSE IF place # None THEN Does(w, [t EXCEPT !.pc = "entry", !.place = place])
           ELSE Does(w, [t EXCEPT !.pc = "alloc", !.n = 1, !.then = "extend", !.old = old])
        /\ UNCHANGED <<volume, repeats, dirty>>

\* extend_directory: a directory without a chain gets one, and its last
\* cluster is linked to the new one.
Link(w) ==
    LET t == task[w]
    IN  /\ At(w, "extend")
        /\ fat' = [c \in Clusters |->
             IF c = Last(t.old) THEN t.list[1]
             ELSE IF t.dir.entry.nofat /\ c \in ToSet(t.old) THEN c + 1 ELSE fat[c]]
        /\ Does(w, [t EXCEPT !.pc = IF t.dir.at = 0 THEN "fresh" ELSE "grow"])
        /\ UNCHANGED <<bitmap, content, dirty, repeats>>

\* update_entry_allocation, in the parent and in the copy at hand.
Grow(w) ==
    LET t == task[w]
        entry == [t.dir.entry EXCEPT !.nofat = FALSE, !.length = Len(t.old) + 1]
    IN  /\ At(w, "grow")
        /\ content' = [content EXCEPT ![t.dir.at][t.dir.slot].nofat = FALSE,
                                      ![t.dir.at][t.dir.slot].length = Len(t.old) + 1]
        /\ Does(w, [t EXCEPT !.pc = "fresh", !.dir.entry = entry])
        /\ UNCHANGED <<bitmap, fat, dirty, repeats>>

Fresh(w) ==
    /\ At(w, "fresh")
    /\ content' = [content EXCEPT ![task[w].list[1]] = Zeros]
    /\ Does(w, [task[w] EXCEPT !.pc = "ends"])
    /\ UNCHANGED <<bitmap, fat, dirty, repeats>>

\* The END slots of the older clusters would hide the new one.
ClearEnds(w) ==
    LET t == task[w]
    IN  /\ At(w, "ends")
        /\ content' = [c \in Clusters |->
             IF c \notin ToSet(t.old) THEN content[c]
             ELSE [i \in 1 .. S |-> IF content[c][i].kind = "end" THEN Blank("deleted")
                                    ELSE content[c][i]]]
        /\ Does(w, [t EXCEPT !.pc = "entry", !.place = <<t.list[1], 1>>])
        /\ UNCHANGED <<bitmap, fat, dirty, repeats>>

\* create_entry_in_directory writes the entry set.
WriteEntry(w) ==
    LET t == task[w]
        c == t.place[1]
        i0 == t.place[2]
    IN  /\ At(w, "entry")
        /\ content' = [content EXCEPT ![c] =
             [i \in 1 .. S |-> IF i = i0 THEN t.new
                ELSE IF i \in i0 .. i0 + Width[t.new.name] - 1 THEN Blank("more") ELSE @[i]]]
        /\ Does(w, [t EXCEPT !.pc = IF t.new.dir THEN "created" ELSE "commit"])
        /\ UNCHANGED <<bitmap, fat, dirty, repeats>>

\* create_directory_in looks the new directory up again; if it is a parent, the
\* way down goes on there.
Created(w) ==
    LET t == task[w]
    IN  /\ At(w, "created")
        /\ \E hit \in {FindIn(t.dir, t.new.name)} :
           IF hit = None THEN Failed(w)
           ELSE IF t.k = Len(t.path) THEN Does(w, [t EXCEPT !.pc = "commit"])
           ELSE Does(w, [t EXCEPT !.pc = "resolve", !.dir = hit, !.k = @ + 1])
        /\ UNCHANGED <<volume, repeats, dirty>>

\* Mutant: the mark is cleared although it was there before.
Commit_Always(w) ==
    /\ At(w, "commit") /\ Does(w, IdleWriter) /\ dirty' = FALSE
    /\ UNCHANGED <<volume, repeats>>

\* finish_write_transaction: only who set the mark clears it.
Commit(w) ==
    /\ At(w, "commit") /\ Does(w, IdleWriter)
    /\ dirty' = IF task[w].was THEN dirty ELSE FALSE
    /\ UNCHANGED <<volume, repeats>>

\* A read or write fails, or the process ends, anywhere in the operation.
Abort(w) ==
    /\ task[w].pc # "idle" /\ Failed(w)
    /\ UNCHANGED <<volume, repeats, dirty>>

Steps(w) ==
    \/ \E r \in Requests : Begin(w, r)
    \/ Descend(w) \/ Target(w)
    \/ FreeBitmap(w) \/ FreeFat(w) \/ Unlink(w)
    \/ AllocBitmap(w) \/ AllocFat(w) \/ Fill(w)
    \/ FindSlot(w) \/ Link(w) \/ Grow(w) \/ Fresh(w) \/ ClearEnds(w)
    \/ WriteEntry(w) \/ Created(w) \/ Commit(w) \/ Abort(w)

\* VentoyDrive::init builds a new image beside the old one and puts it in its
\* place; who has the old one open goes on with a file nobody sees.
Recreate ==
    /\ bitmap' = Formatted.bitmap /\ fat' = Formatted.fat /\ content' = Formatted.content
    /\ dirty' = FALSE /\ repeats' = 0
    /\ task' = [w \in Writers |-> IdleWriter]

DvNext == Recreate \/ \E w \in Writers : Steps(w)
DvSpec == DvInit /\ [][DvNext]_dvVars

-----------------------------------------------------------------------------
(***************************************************************************)
(* Properties                                                              *)
(***************************************************************************)

\* The volume is marked dirty while an operation is under way
\* (begin_write_transaction).
Marked == \A w \in Writers : ~At(w, "idle") => dirty

\* Bitmap, FAT and directories are written under the mark only, and the mark goes
\* with the last step of the operation that set it, which leaves none under way;
\* only a new image does both at once (ops.rs:401).
WritesAreMarked ==
    [][/\ volume' # volume => (dirty /\ dirty') \/ Recreate
       /\ dirty /\ ~dirty' =>
            \/ Recreate
            \/ /\ \E w \in Writers : At(w, "commit") /\ ~task[w].was
               /\ \A w \in Writers : At(w, "idle")']_dvVars

\* Clusters, slots and tasks are what the code can write.
TypeOK ==
    /\ bitmap \subseteq Clusters /\ fat \in [Clusters -> Clusters \cup {Free, EndOfChain}]
    /\ \A c \in Clusters, i \in 1 .. S :
         content[c][i].kind \in {"end", "deleted", "more", "other", "file"}
    /\ dirty \in BOOLEAN /\ Marked

\* The volume as a file system check would accept it: every allocation is
\* complete and disjoint from the others, the bitmap marks exactly what is in
\* use, no name occurs twice in a directory, nothing hides behind an END slot.
Owned(l) == ToSet(IF l.at = 0 \/ l.entry.dir THEN DirClusters(l) ELSE Allocation(l.entry))
EndIsLast(ps) ==
    \A i, j \in DOMAIN ps : i < j /\ Kind(ps[j]) = "file" => Kind(ps[i]) # "end"
Locations == {RootDir} \cup {x.loc : x \in Nodes}
Sound ==
    /\ \A l \in Locations \ {RootDir} : AllocationOk(l.entry)
    /\ \A l \in Locations : l.entry.dir =>
         /\ DirClusters(l) # << >>
         /\ EndIsLast(Positions(l))
    /\ \A l, m \in Locations : l # m => Owned(l) \cap Owned(m) = {}
    /\ bitmap = UNION {Owned(l) : l \in Locations}
    /\ \A x, y \in Nodes : x.path = y.path => x = y

\* A volume that is not marked dirty is sound, whatever operations failed or
\* were cut short before: begin_write_transaction marks it before the first
\* write and finish_write_transaction clears the mark after the last, and only
\* of the operation that has set it (ops.rs:401).
CleanIsSound == ~dirty => Sound

\* An operation about to succeed on a volume that was clean has done what was
\* asked and nothing else: the target is there, or gone with all it held, its
\* data is the uploaded data, and every other file and directory is as before,
\* also when a directory had to be extended or had no FAT chain (ops.rs:1235,
\* 1284, 1874).
DoesWhatIsAsked ==
    \A w \in Writers : At(w, "commit") /\ ~task[w].was =>
        Tree = Expected(task[w].tree, task[w].req)
====
