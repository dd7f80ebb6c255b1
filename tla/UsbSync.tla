------------------------------ MODULE UsbSync ------------------------------
(***************************************************************************)
(* A folder of the host and the USB drive kept in step (usbsync.rs): in    *)
(* before the machine starts, out after it stops (main.rs), each write to  *)
(* the drive a step, and an end of the process between any two.            *)
(***************************************************************************)
EXTENDS FatVolume

CONSTANTS
    Names,        \* what files are called
    Contents,     \* what they may hold
    Folders,      \* what the folder may hold at first
    Nothing,      \* no file is being written
    TornKills,    \* whether the process may end where the volume is torn
    StraysExcused, \* whether properties excuse what a stray removal does
    Faults,       \* bound on its ends and on copies that fail
    Starts        \* volumes to begin with, each with the bound on events: what
                  \* the user and the guest do to its files, and faults

VARIABLES
    vol,          \* the drive
    shelf,        \* its files, FilesOf(vol), until a removal has gone astray
    strayed,      \* whether one has, and is excused
    folder,       \* the folder: what files hold
    stage,        \* new, off, in, running or out
    size,         \* the megabytes a new drive is asked to have
    waiting,      \* the files of the copy in progress that are still to come
    seen,         \* what was on the drive when it began
    script,       \* the writes of the file being put on the drive
    job,          \* that file
    newest,       \* who has written each file last
    faults,       \* faults left
    events        \* events left

syncVars == <<vol, shelf, strayed, folder, stage, size, waiting, seen, script, job, newest,
              faults, events>>

Has(f, n, content) == n \in DOMAIN f /\ f[n] = content
Put(f, n, content) == [m \in DOMAIN f \cup {n} |-> IF m = n THEN content ELSE f[m]]
ShelfOf(v) == IF strayed THEN shelf ELSE FilesOf(v)

SyncInit ==
    /\ \E start \in Starts : vol = start.volume /\ events = start.events
    /\ shelf = FilesOf(vol)
    /\ strayed = FALSE
    /\ folder = << >>
    /\ stage = "new"
    /\ waiting = {}
    /\ seen = {}
    /\ script = << >>
    /\ job = Nothing
    /\ newest = [n \in Names |-> "user"]
    /\ faults = Faults
    /\ size \in Megabytes

(* The drive is made, or one is there that was made elsewhere, and the     *)
(* user has put files in the folder.                                       *)
MakeDrive ==
    /\ stage = "new"
    /\ stage' = "off"
    /\ size' = 0
    /\ folder' \in Folders
    /\ UNCHANGED <<vol, shelf, strayed, waiting, seen, script, job, newest, faults, events>>

-----------------------------------------------------------------------------
(* In. *)

HostFiles ==
    /\ stage = "off"
    /\ stage' = "in"
    /\ waiting' = DOMAIN folder
    /\ seen' = List(vol)
    /\ UNCHANGED <<vol, shelf, strayed, folder, script, job, newest, faults, events>>

(* The name and the bytes are those of the folder: there is nothing to do. *)
Same(n) == \E e \in seen : e.name = n /\ e.size = Len(folder[n]) /\ ReadFile(vol, e) = folder[n]

CopyIn(n) ==
    /\ stage = "in" /\ job = Nothing /\ n \in waiting
    /\ waiting' = waiting \ {n}
    /\ IF Same(n) THEN UNCHANGED <<job, script>>
       ELSE /\ job' = [name |-> n, content |-> folder[n]]
            /\ script' = Create(vol, n, folder[n])
    /\ strayed' = (strayed \/ (/\ StraysExcused /\ ~Same(n)
                               /\ \E e \in List(vol) : e.name = n /\ GoesAstray(vol, e)))
    /\ UNCHANGED <<vol, shelf, folder, stage, seen, newest, faults, events>>

(* The next write to the drive.  The last ends the copy, and when the      *)
(* drive was full it ends without the file.                                *)
StoreWrite ==
    /\ script # << >>
    /\ vol' = Write(vol, Head(script))
    /\ shelf' = ShelfOf(vol')
    /\ script' = Tail(script)
    /\ job' = IF Tail(script) = << >> THEN Nothing ELSE job
    /\ UNCHANGED <<strayed, folder, stage, waiting, seen, newest, faults, events>>

NothingFits ==
    /\ job # Nothing /\ script = << >>
    /\ job' = Nothing
    /\ UNCHANGED <<vol, shelf, strayed, folder, stage, waiting, seen, script, newest, faults, events>>

Started ==
    /\ stage = "in" /\ waiting = {} /\ job = Nothing
    /\ stage' = "running"
    /\ seen' = {}
    /\ UNCHANGED <<vol, shelf, strayed, folder, waiting, script, job, newest, faults, events>>

-----------------------------------------------------------------------------
(* The machine runs, and has the drive to itself.  The guest's driver      *)
(* replaces a file as it deletes one.                                      *)

GuestWrites(n, content) ==
    /\ stage = "running" /\ events > 0
    /\ events' = events - 1
    /\ LET old == {e \in List(vol) : e.name = n}
           without == IF old = {} THEN vol ELSE Deleted(vol, CHOOSE e \in old : TRUE)
       IN  vol' = WriteAll(without, Create(without, n, content))
    /\ Has(FilesOf(vol'), n, content)
    /\ shelf' = ShelfOf(vol')
    /\ newest' = [newest EXCEPT ![n] = "guest"]
    /\ UNCHANGED <<strayed, folder, stage, waiting, seen, script, job, faults>>

GuestDeletes ==
    /\ stage = "running" /\ events > 0
    /\ events' = events - 1
    /\ \E e \in List(vol) : vol' = Deleted(vol, e)
    /\ shelf' = ShelfOf(vol')
    /\ UNCHANGED <<strayed, folder, stage, waiting, seen, script, job, newest, faults>>

(* The user, while nothing is being copied. *)
UserWrites(n, content) ==
    /\ stage \in {"off", "running"} /\ events > 0
    /\ events' = events - 1
    /\ folder' = Put(folder, n, content)
    /\ newest' = [newest EXCEPT ![n] = IF stage = "off" THEN "user" ELSE "user, late"]
    /\ UNCHANGED <<vol, shelf, strayed, stage, waiting, seen, script, job, faults>>

-----------------------------------------------------------------------------
(* Out. *)

Stop ==
    /\ stage = "running"
    /\ stage' = "out"
    /\ seen' = List(vol)
    /\ waiting' = {e.name : e \in List(vol)}
    /\ UNCHANGED <<vol, shelf, strayed, folder, script, job, newest, faults, events>>

(* Mutant of UpToDate: what is there already is left alone. *)
UpToDateByName(e) == e.name \in DOMAIN folder

UpToDate(e) == Has(folder, e.name, ReadFile(vol, e))

CopyOut(e) ==
    /\ stage = "out" /\ e \in seen /\ e.name \in waiting
    /\ waiting' = waiting \ {e.name}
    /\ folder' = IF UpToDate(e) THEN folder ELSE Put(folder, e.name, ReadFile(vol, e))
    /\ UNCHANGED <<vol, shelf, strayed, stage, seen, script, job, newest, faults, events>>

(* The host refuses the write: the copy goes on, and the file stays.       *)
CopyOutFails(e) ==
    /\ stage = "out" /\ e \in seen /\ e.name \in waiting
    /\ faults > 0 /\ events > 0
    /\ faults' = faults - 1
    /\ events' = events - 1
    /\ waiting' = waiting \ {e.name}
    /\ UNCHANGED <<vol, shelf, strayed, folder, stage, seen, script, job, newest>>

Stopped ==
    /\ stage = "out" /\ waiting = {}
    /\ stage' = "off"
    /\ seen' = {}
    /\ UNCHANGED <<vol, shelf, strayed, folder, waiting, script, job, newest, faults, events>>

(* The process ends: a file it was writing to the folder is cut short.     *)
Kill ==
    /\ stage \notin {"new", "off"} /\ faults > 0 /\ events > 0
    /\ TornKills \/ ~Torn(vol)
    /\ faults' = faults - 1
    /\ events' = events - 1
    /\ stage' = "off"
    /\ folder' \in {folder} \cup {Put(folder, n, << >>) : n \in IF stage = "out" THEN waiting ELSE {}}
    /\ waiting' = {} /\ seen' = {} /\ script' = << >> /\ job' = Nothing
    /\ UNCHANGED <<vol, shelf, strayed, newest>>

Work ==
    \/ HostFiles
    \/ \E n \in waiting : CopyIn(n)
    \/ StoreWrite
    \/ NothingFits
    \/ Started
    \/ \E n \in Names, c \in Contents : GuestWrites(n, c) \/ UserWrites(n, c)
    \/ GuestDeletes
    \/ Stop
    \/ \E e \in seen : CopyOut(e) \/ CopyOutFails(e)
    \/ Stopped
    \/ Kill

SyncNext == MakeDrive \/ (Work /\ UNCHANGED size)

SyncSpec == SyncInit /\ [][SyncNext]_syncVars

-----------------------------------------------------------------------------
TheShelf == INSTANCE Shelf WITH files <- shelf, job <- IF strayed THEN Nothing ELSE job,
                                Contents <- Contents \cup {<< >>}

(* Whenever the copy ends, but in the middle of writes that only make      *)
(* sense together, a file is all there or not at all, with its own name,   *)
(* and no other file changes (create and remove of fatfile.rs), until a    *)
(* removal goes astray: what lies before a file's entries on the disk is   *)
(* data that looks like a long entry, or is not where the rest of its name *)
(* is.                                                                     *)
ImplementsShelf == TheShelf!Spec

(* When no file is being written all that are listed are whole; no cluster *)
(* is of two chains, short names differ unless they have the last number,  *)
(* and no entry is past the one where the listing ends (create, allocate,  *)
(* free_slots and unique_short_name of fatfile.rs), until a removal has    *)
(* gone astray.                                                            *)
VolumeIsSound ==
    LET slots == RootSlots(vol)
        shorts == {SlotAt(vol, at) : at \in {a \in ToSet(slots) :
                        SlotAt(vol, a).kind = "short" /\ ~SlotAt(vol, a).dead}}
        chains == {ToSet(Chain(vol, Root))} \cup {ToSet(Chain(vol, s.cluster)) : s \in shorts}
        torn == Torn(vol)
    IN  ~strayed =>
            /\ script = << >> => ~torn
            /\ ~torn =>
                /\ \A c, d \in chains : c = d \/ c \cap d = {}
                /\ \A s, t \in shorts : s = t \/ s.cluster # t.cluster
                /\ \A s, t \in shorts : s = t \/ s.alias # t.alias \/ s.alias = Aliases
                /\ Cardinality(List(vol)) = Cardinality(shorts)

(* No two files have the same short name: nothing else is using it         *)
(* (fatfile.rs, line 342).                                                 *)
ShortNamesDiffer ==
    \A s, t \in ToSet(RootSlots(vol)) :
        LET a == SlotAt(vol, s)
            b == SlotAt(vol, t)
        IN  (s # t /\ a.kind = "short" /\ b.kind = "short" /\ ~a.dead /\ ~b.dead) => a.alias # b.alias

(* When the machine has stopped, the folder has what the guest wrote; when *)
(* it runs, the drive has what the user wrote before, or has no room for   *)
(* it, and never an older copy (into_drive and out_of_drive of             *)
(* usbsync.rs).  A copy that failed, an end of the process and a stray     *)
(* removal excuse.                                                         *)
NewestIsKept ==
    (faults = Faults /\ ~strayed) =>
        \A n \in DOMAIN shelf :
            /\ (stage = "off" /\ newest[n] = "guest") => Has(folder, n, shelf[n])
            /\ (stage = "running" /\ newest[n] = "user" /\ n \in DOMAIN folder) => Has(folder, n, shelf[n])

(* A file the guest was the last to write is copied over by no older one   *)
(* (usbsync.rs, lines 22 to 24).                                           *)
GuestWorkIsKept ==
    [][\A n \in Names : (CopyIn(n) /\ newest[n] = "guest" /\ n \in DOMAIN shelf) => Same(n)]_syncVars

(* A new drive has a sound layout, whatever size is asked for.             *)
LayoutsAreSound == stage = "new" => LayoutIsSound(Clamped(size))
=============================================================================
