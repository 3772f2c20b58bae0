------------------------------ MODULE Shipments ------------------------------
(****************************************************************************)
(* ShipmentService: a shipment is a row of the database and an image in a   *)
(* directory.  Nothing ties the two stores together: a creation writes the  *)
(* file, draws a number, saves the row, and removes the file if the save    *)
(* throws; a deletion removes the file, then the row.  Requests overlap,    *)
(* saves fail, uploads break off, and the process may die between any two   *)
(* steps; a new process has a generator without memory.                     *)
(*                                                                          *)
(* A file name is a time stamp and 32 random bits and is taken to be fresh. *)
(* Row ids are fresh as well (AUTOINCREMENT), so the name stands for both.  *)
(* An image that is refused (type, size) changes nothing and is left out.   *)
(****************************************************************************)
EXTENDS Snowflake

CONSTANTS
    Files,      \* names an image may be stored under
    MaxBoots    \* bound of the processes

ASSUME BootsBound == MaxBoots \in Nat
ASSUME NoneIsNoFile == None \notin Files

VARIABLES
    boots,      \* processes that have died
    rows,       \* the table Shipments
    files,      \* the storage directory
    named,      \* names ever given to a file (history)
    request,    \* what each request is doing
    strays,     \* files left behind by a crash, a broken upload or a removal
                \* that failed (history)
    torn        \* shipments whose deletion got no further than the file
                \* (history)

storeVars == <<rows, files, named, request, strays, torn>>

vars == <<generatorVars, boots, storeVars>>

Row == [file : Files, ms : Int, seq : 0 .. MaxSequence]

Phase == { "idle",
           "upload",    \* CreateAsync: the file exists and is being filled
           "save",      \* it is full: about to draw a number and to save
           "undo",      \* SaveChangesAsync threw
           "unlink",    \* DeleteAsync: has read the row
           "remove" }   \* has removed the file

Idle == [phase |-> "idle", file |-> None]

Request == [phase : Phase \ {"idle"}, file : Files] \cup {Idle}

ShipmentsTypeOK ==
    /\ GeneratorTypeOK
    /\ boots \in 0 .. MaxBoots
    /\ rows \subseteq Row
    /\ files \subseteq Files /\ named \subseteq Files
    /\ request \in [Callers -> Request]
    /\ strays \subseteq Files /\ torn \subseteq Files

Init ==
    /\ GeneratorInit
    /\ boots = 0
    /\ rows = {} /\ files = {} /\ named = {}
    /\ request = [r \in Callers |-> Idle]
    /\ strays = {} /\ torn = {}

RowFiles == {row.file : row \in rows}

In(r, phase) == request[r].phase = phase

Goes(r, phase) == request' = [request EXCEPT ![r].phase = phase]

(* The handler returns, or its exception does.                             *)
Ends(r) == request' = [request EXCEPT ![r] = Idle]

Creating == {"upload", "save", "undo"}

FilesOf(phases) == {request[r].file : r \in {s \in Callers : request[s].phase \in phases}}

(***************************** CreateAsync ********************************)
(* Mutant of FreshFile: only names in the directory are avoided.           *)
FreshFileThere(f) == f \notin files

FreshFile(f) == f \notin named

BeginCreate(r) ==
    /\ In(r, "idle")
    /\ \E f \in Files :
        /\ FreshFile(f)
        /\ files' = files \cup {f}
        /\ named' = named \cup {f}
        /\ request' = [request EXCEPT ![r] = [phase |-> "upload", file |-> f]]
    /\ UNCHANGED <<generatorVars, boots, rows, strays, torn>>

Uploaded(r) ==
    /\ In(r, "upload")
    /\ Goes(r, "save")
    /\ UNCHANGED <<generatorVars, boots, rows, files, named, strays, torn>>

(* CopyToAsync throws outside of the try: the file stays.                  *)
UploadBreaks(r) ==
    /\ In(r, "upload")
    /\ Ends(r)
    /\ strays' = strays \cup {request[r].file}
    /\ UNCHANGED <<generatorVars, boots, rows, files, named, torn>>

DrawNumber(r) ==
    /\ In(r, "save") /\ drawn[r] = None
    /\ NextId(r) \/ Spin(r)
    /\ UNCHANGED <<boots, storeVars>>

(* The unique index on ShipmentNo.                                         *)
IndexAllows(d) == \A row \in rows : row.ms # d.ms \/ row.seq # d.seq

Save(r) ==
    /\ In(r, "save") /\ drawn[r] # None
    /\ IndexAllows(drawn[r])
    /\ rows' = rows \cup {[file |-> request[r].file, ms |-> drawn[r].ms, seq |-> drawn[r].seq]}
    /\ drawn' = [drawn EXCEPT ![r] = None]
    /\ Ends(r)
    /\ UNCHANGED <<clock, lastMs, sequence, spinner, boots, files, named, strays, torn>>

(* Mutants of SaveFails: the file is not removed; the row is kept.         *)
SaveFailsForgotten(r) ==
    /\ In(r, "save") /\ drawn[r] # None
    /\ drawn' = [drawn EXCEPT ![r] = None]
    /\ Ends(r)
    /\ UNCHANGED <<clock, lastMs, sequence, spinner, boots, rows, files, named, strays, torn>>

SaveFailsHalfway(r) ==
    /\ In(r, "save") /\ drawn[r] # None
    /\ rows' = rows \cup {[file |-> request[r].file, ms |-> drawn[r].ms, seq |-> drawn[r].seq]}
    /\ drawn' = [drawn EXCEPT ![r] = None]
    /\ Goes(r, "undo")
    /\ UNCHANGED <<clock, lastMs, sequence, spinner, boots, files, named, strays, torn>>

(* The index refuses the number, or the database fails.                    *)
SaveFails(r) ==
    /\ In(r, "save") /\ drawn[r] # None
    /\ drawn' = [drawn EXCEPT ![r] = None]
    /\ Goes(r, "undo")
    /\ UNCHANGED <<clock, lastMs, sequence, spinner, boots, rows, files, named, strays, torn>>

Undo(r) ==
    /\ In(r, "undo")
    /\ files' = files \ {request[r].file}
    /\ Ends(r)
    /\ UNCHANGED <<generatorVars, boots, rows, named, strays, torn>>

(* File.Delete throws in the catch.                                        *)
UndoFails(r) ==
    /\ In(r, "undo")
    /\ Ends(r)
    /\ strays' = strays \cup {request[r].file}
    /\ UNCHANGED <<generatorVars, boots, rows, files, named, torn>>

(***************************** DeleteAsync ********************************)
BeginDelete(r) ==
    /\ In(r, "idle")
    /\ \E f \in RowFiles : request' = [request EXCEPT ![r] = [phase |-> "unlink", file |-> f]]
    /\ UNCHANGED <<generatorVars, boots, rows, files, named, strays, torn>>

Unlink(r) ==
    /\ In(r, "unlink")
    /\ files' = files \ {request[r].file}
    /\ Goes(r, "remove")
    /\ UNCHANGED <<generatorVars, boots, rows, named, strays, torn>>

(* File.Delete throws before the row is touched.                           *)
UnlinkFails(r) ==
    /\ In(r, "unlink")
    /\ Ends(r)
    /\ UNCHANGED <<generatorVars, boots, rows, files, named, strays, torn>>

Remove(r) ==
    /\ In(r, "remove") /\ request[r].file \in RowFiles
    /\ rows' = {row \in rows : row.file # request[r].file}
    /\ torn' = torn \ {request[r].file}
    /\ Ends(r)
    /\ UNCHANGED <<generatorVars, boots, files, named, strays>>

(* Another deletion has removed the row, or the database fails.            *)
RemoveFails(r) ==
    /\ In(r, "remove")
    /\ torn' = torn \cup ({request[r].file} \cap RowFiles)
    /\ Ends(r)
    /\ UNCHANGED <<generatorVars, boots, rows, files, named, strays>>

(***************************** The process ********************************)
Crash ==
    /\ boots < MaxBoots
    /\ boots' = boots + 1
    /\ NewGenerator
    /\ request' = [r \in Callers |-> Idle]
    /\ strays' = strays \cup FilesOf(Creating)
    /\ torn' = torn \cup (FilesOf({"remove"}) \cap RowFiles)
    /\ UNCHANGED <<clock, rows, files, named>>

Tick == ClockJumps /\ UNCHANGED <<boots, storeVars>>

Handle(r) ==
    \/ BeginCreate(r) \/ Uploaded(r) \/ UploadBreaks(r) \/ DrawNumber(r)
    \/ Save(r) \/ SaveFails(r) \/ Undo(r) \/ UndoFails(r)
    \/ BeginDelete(r) \/ Unlink(r) \/ UnlinkFails(r) \/ Remove(r) \/ RemoveFails(r)

Next == (\E r \in Callers : Handle(r)) \/ Crash \/ Tick

Spec == Init /\ [][Next]_vars

(* The scheduler gives the lock's holder the processor again and again,    *)
(* and a clock that was set back does not stay behind for ever.            *)
Fairness ==
    /\ \A r \in Callers : SF_vars(spinner = r /\ DrawNumber(r))
    /\ WF_vars(ClockCatchesUp /\ UNCHANGED <<boots, storeVars>>)

FairSpec == Spec /\ Fairness

(**************************** What must hold ******************************)
(* CreateAsync and DeleteAsync leave no file behind: a file in the         *)
(* directory belongs to a row or to a creation in progress, unless the     *)
(* process died or the upload broke off under the creation that wrote it,  *)
(* or the storage refused to remove it.  In particular a creation whose    *)
(* number the index refuses, after a restart with the clock set back,      *)
(* takes its file away.                                                    *)
FilesHaveRows == files \subseteq RowFiles \cup FilesOf(Creating) \cup strays

(* A row has its file: no creation that failed takes away the file of one  *)
(* that was saved, and only a deletion in progress, or one whose save      *)
(* failed or was cut off, leaves a row without.                            *)
RowsHaveFiles == RowFiles \subseteq files \cup FilesOf({"remove"}) \cup torn

(* Numbers drawn by one process increase, whatever the clock does:         *)
(* NextId clamps a clock set back and waits out an exhausted millisecond.  *)
N == INSTANCE Numbering WITH era <- boots, last <- LastNumber

NumbersIncrease == N!NumberingSpec

(* The pages that list shipments show a picture from the save of its row   *)
(* to the removal of its file, once, and never another in its place.       *)
A == INSTANCE ShipmentAlbum WITH
        Pictures <- Files, shown <- RowFiles \cap files, past <- named \ files

PicturesStay == A!AlbumSpec

(* Whoever spins inside the generator's lock, with all other creations     *)
(* waiting for it, gets a number.                                          *)
SpinEnds == spinner # None ~> spinner = None
=============================================================================
