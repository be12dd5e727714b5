--------------------------- MODULE ChargeTracker ---------------------------
(***************************************************************************)
(* The charge log (software/src/modules/charge_tracker) and the list of    *)
(* user names that belongs to it (software/src/modules/users).             *)
(*                                                                         *)
(* Charges are appended to numbered files of FILE_RECORDS records, in one  *)
(* directory for the charger itself and one for each managed charger.  A   *)
(* record is a ChargeStart followed, when the charge ends, by a ChargeEnd. *)
(* When the files are too many the oldest one is dropped, and users that   *)
(* no record mentions any more lose their entry in the username file.      *)
(*                                                                         *)
(* LittleFS commits a file when it is closed, and the creation and removal *)
(* of a file at once.  The power can be cut between any two commits.       *)
(***************************************************************************)
EXTENDS Integers, Sequences, FiniteSetsExt

CONSTANTS
    Local,        \* the charger's own directory
    Remote,       \* directories of managed chargers
    Users,        \* user ids
    None,         \* no directory, no user
    FILE_RECORDS, \* CHARGE_RECORD_MAX_FILE_SIZE / CHARGE_RECORD_SIZE
    FILE_COUNT,   \* CHARGE_RECORD_FILE_COUNT
    ListedBefore(_, _), \* the file system lists the first file number before the second
    MaxCharges,   \* bound: number of charges
    MaxCrashes    \* bound: number of power cuts and reboots

Dirs == Remote \cup {Local}

ASSUME DirsAssumption == Local \notin Remote /\ None \notin Dirs /\ IsFiniteSet(Remote)
ASSUME FilesAssumption == FILE_RECORDS \in Nat /\ FILE_RECORDS >= 2 /\ FILE_COUNT \in Nat \ 0 .. 2
ASSUME BoundsAssumption == MaxCharges \in Nat /\ MaxCrashes \in Nat

VARIABLES
    files,                    \* directory -> file number -> sequence of records
    named,                    \* users with an entry in the username file
    names_exist,              \* the username file exists
    configured,               \* users in users/config
    total_charge_log_files,   \* RAM
    total_charge_log_entries, \* RAM; below zero the uint32_t has wrapped around
    pc,                       \* "off", "idle", or where startCharge or removeOldRecords is
    job,                      \* arguments and last_record of the running startCharge
    users_to_delete,
    booting,                  \* "setup": Users::setup may track a missed start or end,
                              \* "tracked": it has, "no": register_urls has run
    reboot_pending,           \* trigger_reboot was called
    charges,                  \* charges tracked so far; also the clock
    crashes,                  \* power cuts and reboots so far
    garbage,                  \* history: repair_last used an uninitialized record
    misread                   \* history: oldest_dir read as another directory than the one meant

disk == <<files, named, names_exist, configured>>
totals == <<total_charge_log_files, total_charge_log_entries>>
ctl == <<pc, job, users_to_delete, booting, reboot_pending>>
vars == <<disk, totals, ctl, charges, crashes, garbage, misread>>

-----------------------------------------------------------------------------
(* Files.                                                                  *)

NoFiles == [n \in {} |-> <<>>]
With(fs, n, f) == [m \in DOMAIN fs \cup {n} |-> IF m = n THEN f ELSE fs[m]]
Without(fs, n) == [m \in DOMAIN fs \ {n} |-> fs[m]]

\* found_blobs of setupRecords and getChargerChargeRecords has room for all file numbers.
FitsArray(fs) == Cardinality(DOMAIN fs) <= FILE_COUNT + 2

\* The file numbers that getChargerChargeRecords finds: it stops when the array is full.
Listed(fs) ==
    IF FitsArray(fs)
    THEN DOMAIN fs
    ELSE {n \in DOMAIN fs :
            Cardinality({m \in DOMAIN fs \ {n} : ListedBefore(m, n)}) < FILE_COUNT + 2}

\* getChargerChargeRecords: whether there are files, the first and the last one.
HasRecords(fs) == Listed(fs) # {}
FirstRecord(fs) == Min(Listed(fs))
LastRecord(fs) == Max(Listed(fs))
LastFile(fs) == fs[LastRecord(fs)]

Complete(f) == {i \in DOMAIN f : f[i].ended}
IsDamaged(f) == Len(f) # Cardinality(Complete(f))
UsersIn(f) == {f[i].user : i \in DOMAIN f}

\* The last file ends with a ChargeStart.
currentlyCharging(fs) == HasRecords(fs) /\ IsDamaged(LastFile(fs))

is_user_tracked(u) ==
    \E d \in {e \in Dirs : HasRecords(files[e])} :
        \E n \in DOMAIN files[d] \cap (FirstRecord(files[d]) .. LastRecord(files[d])) :
            u \in UsersIn(files[d][n])

IsFull(f) == Len(f) = FILE_RECORDS /\ ~IsDamaged(f)

\* setupRecords: the file numbers fit the array and have no gap, and all files but the
\* last are full.
SetupAccepts(fs) ==
    /\ FitsArray(fs)
    /\ \A n \in DOMAIN fs :
          n # LastRecord(fs) => n + 1 \in DOMAIN fs /\ IsFull(fs[n])

\* Fault: the charge that is still running counts.
FaultEntries(fs) ==
    IF HasRecords(fs)
    THEN (Cardinality(DOMAIN fs) - 1) * FILE_RECORDS + Len(LastFile(fs))
    ELSE 0

\* setupRecords: complete records, assuming that only the last file is not full.
Entries(fs) ==
    IF HasRecords(fs)
    THEN (Cardinality(DOMAIN fs) - 1) * FILE_RECORDS + Cardinality(Complete(LastFile(fs)))
    ELSE 0

\* The sum of f over S, as the number of pairs of an element and a number up to its f:
\* a definition without recursion.
SumOver(S, f(_)) == Cardinality(UNION {{x} \X (1 .. f(x)) : x \in S})

NumberOfFiles(d) == Cardinality(DOMAIN files[d])
TrackedCharges(d) == Entries(files[d])

-----------------------------------------------------------------------------
(* Power up and power down.                                                *)

\* No startCharge is running.
NoJob == [dir |-> None, user |-> None, record |-> 0]

\* A new charger with configured users.
Init ==
    /\ files = [d \in Dirs |-> NoFiles]
    /\ named = Users
    /\ names_exist = TRUE
    /\ configured = Users
    /\ total_charge_log_files = 0
    /\ total_charge_log_entries = 0
    /\ pc = "idle"
    /\ job = NoJob
    /\ users_to_delete = {}
    /\ booting = "no"
    /\ reboot_pending = FALSE
    /\ charges = 0
    /\ crashes = 0
    /\ garbage = FALSE
    /\ misread = FALSE

\* The power is cut or the ESP is restarted.
Crash ==
    /\ pc # "off"
    /\ crashes < MaxCrashes
    /\ crashes' = crashes + 1
    /\ pc' = "off"
    /\ job' = NoJob
    /\ users_to_delete' = {}
    /\ booting' = "no"
    /\ reboot_pending' = FALSE
    /\ total_charge_log_files' = 0
    /\ total_charge_log_entries' = 0
    /\ UNCHANGED <<disk, charges, garbage, misread>>

\* ChargeTracker::setup, then Users::setup up to the tracking of what was missed
\* (startCharge and endCharge while booting).
Setup ==
    /\ pc = "off"
    /\ SetupAccepts(files[Local])
    /\ pc' = "idle"
    /\ booting' = "setup"
    /\ total_charge_log_files' = SumOver({d \in Dirs : FitsArray(files[d])}, NumberOfFiles)
    /\ total_charge_log_entries' = SumOver({d \in Dirs : SetupAccepts(files[d])}, TrackedCharges)
    /\ names_exist' = TRUE
    /\ named' = IF names_exist THEN named ELSE configured
    /\ UNCHANGED <<files, configured, job, users_to_delete, reboot_pending, charges, crashes,
                   garbage, misread>>

\* register_urls drops a file if there are too many.
RegisterUrls ==
    /\ pc = "idle"
    /\ booting # "no"
    /\ pc' = "remove"
    /\ booting' = "no"
    /\ UNCHANGED <<disk, totals, job, users_to_delete, reboot_pending, charges, crashes, garbage,
                   misread>>

-----------------------------------------------------------------------------
(* startCharge.                                                            *)

\* repair_last returns false.  The penultimate file is needed when the last one
\* holds a single charge.
RepairRefuses(fs) ==
    /\ HasRecords(fs)
    /\ \/ IsDamaged(LastFile(fs))
       \/ /\ Len(LastFile(fs)) = 1
          /\ LastRecord(fs) > 1
          /\ \/ LastRecord(fs) - 1 \notin DOMAIN fs
             \/ IsDamaged(fs[LastRecord(fs) - 1])
             \/ Len(fs[LastRecord(fs) - 1]) < 2

\* What repair_last may leave in the last file.  It only corrects meter values,
\* but if the file is empty the record it looks at is uninitialized and, if it
\* looks repairable, is written to the file.
RepairedFiles(f) ==
    {f} \cup (IF f = <<>> THEN {<<[user |-> u, start |-> 0, ended |-> TRUE]>> : u \in Users} ELSE {})

\* Fault: a new file is started one record early.
FaultNeedsNewFile(f) == Len(f) = FILE_RECORDS - 1

NeedsNewFile(f) == IsFull(f)

\* Users::setup tracks at most one start or end, of the charger itself.
MayTrack(d) == booting = "no" \/ (booting = "setup" /\ d = Local)

\* startCharge up to the first commit; the callers check currentlyCharging.
startCharge(d, u) ==
    /\ pc = "idle"
    /\ MayTrack(d)
    /\ booting' = IF booting = "no" THEN "no" ELSE "tracked"
    /\ charges < MaxCharges
    /\ u \in configured
    /\ ~currentlyCharging(files[d])
    /\ ~RepairRefuses(files[d])
    /\ \/ /\ ~HasRecords(files[d])
          /\ files' = [files EXCEPT ![d] = With(@, 1, <<>>)]
          /\ pc' = "write"
          /\ job' = [dir |-> d, user |-> u, record |-> 1]
          /\ UNCHANGED garbage
       \/ /\ HasRecords(files[d])
          /\ \E f \in RepairedFiles(LastFile(files[d])) :
                files' = [files EXCEPT ![d] = With(@, LastRecord(@), f)]
          /\ garbage' = (garbage \/ LastFile(files[d]) = <<>>)
          /\ LET full == NeedsNewFile(LastFile(files[d]))
                 last == LastRecord(files[d])
             IN  /\ pc' = IF full THEN "remove" ELSE "write"
                 /\ job' = [dir |-> d, user |-> u, record |-> IF full THEN last + 1 ELSE last]
    /\ UNCHANGED <<named, names_exist, configured, totals, users_to_delete, reboot_pending,
                   charges, crashes, misread>>

\* The new file.
CreateFile ==
    /\ pc = "create"
    /\ pc' = "write"
    /\ files' = [files EXCEPT ![job.dir] = With(@, job.record, <<>>)]
    /\ total_charge_log_files' = total_charge_log_files + 1
    /\ UNCHANGED <<named, names_exist, configured, total_charge_log_entries, job, users_to_delete,
                   booting, reboot_pending, charges, crashes, garbage, misread>>

\* Fault: the file is opened with "w".
FaultAppended(f, r) == <<r>>

Appended(f, r) == Append(f, r)

\* The ChargeStart.
WriteStart ==
    /\ pc = "write"
    /\ pc' = "idle"
    /\ job' = NoJob
    /\ charges' = charges + 1
    /\ files' = [files EXCEPT ![job.dir][job.record] =
                    Appended(@, [user |-> job.user, start |-> charges + 1, ended |-> FALSE])]
    /\ UNCHANGED <<named, names_exist, configured, totals, users_to_delete, booting,
                   reboot_pending, crashes, garbage, misread>>

\* endCharge; the callers check currentlyCharging.
endCharge(d) ==
    /\ pc = "idle"
    /\ MayTrack(d)
    /\ booting' = IF booting = "no" THEN "no" ELSE "tracked"
    /\ currentlyCharging(files[d])
    /\ files' = [files EXCEPT ![d][LastRecord(files[d])][Len(LastFile(files[d]))].ended = TRUE]
    /\ total_charge_log_entries' = total_charge_log_entries + IF d = Local THEN 1 ELSE 0
    /\ UNCHANGED <<named, names_exist, configured, total_charge_log_files, pc, job,
                   users_to_delete, reboot_pending, charges, crashes, garbage, misread>>

-----------------------------------------------------------------------------
(* removeOldRecords.                                                       *)

AfterRemove == IF job = NoJob THEN "idle" ELSE "create"

\* Fault: one file too many is kept.
FaultTooManyFiles == total_charge_log_files > FILE_COUNT

TooManyFiles == total_charge_log_files >= FILE_COUNT

\* Directories a file may be taken from.
Candidates == {d \in Dirs : HasRecords(files[d]) /\ FirstRecord(files[d]) # LastRecord(files[d])}

NothingToRemove ==
    /\ pc = "remove"
    /\ ~TooManyFiles \/ Candidates = {}
    /\ pc' = AfterRemove
    /\ UNCHANGED <<disk, totals, job, users_to_delete, booting, reboot_pending, charges, crashes,
                   garbage, misread>>

\* Fault: first and last record are mixed up.
FaultVictim(fs) == LastRecord(fs)

Victim(fs) == FirstRecord(fs)

\* What oldest_dir reads as after the scan.  For a subdirectory it points into
\* the file name that for_filename_in has freed: this name, that of a directory
\* listed later, the empty name, which is the charger's own directory, or no directory.
OldestDir(d) == IF d = Local THEN {Local} ELSE Dirs \cup {None}

\* clear_users_in_use: the users found in what is taken for the other files.  The
\* last file of each directory is left out and all files are looked up in
\* oldest_dir.
UsersInUse(fs, oldest_dir) ==
    LET numbers == UNION {FirstRecord(fs[d]) .. (LastRecord(fs[d]) - 1) :
                            d \in {e \in Dirs : HasRecords(fs[e])}}
    IN  IF oldest_dir = None
        THEN {}
        ELSE UNION {UsersIn(fs[oldest_dir][n]) : n \in numbers \cap DOMAIN fs[oldest_dir]}

\* The time stamps are read behind the end of the file, into an uninitialized
\* buffer: the scan settles on any candidate.  (On none only if the buffer reads
\* as UINT32_MAX for every one of them, which is left out.)
RemoveFile ==
    /\ pc = "remove"
    /\ TooManyFiles
    /\ \E d \in Candidates : \E oldest_dir \in OldestDir(d) :
          LET n == Victim(files[d])
              found == oldest_dir # None /\ n \in DOMAIN files[oldest_dir]
              fs == IF found THEN [files EXCEPT ![oldest_dir] = Without(@, n)] ELSE files
              gone == IF found THEN UsersIn(files[oldest_dir][n]) ELSE {}
          IN  /\ files' = fs
              /\ users_to_delete' = gone \ UsersInUse(fs, oldest_dir)
              /\ pc' = IF users_to_delete' = {} THEN AfterRemove ELSE "users"
              /\ misread' = (misread \/ oldest_dir # d)
    /\ total_charge_log_files' = total_charge_log_files - 1
    /\ total_charge_log_entries' = total_charge_log_entries - FILE_RECORDS
    /\ UNCHANGED <<named, names_exist, configured, job, booting, reboot_pending, charges, crashes,
                   garbage>>

\* remove_from_username_file for one of the users.
RemoveName(u) ==
    /\ pc = "users"
    /\ u \in users_to_delete
    /\ users_to_delete' = users_to_delete \ {u}
    /\ named' = IF u \in configured THEN named ELSE named \ {u}
    /\ pc' = IF users_to_delete' = {} THEN AfterRemove ELSE "users"
    /\ UNCHANGED <<files, names_exist, configured, totals, job, booting, reboot_pending, charges,
                   crashes, garbage, misread>>

-----------------------------------------------------------------------------
(* Users and the removal of all charges.                                   *)

\* users/add with the id of a free entry of the username file.
AddUser(u) ==
    /\ pc = "idle"
    /\ booting = "no"
    /\ u \notin configured \cup named
    /\ configured' = configured \cup {u}
    /\ named' = IF names_exist THEN named \cup {u} ELSE named
    /\ UNCHANGED <<files, names_exist, totals, ctl, charges, crashes, garbage, misread>>

\* users/remove keeps the name of a user that has tracked charges.
RemoveUser(u) ==
    /\ pc = "idle"
    /\ booting = "no"
    /\ u \in configured
    /\ configured' = configured \ {u}
    /\ named' = IF is_user_tracked(u) THEN named ELSE named \ {u}
    /\ UNCHANGED <<files, names_exist, totals, ctl, charges, crashes, garbage, misread>>

\* charge_tracker/remove_all_charges, which restarts the ESP a second later.
remove_all_charges ==
    /\ pc = "idle"
    /\ booting = "no"
    /\ files' = [d \in Dirs |-> NoFiles]
    /\ named' = {}
    /\ names_exist' = FALSE
    /\ reboot_pending' = TRUE
    /\ misread' = FALSE
    /\ UNCHANGED <<configured, totals, pc, job, users_to_delete, booting, charges, crashes, garbage>>

-----------------------------------------------------------------------------
Next ==
    \/ Crash
    \/ Setup
    \/ RegisterUrls
    \/ \E d \in Dirs, u \in Users : startCharge(d, u)
    \/ CreateFile
    \/ WriteStart
    \/ \E d \in Dirs : endCharge(d)
    \/ NothingToRemove
    \/ RemoveFile
    \/ \E u \in Users : RemoveName(u)
    \/ \E u \in Users : AddUser(u)
    \/ \E u \in Users : RemoveUser(u)
    \/ remove_all_charges

Spec == Init /\ [][Next]_vars

-----------------------------------------------------------------------------
Charge == [user : Users, start : Nat, ended : BOOLEAN]

\* The files of a directory have bounded numbers.
FilesTypeOK ==
    DOMAIN files = Dirs /\ \A d \in Dirs : \E b \in Nat : DOMAIN files[d] \subseteq 1 .. b

ControlTypeOK ==
    /\ named \subseteq Users /\ configured \subseteq Users /\ names_exist \in BOOLEAN
    /\ total_charge_log_files \in Nat
    /\ pc \in {"off", "idle", "remove", "users", "create", "write"}
    /\ job = NoJob \/ job \in [dir : Dirs, user : Users, record : Nat \ {0}]
    /\ booting \in {"setup", "tracked", "no"} /\ reboot_pending \in BOOLEAN
    /\ charges \in Nat /\ crashes \in 0 .. MaxCrashes /\ garbage \in BOOLEAN
    /\ misread \in BOOLEAN

\* The types.  What is in the files of managed chargers is left open here: without the
\* invariants of the charger's own log they hold whatever was tracked.
TypeOK == FilesTypeOK /\ ControlTypeOK

\* Whatever is interrupted by a power cut, and whatever managed chargers track, setup
\* finds the charger's own charge log in order: no more files than it can collect, no
\* gap, full files and at most one running charge at the end.  It does as long as
\* oldest_dir has been read as the directory it was set to; section 6 of the README says
\* what happens once it has not.
LocalLogInOrder ==
    ~misread =>
        /\ SetupAccepts(files[Local])
        /\ \A n \in DOMAIN files[Local] : Len(files[Local][n]) <= FILE_RECORDS
        /\ HasRecords(files[Local]) =>
              \A i \in DOMAIN LastFile(files[Local]) :
                 i < Len(LastFile(files[Local])) => LastFile(files[Local])[i].ended

\* No managed charger has tracked a charge since the log was last emptied.
OnlyOwnCharges == \A r \in Remote : DOMAIN files[r] = {}

\* The files of each directory fit the array that setupRecords and
\* getChargerChargeRecords collect their numbers in, with room for one more: the first
\* file of a directory is not counted and the last one is not dropped.
FilesFitArray == ~misread => \A d \in Dirs : Cardinality(DOMAIN files[d]) <= FILE_COUNT + 1

CompleteRecords == UNION {{n} \X Complete(files[Local][n]) : n \in DOMAIN files[Local]}

\* tracked_charges is the number of complete charges in the log as long as
\* managed chargers have none, unless repair_last made one up.
TrackedChargesCorrect ==
    pc # "off" /\ ~reboot_pending /\ ~garbage /\ OnlyOwnCharges =>
        total_charge_log_entries = Cardinality(CompleteRecords)

\* The two counters of the log stay right over power cuts and dropped files: the number
\* of files bounds what the arrays have to hold, the number of charges is what the log
\* holds.
CountersCorrect == FilesFitArray /\ TrackedChargesCorrect

\* A charger whose managed chargers have no charges never gets stuck:
\* repair_last does not refuse the next charge once the previous one has ended.
NextChargeAccepted ==
    OnlyOwnCharges /\ ~currentlyCharging(files[Local]) => ~RepairRefuses(files[Local])

\* A tracked charge of the charger stays in the log as it is, apart from its end, until
\* its file is the first of the own directory and dropped as a whole, or all charges are
\* removed, whatever managed chargers track.  It does as long as oldest_dir has been
\* read as the directory it was set to.
LogIsKept ==
    [][ \/ misread'
        \/ remove_all_charges
        \/ \A n \in DOMAIN files[Local] :
              LET f == files[Local][n]
                  g == files'[Local][n]
              IN  IF n \in DOMAIN files'[Local]
                  THEN /\ Len(g) >= Len(f)
                       /\ \A i \in DOMAIN f : /\ g[i].user = f[i].user
                                              /\ g[i].start = f[i].start
                                              /\ f[i].ended => g[i].ended
                  ELSE n = FirstRecord(files[Local]) /\ IsFull(f) ]_vars

\* Not kept by the code, see section 6 of the README:
\* charge_tracker.cpp: "Two more to handle power cycles where a new record was created
\* but the oldest one was not yet deleted."
FilesAlwaysFit == \A d \in Dirs : FitsArray(files[d])

\* Not kept by the code, see section 6 of the README:
\* charge_tracker.cpp: "Now only users that are safe to remove remain.", after
\* "Remove users from users_to_delete that are still tracked in other charge
\* records."
OnlySafeUsersRemoved ==
    pc = "users" => \A u \in users_to_delete \ configured : ~is_user_tracked(u)

Age(fs) == fs[FirstRecord(fs)][FILE_RECORDS].start

\* Not kept by the code, see section 6 of the README:
\* charge_tracker.cpp: "Find the directory with the oldest charge-record that
\* has at least 2 files".
OldestFileDropped ==
    [][ RemoveFile /\ files' # files =>
        \E d \in Candidates :
            /\ \A e \in Candidates : Age(files[d]) <= Age(files[e])
            /\ files' = [files EXCEPT ![d] = Without(@, FirstRecord(@))] ]_vars

\* Not kept by the code, see section 6 of the README:
\* charge_tracker.cpp: "Can't repair last charge: Penultimate tracked charge
\* file is damaged!"
RefusedOnlyIfDamaged ==
    \A d \in Dirs :
        ~currentlyCharging(files[d]) /\ RepairRefuses(files[d]) =>
            LastRecord(files[d]) - 1 \in DOMAIN files[d]
=============================================================================
