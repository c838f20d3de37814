----------------------------- MODULE UploadStats -----------------------------
(***************************************************************************)
(* UploadService.GetUploadStats (src/pkg/services/upload.go lines 72-98): *)
(* the per-day upload totals of one user over the last `days` days.  The  *)
(* SQL spine generate_series(CURRENT_DATE - (days-1), CURRENT_DATE) is     *)
(* LEFT JOINed with teldrive.files on the day of created_at, and the WHERE *)
(* clause then keeps a joined row when its file is this user's and of type *)
(* 'file', or when the join found no file for the day (the NULL row).      *)
(* Rows are grouped by day and their sizes summed, COALESCE giving 0.      *)
(*                                                                         *)
(* The files table is written by the file handlers, which are not part of  *)
(* this repository; Upload below is that environment adding one row.       *)
(***************************************************************************)
EXTENDS Integers, FiniteSetsExt

CONSTANTS
    Users,      \* user ids
    FileIds,    \* ids of rows of teldrive.files
    Sizes,      \* file sizes
    Today,      \* CURRENT_DATE, as a day number
    DaysArgs,   \* the values of the days argument a caller passes
    NoFile      \* the NULL side of the LEFT JOIN

ASSUME StatsAssumption ==
    /\ Today \in Nat /\ DaysArgs \subseteq Nat /\ Sizes \subseteq Nat
    /\ NoFile \notin FileIds

VARIABLE
    files       \* the rows of teldrive.files: [id, user, type, day, size]

FileRow == [id : FileIds, user : Users, type : {"file", "folder"},
            day : 0..Today, size : Sizes]

-----------------------------------------------------------------------------
(* Line 79 and the first conjunct of line 85: the days of the window.     *)
Spine(days) == {d \in 0..Today : d + (days - 1) >= Today}

(* Lines 80-83: the rows the LEFT JOIN gives for day d.                    *)
Joined(d) ==
    IF \E f \in files : f.day = d
    THEN {[day |-> d, file |-> f] : f \in {g \in files : g.day = d}}
    ELSE {[day |-> d, file |-> NoFile]}

(* Mutant: the WHERE clause forgets the user (files of everyone count).    *)
KeptAnyUser(row, uid) ==
    row.file = NoFile \/ row.file.type = "file"

(* Line 85: the rest of the WHERE clause, on the joined file.              *)
Kept(row, uid) ==
    /\ row.file = NoFile \/ row.file.type = "file"
    /\ row.file = NoFile \/ row.file.user = uid

(* Line 77: COALESCE(SUM(files.size), 0) over a day's kept rows.           *)
RowSize(row) == IF row.file = NoFile THEN 0 ELSE row.file.size

(* Lines 74-97: a day is reported when one of its rows passes the WHERE;   *)
(* its total is the sum of those rows' sizes.                              *)
GetUploadStats(uid, days) ==
    LET kept(d) == {row \in Joined(d) : Kept(row, uid)}
    IN  [d \in {e \in Spine(days) : kept(e) # {}} |-> MapThenSumSet(RowSize, kept(d))]

(* What the report promises: every day of the window, with the total size *)
(* of the files the user uploaded that day, 0 for a day without any.      *)
StatsReference(uid, days) ==
    [d \in Spine(days) |->
       MapThenSumSet(LAMBDA f : f.size,
                     {f \in files : f.day = d /\ f.user = uid /\ f.type = "file"})]

-----------------------------------------------------------------------------
Init == files = {}

(* A file handler inserts a row.                                           *)
Upload ==
    \E f \in FileRow :
       /\ \A g \in files : g.id # f.id
       /\ files' = files \cup {f}

Next == Upload

Spec == Init /\ [][Next]_files

-----------------------------------------------------------------------------
(* Every day the query reports lies in the window and carries exactly the *)
(* size the user uploaded that day: the join, the NULL row and the         *)
(* COALESCE never add another user's files or a folder.                    *)
ReportedTotalsExact ==
    \A u \in Users, k \in DaysArgs :
       LET got == GetUploadStats(u, k)
           ref == StatsReference(u, k)
       IN  /\ DOMAIN got \subseteq DOMAIN ref
           /\ \A d \in DOMAIN got : got[d] = ref[d]

(* Spec section 4.6: days with zero uploads report zero rather than being *)
(* omitted, so the report covers the whole window.                         *)
EveryDayReported ==
    \A u \in Users, k \in DaysArgs :
       DOMAIN GetUploadStats(u, k) = Spine(k)

=============================================================================
