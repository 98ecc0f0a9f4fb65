------------------------------ MODULE ServedFile ------------------------------
(* A stored file behind a signed link: the three content endpoints (media     *)
(* jobs, materials, drafts), the HTTP Range arithmetic of the first two, and  *)
(* the file on the disk, which the worker may write again and a removal may   *)
(* unlink between the stat that measures it and the stream that reads it.     *)
EXTENDS Integers

CONSTANTS Sizes,    \* the sizes a stored file can have
          Offsets   \* the numbers a Range header can name

ASSUME SizesAreNatural == Sizes \subseteq Nat
ASSUME OffsetsAreNatural == Offsets \subseteq Nat

VARIABLES disk,     \* the size of the file now, or Gone
          get,      \* the request for it
          touched   \* the file changed after this request measured it

getVars == << disk, get, touched >>

Gone == -1
Blank == -1         \* a side of the range that the header leaves open

Stores == {"media", "material", "draft"}
Links == {"good", "expired", "foreign"}

(* A Range header: none, one the pattern does not match, or bytes=first-last. *)
Ranges == [is : {"none", "odd", "bytes"}, first : Offsets \cup {Blank}, last : Offsets \cup {Blank}]
NoRange == [is |-> "none", first |-> Blank, last |-> Blank]

(* What the headers promise: the status, the bytes from start to end, and     *)
(* their number.                                                              *)
Promise(status, start, end, length) ==
    [status |-> status, start |-> start, end |-> end, length |-> length]
NoPromise == Promise(0, 0, 0, 0)

NoGet == [at |-> "idle", store |-> "media", range |-> NoRange, size |-> 0,
         promise |-> NoPromise, body |-> 0]

Lesser(a, b) == IF a < b THEN a ELSE b

(* The whole file, 200.                                                       *)
Whole(size) == Promise(200, 0, size - 1, size)

(* openStreamWithRange: an open side is the file's own, a start behind the    *)
(* file is its first byte, an end is cut at the last byte and is never before *)
(* the start.                                                                 *)
StartOf(size, range) ==
    IF range.first = Blank \/ range.first >= size THEN 0 ELSE range.first

(* Mutant: the end of the range is not cut at the file's last byte.           *)
EndUncut(size, range) ==
    LET asked == IF range.last = Blank THEN size - 1 ELSE range.last
    IN  IF asked < StartOf(size, range) THEN StartOf(size, range) ELSE asked

EndOf(size, range) ==
    LET asked == IF range.last = Blank THEN size - 1 ELSE range.last
        cut == Lesser(asked, size - 1)
    IN  IF cut < StartOf(size, range) THEN StartOf(size, range) ELSE cut

Piece(size, range) ==
    Promise(206, StartOf(size, range), EndOf(size, range),
            EndOf(size, range) - StartOf(size, range) + 1)

(* The content endpoint of the drafts reads no Range header.                  *)
Answered(store, size, range) ==
    IF store # "draft" /\ range.is = "bytes" THEN Piece(size, range) ELSE Whole(size)

(* Mutant: the stream is opened without the range.                            *)
WholeStream(size, promise) == size

(* The bytes that a stream opened on a file of this size sends.  Without a    *)
(* range it reads to the end of the file, whatever was measured.              *)
Bytes(size, promise) ==
    IF promise.status = 200 THEN size
    ELSE IF promise.start >= size THEN 0
    ELSE Lesser(promise.end, size - 1) - promise.start + 1

GetInit ==
    /\ disk \in Sizes
    /\ get = NoGet
    /\ touched = FALSE

(* streamContent: verifySignedAccess throws 401 unless the link is signed for *)
(* this key and has not expired.                                              *)
Ask(store, link, range) ==
    /\ get.at = "idle"
    /\ get' = [NoGet EXCEPT !.at = IF link = "good" THEN "verified" ELSE "refused",
                           !.store = store, !.range = range]
    /\ UNCHANGED << disk, touched >>

(* resolveReadableFile: the stat that measures the file, or 404; the headers  *)
(* are computed from it before anything else can run.                         *)
Measure ==
    /\ get.at = "verified"
    /\ get' = IF disk = Gone THEN [get EXCEPT !.at = "missing"]
              ELSE [get EXCEPT !.at = "sized", !.size = disk,
                               !.promise = Answered(get.store, disk, get.range)]
    /\ UNCHANGED << disk, touched >>

(* The stream opens the file and is piped to the response; a file that is no  *)
(* longer there is a 500, because no header has been sent.                    *)
Stream ==
    /\ get.at = "sized"
    /\ get' = IF disk = Gone THEN [get EXCEPT !.at = "failed"]
              ELSE [get EXCEPT !.at = "sent", !.body = Bytes(disk, get.promise)]
    /\ UNCHANGED << disk, touched >>

(* The worker writes the file again, or a removal unlinks it.                 *)
Change(size) ==
    /\ disk # Gone
    /\ size # disk
    /\ disk' = size
    /\ touched' = (touched \/ get.at = "sized")
    /\ UNCHANGED get

(* The response is over and the next request may come.                        *)
Close ==
    /\ get.at \in {"refused", "missing", "failed", "sent"}
    /\ get' = NoGet
    /\ touched' = FALSE
    /\ UNCHANGED disk

GetNext ==
    \/ \E store \in Stores, link \in Links, range \in Ranges : Ask(store, link, range)
    \/ Measure
    \/ Stream
    \/ \E size \in Sizes \cup {Gone} : Change(size)
    \/ Close

GetSpec == GetInit /\ [][GetNext]_getVars

(* ------------------------------- properties ------------------------------ *)

Answering == get.at \in {"sized", "sent"}

GetSteps == {"idle", "refused", "verified", "missing", "sized", "failed", "sent"}
Promises == [status : {0, 200, 206}, start : Int, end : Int, length : Int]
GetStates == [at : GetSteps, store : Stores, range : Ranges, size : Sizes \cup {0},
              promise : Promises, body : Int]

ServedTypeOK ==
    /\ disk \in Sizes \cup {Gone}
    /\ get \in GetStates
    /\ touched \in BOOLEAN

(* A range that names a first byte of the file, and none before it as last.   *)
Satisfiable(size, range) ==
    /\ range.is = "bytes" /\ range.first # Blank /\ range.first < size
    /\ range.last = Blank \/ range.first <= range.last

(* openStreamWithRange, for every header a client may send: the bytes that    *)
(* Content-Range names lie in the file, in order, and Content-Length counts   *)
(* them, unless the file is empty, when a range is answered as one byte.  A   *)
(* range that can be satisfied gets the bytes it names, or those of them that *)
(* the file has.                                                              *)
PieceServed ==
    Answering /\ get.size > 0 =>
        LET p == get.promise
        IN  /\ 0 <= p.start /\ p.start <= p.end /\ p.end < get.size
            /\ p.length = p.end - p.start + 1
            /\ get.store # "draft" /\ Satisfiable(get.size, get.range) =>
                  /\ p.status = 206 /\ p.start = get.range.first
                  /\ p.end = IF get.range.last = Blank THEN get.size - 1
                             ELSE Lesser(get.range.last, get.size - 1)

(* The body is as long as Content-Length said, unless the file was changed    *)
(* between the stat and the stream, or was empty and asked for by a range.    *)
(* The draft endpoint sends no Content-Length.                                *)
BodyAsPromised ==
    get.at = "sent" /\ get.store # "draft" =>
        \/ get.body = get.promise.length
        \/ touched
        \/ get.size = 0 /\ get.promise.status = 206

(* The inductive invariant: the headers are those of the size measured, the   *)
(* file still has that size unless it was touched, and so had it when the     *)
(* body was read.                                                             *)
MeasuredInv ==
    Answering =>
        /\ get.size \in Sizes
        /\ get.promise = Answered(get.store, get.size, get.range)
        /\ get.at = "sized" => disk = get.size \/ touched
        /\ get.at = "sent" => get.body = Bytes(get.size, get.promise) \/ touched

ServedInv == ServedTypeOK /\ MeasuredInv
==============================================================================
