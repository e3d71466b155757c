------------------------------ MODULE UnixFile ------------------------------
(***************************************************************************)
(* The files of unixio.h over CP/M: cpm/OPEN.C, CREAT.C, CLOSE.C, READ.C,  *)
(* WRITE.C, SEEK.C, DUP.C, UNLINK.C, RENAME.C, GETFCB.C, CLEANUP.C,        *)
(* SIGNAL.C and GETUID.AS.                                                 *)
(*                                                                         *)
(* CP/M reads and writes whole sectors, finds a file under the current     *)
(* user number only, and forgets what was written to a file that is not    *)
(* closed.  read() and write() go sector by sector, switching to the user  *)
(* number of the file and back each time, and before each sector poll the  *)
(* console for control-C: there the program's own handler runs, or the     *)
(* program ends, in the middle of the transfer.  Each of these points is a *)
(* step of the model; a call that never polls is one step.                 *)
(***************************************************************************)
EXTENDS Integers, Sequences, FiniteSets

CONSTANTS
  MAXFILE,   \* descriptors
  SECSIZE,   \* bytes in a sector
  MaxRec,    \* sectors a file may have
  Capacity,  \* sectors on the disk
  Users,     \* user numbers
  Files,     \* file names, without user number
  Devices,   \* devices a program opens: use codes U_CON and up
  Lens,      \* lengths of the transfers the program asks for
  Byte,      \* what it writes
  CPMETX,    \* ctrl-Z
  Modes,     \* modes it opens files with: 0, 1, 2
  Actions    \* what it tells signal() to do: "ignore", "handler", "default"

U_FREE == 0
U_READ == 1
U_WRITE == 2
U_RDWR == 3
U_CON  == 4

Fd  == 0..(MAXFILE - 1)
Rec == 0..(MaxRec - 1)
Pos == 0..(MaxRec * SECSIZE - 1)
ANY == -1     \* a name without a user number
NoFile == <<>>
NoSector == <<>>  \* a record nobody wrote

ASSUME UnixFileAssumption ==
  /\ MAXFILE \in Nat \ {0} /\ SECSIZE \in Nat \ {0} /\ MaxRec \in Nat \ {0}
  /\ Capacity \in Nat
  /\ Users \subseteq Nat /\ Users # {}
  /\ Devices \subseteq 4..7
  /\ Lens \subseteq Nat /\ Byte \subseteq Nat /\ CPMETX \in Nat
  /\ Modes \subseteq 0..2
  /\ Actions \subseteq {"default", "ignore", "handler"}

VARIABLES
  uid,      \* CP/M's current user number
  disk,     \* (user, file) -> NoFile or its sectors
  unsaved,  \* descriptors whose file lost its directory entry if not closed
  fcb,      \* _fcb[]
  where,    \* what control-C does: "default", "ignore" or "handler"
  pc, op,   \* the call in progress
  self,     \* history: the user number the program itself chose
  owned     \* history: descriptors the program holds

vars == <<uid, disk, unsaved, fcb, where, pc, op, self, owned>>

(* Full names, as fc_parse() makes them: a name without a user number is   *)
(* one of the current user.                                                *)
Key  == Users \X Files
Name == [user : Users \cup {ANY}, file : Files]
FcParse(n) == <<IF n.user = ANY THEN uid ELSE n.user, n.file>>

Free == [use |-> U_FREE, name |-> <<>>, rwp |-> 0]

NoOp == [kind |-> "none", fd |-> 0, count |-> 0, left |-> 0, luid |-> 0,
         data |-> 0, start |-> 0, got |-> <<>>, utmp |-> U_FREE, ret |-> 0]

OnFile(fd) == fcb[fd].use \in {U_READ, U_WRITE, U_RDWR}

(* The descriptors that are open when the program starts are the console's. *)
Init ==
  /\ uid \in Users
  /\ disk = [k \in Key |-> NoFile]
  /\ unsaved = {}
  /\ fcb = [fd \in Fd |-> IF fd = 0 THEN [Free EXCEPT !.use = U_CON] ELSE Free]
  /\ where = "default"
  /\ pc = "client" /\ op = NoOp
  /\ self = uid
  /\ owned = {0}
-----------------------------------------------------------------------------
(***************************************************************************)
(* CP/M, as far as the library uses it.  A file is sought under the        *)
(* current user number.                                                    *)
(***************************************************************************)

Sectors(k) == IF disk[k] = NoFile THEN {} ELSE {r \in Rec : disk[k][r] # NoSector}

Full == Cardinality(UNION {{k} \X Sectors(k) : k \in Key}) >= Capacity

Here(name) == <<uid, name[2]>>

BdosRead(k, r) == IF k \in Key /\ r \in Sectors(k) THEN disk[k][r] ELSE NoSector

BdosCanWrite(k, r) == disk[k] # NoFile /\ (r \in Sectors(k) \/ (r \in Rec /\ ~Full))
-----------------------------------------------------------------------------
(***************************************************************************)
(* Calls that do not poll the console.  They are made by the program, or   *)
(* by its handler, which leaves the descriptor of the interrupted call     *)
(* alone.                                                                  *)
(***************************************************************************)

InControl == pc \in {"client", "handler"}
Mine(fd)  == fd \in owned /\ (pc = "handler" => fd # op.fd)

(* A program does not remove a file it has open. *)
Closed(k) == \A fd \in Fd : ~(OnFile(fd) /\ fcb[fd].name = k)

FreeSlots == {fd \in Fd : fcb[fd].use = U_FREE}

GetFcb == CHOOSE fd \in FreeSlots : \A x \in FreeSlots : fd <= x

OpenDevice(dev) ==
  /\ InControl /\ FreeSlots # {}
  /\ fcb' = [fcb EXCEPT ![GetFcb] = [Free EXCEPT !.use = dev]]
  /\ owned' = owned \cup {GetFcb}
  /\ UNCHANGED <<uid, disk, unsaved, where, pc, op, self>>

OpenUse(mode) == IF mode + 1 > U_RDWR THEN U_RDWR ELSE mode + 1

PutFcbNever(k) == [use |-> U_READ, name |-> k, rwp |-> 0]
PutFcb(k)      == Free

OpenFile(n, mode) ==
  /\ InControl /\ FreeSlots # {}
  /\ LET k == FcParse(n)
     IN IF disk[k] # NoFile
          THEN /\ fcb' = [fcb EXCEPT ![GetFcb] = [use |-> OpenUse(mode), name |-> k, rwp |-> 0]]
               /\ owned' = owned \cup {GetFcb}
          ELSE /\ fcb' = [fcb EXCEPT ![GetFcb] = PutFcb(k)]
               /\ UNCHANGED owned
  /\ UNCHANGED <<uid, disk, unsaved, where, pc, op, self>>

(* creat() removes the file of that name first; the directory may be full. *)
Creat(n) ==
  /\ InControl /\ FreeSlots # {}
  /\ LET k == FcParse(n)
     IN /\ Closed(k)
        /\ \/ /\ disk' = [disk EXCEPT ![k] = [r \in Rec |-> NoSector]]
              /\ fcb' = [fcb EXCEPT ![GetFcb] = [use |-> U_WRITE, name |-> k, rwp |-> 0]]
              /\ owned' = owned \cup {GetFcb}
           \/ /\ disk' = [disk EXCEPT ![k] = NoFile]
              /\ UNCHANGED <<fcb, owned>>
  /\ UNCHANGED <<uid, unsaved, where, pc, op, self>>

WritersOnly(use) == use = U_WRITE
MustClose(use)   == use \in {U_WRITE, U_RDWR}

Close(fd) ==
  /\ InControl /\ Mine(fd)
  /\ unsaved' = IF MustClose(fcb[fd].use) THEN unsaved \ {fd} ELSE unsaved
  /\ fcb' = [fcb EXCEPT ![fd] = Free]
  /\ owned' = owned \ {fd}
  /\ UNCHANGED <<uid, disk, where, pc, op, self>>

(* The copy has a position of its own from here on. *)
Dup(fd) ==
  /\ InControl /\ Mine(fd) /\ FreeSlots # {}
  /\ fcb' = [fcb EXCEPT ![GetFcb] = fcb[fd]]
  /\ unsaved' = IF fd \in unsaved THEN unsaved \cup {GetFcb} ELSE unsaved
  /\ owned' = owned \cup {GetFcb}
  /\ UNCHANGED <<uid, disk, where, pc, op, self>>

LSeek(fd, pos) ==
  /\ InControl /\ Mine(fd) /\ OnFile(fd)
  /\ pos >= 0
  /\ fcb' = [fcb EXCEPT ![fd].rwp = pos]
  /\ UNCHANGED <<uid, disk, unsaved, where, pc, op, self, owned>>

(* _fsize() asks CP/M for the last sector, and believes the position when  *)
(* that is further on.                                                     *)
Records(k) == IF Sectors(k) = {} THEN 0 ELSE 1 + (CHOOSE r \in Sectors(k) : \A x \in Sectors(k) : r >= x)
FSize(fd)  == IF Records(fcb[fd].name) * SECSIZE > fcb[fd].rwp
                THEN Records(fcb[fd].name) * SECSIZE
                ELSE fcb[fd].rwp

Unlink(n) ==
  /\ InControl /\ Closed(FcParse(n))
  /\ disk' = [disk EXCEPT ![FcParse(n)] = NoFile]
  /\ UNCHANGED <<uid, unsaved, fcb, where, pc, op, self, owned>>

(* rename() removes the file that has the new name, then lets CP/M rename  *)
(* under the current user number whatever numbers the two names carry.     *)
Rename(n1, n2) ==
  /\ pc = "client"
  /\ Closed(FcParse(n2)) /\ Closed(<<uid, n1.file>>) /\ Closed(<<uid, n2.file>>)
  /\ n1.file # n2.file
  /\ disk' = [disk EXCEPT ![FcParse(n2)] = NoFile]
  /\ op' = [NoOp EXCEPT !.kind = "rename", !.got = <<n1.file, n2.file>>]
  /\ pc' = "rename"
  /\ UNCHANGED <<uid, unsaved, fcb, where, self, owned>>

RenameEntry ==
  /\ pc = "rename"
  /\ LET old == <<uid, op.got[1]>>
         new == <<uid, op.got[2]>>
     IN IF disk[old] # NoFile /\ disk[new] = NoFile
          THEN /\ disk' = [disk EXCEPT ![old] = NoFile, ![new] = disk[old]]
               /\ op' = [op EXCEPT !.ret = 0]
          ELSE /\ op' = [op EXCEPT !.ret = -1]
               /\ UNCHANGED disk
  /\ pc' = "done"
  /\ UNCHANGED <<uid, unsaved, fcb, where, self, owned>>

(* The program changes its user number, or what control-C does. *)
SetUid(u) ==
  /\ pc = "client"
  /\ uid' = u /\ self' = u
  /\ UNCHANGED <<disk, unsaved, fcb, where, pc, op, owned>>

Signal(action) ==
  /\ InControl
  /\ where' = action
  /\ UNCHANGED <<uid, disk, unsaved, fcb, pc, op, self, owned>>

(* exit(): _cpm_clean() closes every descriptor. *)
Exit ==
  /\ unsaved' = {fd \in unsaved : ~MustClose(fcb[fd].use)}
  /\ fcb' = [fd \in Fd |-> Free]
  /\ owned' = {}
  /\ pc' = "exited"
  /\ UNCHANGED <<uid, disk, where, op, self>>

ProgramExits == InControl /\ Exit
-----------------------------------------------------------------------------
(***************************************************************************)
(* read() and write()                                                      *)
(***************************************************************************)

Transfer(kind, fd, n, b, start, utmp) ==
  /\ pc = "client"
  /\ Mine(fd)
  /\ op' = [NoOp EXCEPT !.kind = kind, !.fd = fd, !.count = n, !.left = n,
                        !.luid = uid, !.data = b, !.start = start, !.utmp = utmp]
  /\ pc' = "loop"
  /\ UNCHANGED <<uid, disk, unsaved, where, self, owned>>

Readable(fd)  == fcb[fd].use \in {U_READ, U_RDWR}
Writeable(fd) == fcb[fd].use \in {U_WRITE, U_RDWR} \cup Devices

ReadCall(fd, n) ==
  /\ Readable(fd)
  /\ Transfer("read", fd, n, 0, fcb[fd].rwp, U_FREE)
  /\ UNCHANGED fcb

WriteCall(fd, n, b) ==
  /\ Writeable(fd)
  /\ Transfer("write", fd, n, b, fcb[fd].rwp, U_FREE)
  /\ UNCHANGED fcb

(* _ssize() of stdio/FSEEK.C, which looks for the end of a text file that  *)
(* is being written: the descriptor is made one for reading, and as much   *)
(* as a buffer holds is asked for from the start of the last sector.       *)
SSizeCall(fd) ==
  /\ OnFile(fd) /\ fcb[fd].use # U_READ
  /\ LET last == FSize(fd) - SECSIZE
         pos  == IF last >= 0 THEN last ELSE fcb[fd].rwp
     IN /\ Transfer("read", fd, 2 * SECSIZE, 0, pos, fcb[fd].use)
        /\ fcb' = [fcb EXCEPT ![fd].use = U_READ, ![fd].rwp = pos]

(* _sigchk() at the head of the loop.  Without a key, or with one that is  *)
(* not control-C, the transfer goes on.                                    *)
Ahead == IF OnFile(op.fd) THEN "enter" ELSE "char"

PollQuiet ==
  /\ pc = "loop" /\ op.left > 0
  /\ pc' = Ahead
  /\ UNCHANGED <<uid, disk, unsaved, fcb, where, op, self, owned>>

PollHandler ==
  /\ pc = "loop" /\ op.left > 0
  /\ where = "handler"
  /\ pc' = "handler"
  /\ UNCHANGED <<uid, disk, unsaved, fcb, where, op, self, owned>>

HandlerReturns ==
  /\ pc = "handler"
  /\ pc' = Ahead
  /\ UNCHANGED <<uid, disk, unsaved, fcb, where, op, self, owned>>

PollExit ==
  /\ pc = "loop" /\ op.left > 0
  /\ where = "default"
  /\ Exit

(* One character to a device. *)
DeviceChar ==
  /\ pc = "char"
  /\ op' = [op EXCEPT !.left = op.left - 1]
  /\ pc' = "loop"
  /\ UNCHANGED <<uid, disk, unsaved, fcb, where, self, owned>>

EnterUser ==
  /\ pc = "enter"
  /\ uid' = fcb[op.fd].name[1]
  /\ pc' = "sector"
  /\ UNCHANGED <<disk, unsaved, fcb, where, op, self, owned>>

(* The part of the current sector that the transfer covers. *)
Offs(fd) == fcb[fd].rwp % SECSIZE

WholeRest(fd) == SECSIZE - Offs(fd)
Size(fd)      == IF SECSIZE - Offs(fd) > op.left THEN op.left ELSE SECSIZE - Offs(fd)

CurRec(fd) == fcb[fd].rwp \div SECSIZE

(* A sector went well, or was refused: the loop ends either way with the   *)
(* program's user number back.                                             *)
Moved(fd, n) ==
  /\ fcb' = [fcb EXCEPT ![fd].rwp = fcb[fd].rwp + n]
  /\ pc' = "back"

RefusedRetry == pc' = "back" /\ UNCHANGED fcb
Refused      == pc' = "leave" /\ UNCHANGED fcb

PieceFromStart(s, offs, n) == [i \in 1..n |-> s[i - 1]]
Piece(s, offs, n)          == [i \in 1..n |-> s[offs + i - 1]]

ReadSector ==
  /\ pc = "sector" /\ op.kind = "read"
  /\ LET fd == op.fd
         s  == BdosRead(Here(fcb[fd].name), CurRec(fd))
         n  == Size(fd)
     IN IF s = NoSector
          THEN Refused /\ UNCHANGED op
          ELSE /\ Moved(fd, n)
               /\ op' = [op EXCEPT !.left = op.left - n,
                           !.got = op.got \o Piece(s, Offs(fd), n)]
  /\ UNCHANGED <<uid, disk, unsaved, where, self, owned>>

(* A sector that is not written whole is read first; what was never        *)
(* written counts as ctrl-Z.                                               *)
BlankSector(k, r) == [i \in 0..(SECSIZE - 1) |-> CPMETX]
OldSector(k, r)   == IF BdosRead(k, r) = NoSector THEN BlankSector(k, r) ELSE BdosRead(k, r)

WriteSector ==
  /\ pc = "sector" /\ op.kind = "write"
  /\ LET fd  == op.fd
         k   == Here(fcb[fd].name)
         r   == CurRec(fd)
         n   == Size(fd)
         new == [i \in 0..(SECSIZE - 1) |-> IF i \in Offs(fd)..(Offs(fd) + n - 1)
                                              THEN op.data ELSE OldSector(k, r)[i]]
     IN IF BdosCanWrite(k, r)
          THEN /\ disk' = [disk EXCEPT ![k][r] = new]
               /\ unsaved' = unsaved \cup {fd}
               /\ Moved(fd, n)
               /\ op' = [op EXCEPT !.left = op.left - n]
          ELSE Refused /\ UNCHANGED <<disk, unsaved, op>>
  /\ UNCHANGED <<uid, where, self, owned>>

SetUidBack ==
  /\ pc = "back"
  /\ uid' = op.luid
  /\ pc' = "loop"
  /\ UNCHANGED <<disk, unsaved, fcb, where, op, self, owned>>

LeaveEarly(luid) == uid
LeaveUid(luid)   == luid

AllDone(o)  == o.count
Returned(o) == o.count - o.left

(* The loop is over; _ssize() puts the use of the descriptor back. *)
Leave ==
  /\ pc = "leave" \/ (pc = "loop" /\ op.left = 0)
  /\ uid' = LeaveUid(op.luid)
  /\ op' = [op EXCEPT !.ret = Returned(op)]
  /\ fcb' = IF op.utmp = U_FREE THEN fcb ELSE [fcb EXCEPT ![op.fd].use = op.utmp]
  /\ pc' = "done"
  /\ UNCHANGED <<disk, unsaved, where, self, owned>>

Return ==
  /\ pc = "done"
  /\ pc' = "client" /\ op' = NoOp
  /\ UNCHANGED <<uid, disk, unsaved, fcb, where, self, owned>>
-----------------------------------------------------------------------------
(* One step of the call in progress, or of the handler it was suspended    *)
(* for.                                                                    *)
Step == \/ PollQuiet \/ PollHandler \/ HandlerReturns \/ PollExit
        \/ DeviceChar \/ EnterUser \/ ReadSector \/ WriteSector
        \/ SetUidBack \/ Leave \/ Return \/ RenameEntry

Client ==
  \/ \E dev \in Devices : OpenDevice(dev)
  \/ \E n \in Name : Creat(n) \/ Unlink(n) \/ \E mode \in Modes : OpenFile(n, mode)
  \/ \E n1, n2 \in Name : Rename(n1, n2)
  \/ \E fd \in Fd : \/ Close(fd) \/ Dup(fd) \/ SSizeCall(fd)
                    \/ \E pos \in Pos : LSeek(fd, pos)
                    \/ \E n \in Lens : ReadCall(fd, n) \/ \E b \in Byte : WriteCall(fd, n, b)
  \/ \E u \in Users : SetUid(u)
  \/ \E action \in Actions : Signal(action)
  \/ ProgramExits

Next == Step \/ Client

Spec     == Init /\ [][Next]_vars
FairSpec == Spec /\ WF_vars(Step)
-----------------------------------------------------------------------------
(***************************************************************************)
(* Properties                                                              *)
(***************************************************************************)

Sector == [0..(SECSIZE - 1) -> Byte \cup {CPMETX}]

(* The type invariant: every variable holds a value of its kind; in        *)
(* particular the count of a transfer never runs below zero.               *)
TypeOK ==
  /\ uid \in Users /\ self \in Users
  /\ \A k \in Key : disk[k] = NoFile \/ \A r \in Rec : disk[k][r] \in Sector \cup {NoSector}
  /\ unsaved \subseteq Fd /\ owned \subseteq Fd
  /\ \A fd \in Fd : fcb[fd].use \in 0..7 /\ fcb[fd].rwp \in Nat /\ fcb[fd].name \in Key \cup {<<>>}
  /\ where \in {"default", "ignore", "handler"}
  /\ pc \in {"client", "handler", "loop", "enter", "sector", "char", "back", "leave",
             "rename", "done", "exited"}
  /\ op.fd \in Fd /\ op.count \in Nat /\ op.left \in Nat /\ op.ret \in Int

(* Whenever the program or its handler runs, and when it has ended, the    *)
(* user number is the one the program chose, whatever user's files the     *)
(* library is in the middle of.                                            *)
UserRestored == pc \in {"client", "handler", "done", "exited"} => uid = self

(* A slot of _fcb is in use exactly when the program holds its descriptor: *)
(* no failed call keeps one.                                               *)
NoSlotLost == \A fd \in Fd : fcb[fd].use # U_FREE <=> fd \in owned

Finished(kind) == pc = "done" /\ op.kind = kind

(* What read() and write() answer is what they moved, and they answer less *)
(* than they were asked only at the end of the file or of the disk.        *)
CountIsTrue ==
  /\ Finished("write") /\ OnFile(op.fd) =>
       /\ op.ret = fcb[op.fd].rwp - op.start
       /\ op.ret < op.count => ~BdosCanWrite(fcb[op.fd].name, CurRec(op.fd))
  /\ Finished("read") =>
       /\ op.ret = fcb[op.fd].rwp - op.start
       /\ op.ret < op.count => CurRec(op.fd) \notin Sectors(fcb[op.fd].name)

ByteAt(k, i) == IF disk[k] = NoFile THEN -1
                ELSE IF disk[k][i \div SECSIZE] = NoSector THEN -1
                ELSE disk[k][i \div SECSIZE][i % SECSIZE]

(* read() delivers the bytes of the file at the position it started from,  *)
(* whatever sectors they lie in and whoever interrupted.                   *)
ReadsTheFile ==
  Finished("read") =>
    /\ Len(op.got) = op.ret
    /\ \A i \in 1..op.ret : op.got[i] = ByteAt(fcb[op.fd].name, op.start + i - 1)

(* Exit() "will close all open files" (Z80DOC, EXIT): nothing a program    *)
(* wrote is lost when it ends.                                             *)
ExitSavesAll == pc = "exited" => unsaved = {}

(* A descriptor gives its slot up only after what was written through it   *)
(* is safe in the directory, but for the one that _ssize() has made a      *)
(* descriptor for reading when the program is ended.                       *)
SavedElsewhere ==
  \A fd \in unsaved :
    fcb[fd].use # U_FREE \/ (pc = "exited" /\ op.utmp # U_FREE /\ fd = op.fd)

(* A transfer or a rename always comes to its end. *)
CallEnds == pc # "client" ~> pc \in {"client", "exited"}

(* Seen from the program, files are strings of bytes and a transfer        *)
(* changes only the bytes it names.                                        *)
Contents(k) == IF disk[k] = NoFile THEN NoFile ELSE [i \in Pos |-> ByteAt(k, i)]

Position(fd) == IF OnFile(fd) THEN [name |-> fcb[fd].name, pos |-> fcb[fd].rwp]
                              ELSE [name |-> <<>>, pos |-> 0]

B == INSTANCE ByteFiles WITH Name <- Key, PAD <- CPMETX,
                             file <- [k \in Key |-> Contents(k)],
                             at <- [fd \in Fd |-> Position(fd)]

ImplementsByteFiles == B!Spec
=============================================================================
