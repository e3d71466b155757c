--------------------------- MODULE UnixFileProofs ---------------------------
(***************************************************************************)
(* For any number of descriptors, files, user numbers and sectors, and any *)
(* transfers: the user number comes back, no slot is lost, what was        *)
(* written is saved, read() and write() move the bytes they say, and the   *)
(* files are those of ByteFiles.                                           *)
(***************************************************************************)
EXTENDS UnixFile, WellFoundedInduction, TLAPS

(* A set of numbers has a least element.                                   *)
LEMMA LeastExists ==
  ASSUME NEW T \in SUBSET Nat, T # {}
  PROVE  \E m \in T : \A x \in T : m <= x
<1> DEFINE Less == OpToRel(<, Nat)
<1>1. \A x, y \in Nat : x < y => <<x, y>> \in Less
  BY DEF OpToRel
<1>2. PICK m \in T : \A y \in T : <<y, m>> \notin Less
  BY NatLessThanWellFounded, WFMin, Zenon
<1> HIDE DEF Less
<1>3. \A x \in T : ~(x < m)
  BY <1>1, <1>2
<1> QED
  BY <1>3

(* A bounded set of numbers has a greatest element.                        *)
LEMMA GreatestExists ==
  ASSUME NEW n \in Nat, NEW T \in SUBSET (0..n), T # {}
  PROVE  \E m \in T : \A x \in T : m >= x
<1> DEFINE U == {n - x : x \in T}
<1>1. U \in SUBSET Nat /\ U # {}
  <2>1. PICK x \in T : TRUE
    OBVIOUS
  <2>2. \A y \in T : n - y \in Nat
    OBVIOUS
  <2>3. n - x \in U
    OBVIOUS
  <2> QED
    BY <2>2, <2>3
<1>2. PICK u \in U : \A x \in U : u <= x
  <2> HIDE DEF U
  <2> QED
    BY <1>1, LeastExists
<1>3. PICK m \in T : u = n - m
  OBVIOUS
<1>4. ASSUME NEW x \in T PROVE m >= x
  <2>1. n - m <= n - x
    BY <1>2, <1>3
  <2> QED
    BY <2>1
<1> QED
  BY <1>4


(***************************************************************************)
(* The inductive invariant.  Between two sectors of a transfer the user    *)
(* number may be another (Changed); the transfer knows the one to put back *)
(* (Luid), and its descriptor stays as it is whatever the handler does     *)
(* (Held), but for the use that _ssize() will put back (Borrowed).  How    *)
(* far it has come is how much of the count is gone (Progress).            *)
(***************************************************************************)
Transferring == pc \in {"loop", "handler", "enter", "sector", "char", "back", "leave"}

Kinds == /\ uid \in Users /\ self \in Users
         /\ unsaved \subseteq Fd /\ owned \subseteq Fd
         /\ where \in {"default", "ignore", "handler"}
         /\ pc \in {"client", "handler", "loop", "enter", "sector", "char", "back", "leave",
                    "rename", "done", "exited"}

FcbType == [use : 0..7, name : Key \cup {<<>>}, rwp : Nat]
DiskType == [Key -> {NoFile} \cup [Rec -> Sector \cup {NoSector}]]
OpType == [kind : {"none", "read", "write", "rename"}, fd : Fd, count : Nat, left : Nat,
           luid : Users \cup {0}, data : Byte \cup {0}, start : Nat,
           got : Seq(Files \cup Byte \cup {CPMETX}), utmp : {U_FREE, U_WRITE, U_RDWR}, ret : Int]
Shapes == fcb \in [Fd -> FcbType] /\ disk \in DiskType /\ op \in OpType

Opened == \A fd \in Fd : OnFile(fd) => fcb[fd].name \in Key /\ disk[fcb[fd].name] # NoFile

Luid == /\ pc \notin {"sector", "back", "leave"} => uid = self
        /\ Transferring => op.luid = self
        /\ pc = "sector" => uid = fcb[op.fd].name[1]

Held == /\ Transferring =>
             /\ op.fd \in owned
             /\ \/ op.kind = "read" /\ Readable(op.fd)
                \/ op.kind = "write" /\ Writeable(op.fd) /\ op.utmp = U_FREE /\ op.data \in Byte
        /\ pc \in {"enter", "sector", "back", "leave"} => OnFile(op.fd)
        /\ pc = "char" => ~OnFile(op.fd)
        /\ pc \in {"handler", "enter", "sector", "char"} => op.left > 0

Borrowed == /\ pc \in {"client", "rename"} => op.utmp = U_FREE
            /\ Transferring /\ op.utmp # U_FREE => fcb[op.fd].use = U_READ

Unsaved == \A fd \in unsaved :
             \/ MustClose(fcb[fd].use)
             \/ op.utmp # U_FREE /\ fd = op.fd /\ (Transferring \/ pc = "exited")

(* A transfer stopped short of its count: at the end of the file, or of    *)
(* the disk.                                                               *)
Short == IF op.kind = "write" THEN ~BdosCanWrite(fcb[op.fd].name, CurRec(op.fd))
                              ELSE CurRec(op.fd) \notin Sectors(fcb[op.fd].name)

Progress ==
  /\ Transferring /\ OnFile(op.fd) => fcb[op.fd].rwp = op.start + (op.count - op.left)
  /\ Transferring => op.left <= op.count
  /\ pc = "leave" => Short

Renaming ==
  pc = "rename" =>
    /\ op.kind = "rename" /\ op.got \in Files \X Files /\ op.got[1] # op.got[2]
    /\ \A i \in 1..2 : Closed(<<uid, op.got[i]>>)

IInv == /\ Kinds /\ Shapes /\ Opened /\ NoSlotLost /\ Luid /\ Held /\ Borrowed /\ Unsaved
        /\ Progress /\ Renaming /\ CountIsTrue

-----------------------------------------------------------------------------
(* Positions and sectors.                                                  *)

LEMMA Division ==
  ASSUME NEW a \in Nat, NEW s \in Nat \ {0}
  PROVE  a \div s \in Nat /\ a % s \in 0..(s - 1) /\ a = (s * (a \div s)) + (a % s)
  OBVIOUS

LEMMA SameSector ==
  ASSUME NEW a \in Nat, NEW s \in Nat \ {0}, NEW d \in Nat, (a % s) + d < s
  PROVE  (a + d) \div s = a \div s /\ (a + d) % s = (a % s) + d
  OBVIOUS

-----------------------------------------------------------------------------
(* Slots, sizes and the use of a descriptor.                               *)

LEMMA TypesHold ==
  ASSUME Kinds, Shapes
  PROVE  TypeOK
  BY DEF Kinds, Shapes, FcbType, DiskType, OpType, U_FREE, U_WRITE, U_RDWR, TypeOK

LEMMA FreeSlot ==
  ASSUME IInv, FreeSlots # {}
  PROVE  /\ GetFcb \in Fd /\ fcb[GetFcb].use = U_FREE /\ GetFcb \notin owned
         /\ Transferring => GetFcb # op.fd
         /\ pc # "exited" => GetFcb \notin unsaved
<1>1. FreeSlots \in SUBSET Nat
  BY UnixFileAssumption DEF FreeSlots, Fd
<1>2. \E fd \in FreeSlots : \A x \in FreeSlots : fd <= x
  BY <1>1, LeastExists
<1>3. GetFcb \in Fd /\ fcb[GetFcb].use = U_FREE
  BY <1>2 DEF GetFcb, FreeSlots
<1>4. GetFcb \notin owned
  BY <1>3 DEF IInv, NoSlotLost
<1>5. Transferring => GetFcb # op.fd
  BY <1>4 DEF IInv, Held
<1>6. pc # "exited" => GetFcb \notin unsaved
  BY <1>3, <1>5 DEF IInv, Unsaved, MustClose, U_FREE, U_WRITE, U_RDWR
<1> QED
  BY <1>3, <1>4, <1>5, <1>6

LEMMA FSizeType ==
  ASSUME IInv, NEW fd \in Fd, OnFile(fd)
  PROVE  FSize(fd) \in Nat
<1> DEFINE T == Sectors(fcb[fd].name)
<1>1. fcb[fd].rwp \in Nat /\ SECSIZE \in Nat \ {0} /\ MaxRec \in Nat \ {0}
  BY UnixFileAssumption DEF IInv, Shapes, FcbType
<1>2. T \in SUBSET (0..(MaxRec - 1)) /\ MaxRec - 1 \in Nat
  BY <1>1 DEF Sectors, Rec
<1>3. T # {} => \E m \in T : \A x \in T : m >= x
  <2> HIDE DEF T
  <2> QED
    BY <1>2, GreatestExists
<1>4. Records(fcb[fd].name) \in Nat
  BY <1>2, <1>3 DEF Records
<1> QED
  BY <1>1, <1>4 DEF FSize

-----------------------------------------------------------------------------
(* What the program, or its handler, does between two steps of a transfer: *)
(* the descriptor of the transfer and the files that are open stay.        *)
LEMMA ClientHolds ==
  ASSUME IInv, InControl, UNCHANGED <<uid, pc, op, self>>,
         where' \in {"default", "ignore", "handler"},
         fcb' \in [Fd -> FcbType], disk' \in DiskType, owned' \subseteq Fd, unsaved' \subseteq Fd,
         pc = "handler" => fcb'[op.fd] = fcb[op.fd] /\ op.fd \in owned',
         \A k \in Key : ~Closed(k) => disk'[k] = disk[k],
         Opened', NoSlotLost',
         \A fd \in unsaved' : \/ MustClose(fcb'[fd].use)
                              \/ fd \in unsaved /\ fd = op.fd /\ pc = "handler" /\ fcb'[fd] = fcb[fd]
  PROVE  IInv'
<1>1. pc \in {"client", "handler"} /\ pc' = pc /\ op' = op
  BY DEF InControl
<1>2. Kinds' /\ Shapes'
  BY <1>1 DEF IInv, Kinds, Shapes
<1>3. Luid'
  BY <1>1 DEF IInv, Luid, Transferring
<1>4. Held'
  BY <1>1 DEF IInv, Held, Transferring, Readable, Writeable, OnFile
<1>5. Borrowed'
  BY <1>1 DEF IInv, Borrowed, Transferring
<1>6. Unsaved'
  BY <1>1 DEF IInv, Unsaved, Transferring, MustClose
<1>7. Progress'
  BY <1>1 DEF IInv, Progress, Transferring, OnFile
<1>8. Renaming' /\ CountIsTrue'
  BY <1>1 DEF Renaming, CountIsTrue, Finished
<1> QED
  BY <1>2, <1>3, <1>4, <1>5, <1>6, <1>7, <1>8 DEF IInv

(* A slot is taken: by a device, by a file, or by a copy of another.       *)
LEMMA TakeHolds ==
  ASSUME IInv, InControl, FreeSlots # {}, NEW f \in FcbType, f.use # U_FREE,
         f.use \in {U_READ, U_WRITE, U_RDWR} => f.name \in Key /\ disk'[f.name] # NoFile,
         fcb' = [fcb EXCEPT ![GetFcb] = f], owned' = owned \cup {GetFcb},
         disk' \in DiskType, \A k \in Key : ~Closed(k) => disk'[k] = disk[k],
         \/ UNCHANGED unsaved
         \/ unsaved' = unsaved \cup {GetFcb} /\ MustClose(f.use),
         UNCHANGED <<uid, where, pc, op, self>>
  PROVE  IInv'
<1>1. /\ GetFcb \in Fd /\ fcb[GetFcb].use = U_FREE /\ GetFcb \notin owned /\ GetFcb \notin unsaved
      /\ pc = "handler" => GetFcb # op.fd
  BY FreeSlot DEF InControl, Transferring
<1>2. /\ fcb' \in [Fd -> FcbType] /\ fcb'[GetFcb] = f
      /\ \A fd \in Fd : fd # GetFcb => fcb'[fd] = fcb[fd]
  BY <1>1 DEF IInv, Shapes
<1>3. Opened'
  <2>1. SUFFICES ASSUME NEW fd \in Fd, OnFile(fd)'
                 PROVE  fcb'[fd].name \in Key /\ disk'[fcb'[fd].name] # NoFile
    BY DEF Opened
  <2>2. CASE fd = GetFcb
    BY <1>2, <2>1, <2>2 DEF OnFile
  <2>3. CASE fd # GetFcb
    <3>1. fcb'[fd] = fcb[fd] /\ OnFile(fd) /\ fcb[fd].name \in Key
      BY <1>2, <2>1, <2>3 DEF OnFile, IInv, Opened
    <3>2. ~Closed(fcb[fd].name)
      BY <3>1 DEF Closed
    <3> QED
      BY <3>1, <3>2 DEF IInv, Opened
  <2> QED
    BY <2>2, <2>3
<1>4. NoSlotLost'
  BY <1>2 DEF IInv, NoSlotLost
<1>5. ASSUME NEW fd \in unsaved'
      PROVE  \/ MustClose(fcb'[fd].use)
             \/ fd \in unsaved /\ fd = op.fd /\ pc = "handler" /\ fcb'[fd] = fcb[fd]
  BY <1>1, <1>2, <1>5 DEF IInv, Unsaved, Kinds, Transferring, InControl, Borrowed
<1>6. /\ owned' \subseteq Fd /\ unsaved' \subseteq Fd /\ where' \in {"default", "ignore", "handler"}
      /\ pc = "handler" => fcb'[op.fd] = fcb[op.fd] /\ op.fd \in owned'
  BY <1>1, <1>2 DEF IInv, Kinds, Shapes, Held, Transferring
<1> QED
  BY <1>2, <1>3, <1>4, <1>5, <1>6, ClientHolds

(* Files may come and go that are not open.                                *)
LEMMA KeepHolds ==
  ASSUME IInv, InControl, disk' \in DiskType, \A k \in Key : ~Closed(k) => disk'[k] = disk[k],
         UNCHANGED <<uid, unsaved, fcb, where, pc, op, self, owned>>
  PROVE  IInv'
<1>1. Opened'
  <2>1. SUFFICES ASSUME NEW fd \in Fd, OnFile(fd)
                 PROVE  fcb[fd].name \in Key /\ disk'[fcb[fd].name] # NoFile
    BY DEF Opened, OnFile
  <2>2. ~Closed(fcb[fd].name)
    BY <2>1 DEF Closed
  <2> QED
    BY <2>1, <2>2 DEF IInv, Opened
<1>2. NoSlotLost'
  BY DEF IInv, NoSlotLost
<1>3. ASSUME NEW fd \in unsaved'
      PROVE  \/ MustClose(fcb'[fd].use)
             \/ fd \in unsaved /\ fd = op.fd /\ pc = "handler" /\ fcb'[fd] = fcb[fd]
  BY <1>3 DEF IInv, Unsaved, Transferring, InControl
<1> QED
  BY <1>1, <1>2, <1>3, ClientHolds DEF IInv, Kinds, Shapes, Held, Transferring

(* A slot is given up, or was never taken.                                 *)
LEMMA FreedHolds ==
  ASSUME IInv, InControl, NEW fd \in Fd, fcb' = [fcb EXCEPT ![fd] = Free],
         pc = "handler" => fd # op.fd,
         owned' = owned \ {fd}, unsaved' = unsaved \ {fd},
         UNCHANGED <<uid, disk, where, pc, op, self>>
  PROVE  IInv'
<1>1. Free \in FcbType /\ Free.use = U_FREE
  BY DEF Free, FcbType, U_FREE
<1>2. /\ fcb' \in [Fd -> FcbType] /\ fcb'[fd] = Free
      /\ \A x \in Fd : x # fd => fcb'[x] = fcb[x]
  BY <1>1 DEF IInv, Shapes
<1>3. Opened'
  BY <1>1, <1>2 DEF IInv, Opened, OnFile, U_FREE, U_READ, U_WRITE, U_RDWR
<1>4. NoSlotLost'
  BY <1>1, <1>2 DEF IInv, NoSlotLost
<1>5. ASSUME NEW x \in unsaved'
      PROVE  \/ MustClose(fcb'[x].use)
             \/ x \in unsaved /\ x = op.fd /\ pc = "handler" /\ fcb'[x] = fcb[x]
  BY <1>2, <1>5 DEF IInv, Unsaved, Kinds, Transferring, InControl
<1> QED
  BY <1>2, <1>3, <1>4, <1>5, ClientHolds DEF IInv, Kinds, Shapes, Held, Transferring

LEMMA OpenHolds ==
  ASSUME IInv,
         \/ \E dev \in Devices : OpenDevice(dev)
         \/ \E n \in Name : Creat(n) \/ \E mode \in Modes : OpenFile(n, mode)
         \/ \E fd \in Fd : Dup(fd)
  PROVE  IInv'
<1>1. fcb \in [Fd -> FcbType] /\ disk \in DiskType /\ uid \in Users
  BY DEF IInv, Shapes, Kinds
<1>2. ASSUME NEW dev \in Devices, OpenDevice(dev) PROVE IInv'
  <2> DEFINE f == [use |-> dev, name |-> <<>>, rwp |-> 0]
  <2>1. f \in FcbType /\ f.use \notin {U_FREE, U_READ, U_WRITE, U_RDWR}
    BY UnixFileAssumption DEF FcbType, U_FREE, U_READ, U_WRITE, U_RDWR
  <2>2. fcb' = [fcb EXCEPT ![GetFcb] = f]
    <3>1. [Free EXCEPT !.use = dev] = f
      BY DEF Free
    <3>2. fcb' = [fcb EXCEPT ![GetFcb] = [Free EXCEPT !.use = dev]]
      BY <1>2 DEF OpenDevice
    <3> QED
      BY <3>1, <3>2
  <2> HIDE DEF f
  <2> QED
    BY <1>1, <1>2, <2>1, <2>2, TakeHolds DEF OpenDevice
<1>3. ASSUME NEW n \in Name PROVE FcParse(n) \in Key
  BY <1>1 DEF FcParse, Name, Key
<1>4. ASSUME NEW n \in Name, Creat(n) PROVE IInv'
  <2>1. InControl /\ FreeSlots # {} /\ Closed(FcParse(n)) /\ UNCHANGED <<uid, unsaved, where, pc, op, self>>
    BY <1>4 DEF Creat
  <2>2. CASE /\ disk' = [disk EXCEPT ![FcParse(n)] = [r \in Rec |-> NoSector]]
             /\ fcb' = [fcb EXCEPT ![GetFcb] = [use |-> U_WRITE, name |-> FcParse(n), rwp |-> 0]]
             /\ owned' = owned \cup {GetFcb}
    <3> DEFINE f == [use |-> U_WRITE, name |-> FcParse(n), rwp |-> 0]
               new == [r \in Rec |-> NoSector]
    <3>1. new \in [Rec -> Sector \cup {NoSector}] /\ new # NoFile
      <4>1. 0 \in DOMAIN new
        BY UnixFileAssumption DEF Rec
      <4> QED
        BY <4>1 DEF NoFile
    <3>2. disk' \in DiskType /\ disk'[FcParse(n)] # NoFile
      BY <1>1, <1>3, <2>2, <3>1 DEF DiskType
    <3>3. \A k \in Key : ~Closed(k) => disk'[k] = disk[k]
      BY <1>1, <2>1, <2>2 DEF DiskType
    <3>4. f \in FcbType /\ f.use # U_FREE /\ f.name = FcParse(n)
      BY <1>3 DEF FcbType, U_FREE, U_WRITE
    <3> HIDE DEF f, new
    <3> QED
      BY <1>3, <2>1, <2>2, <3>2, <3>3, <3>4, TakeHolds DEF f
  <2>3. CASE disk' = [disk EXCEPT ![FcParse(n)] = NoFile] /\ UNCHANGED <<fcb, owned>>
    <3>1. disk' \in DiskType /\ \A k \in Key : ~Closed(k) => disk'[k] = disk[k]
      BY <1>1, <2>1, <2>3 DEF DiskType
    <3> QED
      BY <2>1, <2>3, <3>1, KeepHolds
  <2> QED
    BY <1>4, <2>2, <2>3 DEF Creat
<1>5. ASSUME NEW n \in Name, NEW mode \in Modes, OpenFile(n, mode) PROVE IInv'
  <2>1. InControl /\ FreeSlots # {} /\ UNCHANGED <<uid, disk, unsaved, where, pc, op, self>>
    BY <1>5 DEF OpenFile
  <2>2. CASE disk[FcParse(n)] # NoFile
    <3> DEFINE f == [use |-> OpenUse(mode), name |-> FcParse(n), rwp |-> 0]
    <3>1. f \in FcbType /\ f.use # U_FREE /\ f.name = FcParse(n)
      BY <1>3, UnixFileAssumption DEF FcbType, OpenUse, U_FREE, U_RDWR
    <3>2. fcb' = [fcb EXCEPT ![GetFcb] = f] /\ owned' = owned \cup {GetFcb}
      BY <1>5, <2>2 DEF OpenFile
    <3> HIDE DEF f
    <3> QED
      BY <1>1, <1>3, <2>1, <2>2, <3>1, <3>2, TakeHolds
  <2>3. CASE disk[FcParse(n)] = NoFile
    <3>1. GetFcb \in Fd /\ fcb[GetFcb].use = U_FREE /\ UNCHANGED owned
      BY <1>5, <2>1, <2>3, FreeSlot DEF OpenFile
    <3>2. fcb' = [fcb EXCEPT ![GetFcb] = Free]
      BY <1>5, <2>3 DEF OpenFile, PutFcb
    <3>3. owned' = owned \ {GetFcb} /\ unsaved' = unsaved \ {GetFcb} /\ (pc = "handler" => GetFcb # op.fd)
      BY <2>1, <3>1, FreeSlot DEF InControl, Transferring
    <3> QED
      BY <2>1, <3>1, <3>2, <3>3, FreedHolds
  <2> QED
    BY <2>2, <2>3
<1>6. ASSUME NEW fd \in Fd, Dup(fd) PROVE IInv'
  <2>1. /\ InControl /\ FreeSlots # {} /\ Mine(fd) /\ fcb' = [fcb EXCEPT ![GetFcb] = fcb[fd]]
        /\ owned' = owned \cup {GetFcb} /\ UNCHANGED <<uid, disk, where, pc, op, self>>
    BY <1>6 DEF Dup
  <2>2. fcb[fd] \in FcbType /\ fcb[fd].use # U_FREE
    BY <1>1, <2>1 DEF Mine, IInv, NoSlotLost
  <2>3. OnFile(fd) => fcb[fd].name \in Key /\ disk[fcb[fd].name] # NoFile
    BY DEF IInv, Opened
  <2>4. fd \in unsaved => MustClose(fcb[fd].use)
    BY <2>1 DEF Mine, InControl, IInv, Unsaved, Transferring
  <2> QED
    BY <1>1, <1>6, <2>1, <2>2, <2>3, <2>4, TakeHolds DEF Dup, OnFile
<1> QED
  BY <1>2, <1>4, <1>5, <1>6

LEMMA CloseHolds ==
  ASSUME IInv, NEW fd \in Fd, Close(fd)
  PROVE  IInv'
<1>1. /\ InControl /\ Mine(fd) /\ fcb' = [fcb EXCEPT ![fd] = Free] /\ owned' = owned \ {fd}
      /\ unsaved' = IF MustClose(fcb[fd].use) THEN unsaved \ {fd} ELSE unsaved
      /\ UNCHANGED <<uid, disk, where, pc, op, self>>
  BY DEF Close
<1>2. fd \in unsaved => MustClose(fcb[fd].use)
  BY <1>1 DEF Mine, InControl, IInv, Unsaved, Transferring
<1>3. unsaved' = unsaved \ {fd} /\ (pc = "handler" => fd # op.fd)
  BY <1>1, <1>2 DEF Mine
<1> QED
  BY <1>1, <1>3, FreedHolds

LEMMA SeekHolds ==
  ASSUME IInv, NEW fd \in Fd, NEW pos \in Pos, LSeek(fd, pos)
  PROVE  IInv'
<1>1. /\ InControl /\ Mine(fd) /\ OnFile(fd) /\ fcb' = [fcb EXCEPT ![fd].rwp = pos]
      /\ UNCHANGED <<uid, disk, unsaved, where, pc, op, self, owned>>
  BY DEF LSeek
<1>2. fcb \in [Fd -> FcbType] /\ pos \in Nat
  BY UnixFileAssumption DEF IInv, Shapes, Pos
<1>3. [fcb[fd] EXCEPT !.rwp = pos] \in FcbType
  BY <1>2 DEF FcbType
<1>4. /\ fcb' \in [Fd -> FcbType]
      /\ \A x \in Fd : fcb'[x].use = fcb[x].use /\ fcb'[x].name = fcb[x].name
      /\ \A x \in Fd : x # fd => fcb'[x] = fcb[x]
  BY <1>1, <1>2, <1>3 DEF FcbType
<1>5. Opened' /\ NoSlotLost'
  BY <1>1, <1>4 DEF IInv, Opened, NoSlotLost, OnFile
<1>6. ASSUME NEW x \in unsaved'
      PROVE  \/ MustClose(fcb'[x].use)
             \/ x \in unsaved /\ x = op.fd /\ pc = "handler" /\ fcb'[x] = fcb[x]
  BY <1>1, <1>4, <1>6 DEF IInv, Unsaved, Kinds, Transferring, InControl, Mine
<1>7. pc = "handler" => fcb'[op.fd] = fcb[op.fd] /\ op.fd \in owned'
  BY <1>1, <1>4 DEF Mine, IInv, Shapes, Held, Transferring
<1> QED
  BY <1>1, <1>4, <1>5, <1>6, <1>7, ClientHolds DEF IInv, Kinds, Shapes

LEMMA UnlinkHolds ==
  ASSUME IInv, NEW n \in Name, Unlink(n)
  PROVE  IInv'
<1>1. disk' = [disk EXCEPT ![FcParse(n)] = NoFile] /\ Closed(FcParse(n))
  BY DEF Unlink
<1>2. disk' \in DiskType /\ \A k \in Key : ~Closed(k) => disk'[k] = disk[k]
  BY <1>1 DEF IInv, Shapes, DiskType
<1> QED
  BY <1>2, KeepHolds DEF Unlink

LEMMA SignalHolds ==
  ASSUME IInv, NEW action \in Actions, Signal(action)
  PROVE  IInv'
<1>1. /\ InControl /\ where' \in {"default", "ignore", "handler"}
      /\ UNCHANGED <<uid, disk, unsaved, fcb, pc, op, self, owned>>
  BY UnixFileAssumption DEF Signal
<1>2. Opened' /\ NoSlotLost'
  BY <1>1 DEF IInv, Opened, NoSlotLost, OnFile
<1>3. ASSUME NEW x \in unsaved'
      PROVE  \/ MustClose(fcb'[x].use)
             \/ x \in unsaved /\ x = op.fd /\ pc = "handler" /\ fcb'[x] = fcb[x]
  BY <1>1, <1>3 DEF IInv, Unsaved, Transferring, InControl
<1> QED
  BY <1>1, <1>2, <1>3, ClientHolds DEF IInv, Kinds, Shapes, Held, Transferring

LEMMA SetUidHolds ==
  ASSUME IInv, NEW u \in Users, SetUid(u)
  PROVE  IInv'
<1>1. pc = "client" /\ pc' = pc /\ uid' = u /\ self' = u /\ UNCHANGED <<disk, unsaved, fcb, where, op, owned>>
  BY DEF SetUid
<1>2. Kinds' /\ Shapes'
  BY <1>1 DEF IInv, Kinds, Shapes
<1>3. Luid' /\ Held' /\ Borrowed' /\ Progress' /\ Renaming' /\ CountIsTrue'
  BY <1>1 DEF IInv, Luid, Held, Borrowed, Progress, Renaming, CountIsTrue, Finished, Transferring
<1>4. Opened' /\ NoSlotLost' /\ Unsaved'
  BY <1>1 DEF IInv, Opened, OnFile, NoSlotLost, Unsaved, Transferring
<1> QED
  BY <1>2, <1>3, <1>4 DEF IInv

(* The program ends, of its own or by control-C in a transfer.             *)
LEMMA ExitHolds ==
  ASSUME IInv, pc \in {"client", "handler", "loop"}, Exit
  PROVE  IInv'
<1>1. /\ unsaved' = {fd \in unsaved : ~MustClose(fcb[fd].use)} /\ fcb' = [fd \in Fd |-> Free]
      /\ owned' = {} /\ pc' = "exited" /\ UNCHANGED <<uid, disk, where, op, self>>
  BY DEF Exit
<1>2. Free \in FcbType /\ Free.use = U_FREE
  BY DEF Free, FcbType, U_FREE
<1>3. Kinds' /\ Shapes'
  BY <1>1, <1>2 DEF IInv, Kinds, Shapes
<1>4. Opened' /\ NoSlotLost'
  BY <1>1, <1>2 DEF Opened, OnFile, NoSlotLost, U_FREE, U_READ, U_WRITE, U_RDWR
<1>5. Unsaved'
  BY <1>1 DEF IInv, Unsaved, Kinds
<1>6. Luid' /\ Held' /\ Borrowed' /\ Progress' /\ Renaming' /\ CountIsTrue'
  BY <1>1 DEF IInv, Luid, Held, Borrowed, Progress, Renaming, CountIsTrue, Finished, Transferring
<1> QED
  BY <1>3, <1>4, <1>5, <1>6 DEF IInv

(* A transfer begins.                                                      *)
LEMMA CallHolds ==
  ASSUME IInv, NEW fd \in Fd, NEW kind \in {"read", "write"}, NEW n \in Nat, NEW b \in Byte \cup {0},
         NEW utmp \in {U_FREE, U_WRITE, U_RDWR}, NEW f \in FcbType,
         Transfer(kind, fd, n, b, f.rwp, utmp),
         fcb' = [fcb EXCEPT ![fd] = f],
         f.name = fcb[fd].name,
         IF utmp = U_FREE THEN f.use = fcb[fd].use ELSE f.use = U_READ /\ fcb[fd].use = utmp,
         \/ kind = "read" /\ f.use \in {U_READ, U_RDWR}
         \/ kind = "write" /\ f.use \in {U_WRITE, U_RDWR} \cup Devices /\ utmp = U_FREE /\ b \in Byte
  PROVE  IInv'
<1>1. /\ pc = "client" /\ pc' = "loop" /\ fd \in owned
      /\ op' = [NoOp EXCEPT !.kind = kind, !.fd = fd, !.count = n, !.left = n,
                            !.luid = uid, !.data = b, !.start = f.rwp, !.utmp = utmp]
      /\ UNCHANGED <<uid, disk, unsaved, where, self, owned>>
  BY DEF Transfer, Mine
<1>2. op' = [kind |-> kind, fd |-> fd, count |-> n, left |-> n, luid |-> uid, data |-> b,
             start |-> f.rwp, got |-> <<>>, utmp |-> utmp, ret |-> 0]
  BY <1>1 DEF NoOp
<1>3. /\ fcb' \in [Fd -> FcbType] /\ fcb'[fd] = f
      /\ \A x \in Fd : x # fd => fcb'[x] = fcb[x]
  BY DEF IInv, Shapes
<1>4. Shapes'
  <2>1. f.rwp \in Nat /\ uid \in Users /\ <<>> \in Seq(Files \cup Byte \cup {CPMETX})
    BY DEF FcbType, IInv, Kinds
  <2>2. op' \in OpType
    BY <1>2, <2>1 DEF OpType
  <2> QED
    BY <1>1, <1>3, <2>2 DEF IInv, Shapes
<1>5. Kinds'
  BY <1>1 DEF IInv, Kinds
<1>6. Opened'
  BY <1>1, <1>3 DEF IInv, Opened, OnFile, U_FREE, U_READ, U_WRITE, U_RDWR
<1>7. NoSlotLost'
  BY <1>1, <1>3 DEF IInv, NoSlotLost, U_FREE, U_READ, U_WRITE, U_RDWR
<1>8. Luid' /\ Borrowed' /\ Progress' /\ Renaming' /\ CountIsTrue'
  <2>1. n - n = 0 /\ f.rwp + 0 = f.rwp
    BY DEF FcbType
  <2> QED
    BY <1>1, <1>2, <1>3, <2>1 DEF IInv, Luid, Borrowed, Progress, Renaming, CountIsTrue, Finished, Transferring
<1>9. Held'
  BY <1>1, <1>2, <1>3 DEF Held, Transferring, Readable, Writeable
<1>10. Unsaved'
  BY <1>1, <1>2, <1>3 DEF IInv, Unsaved, MustClose, Kinds, Borrowed, Transferring
<1> QED
  BY <1>4, <1>5, <1>6, <1>7, <1>8, <1>9, <1>10 DEF IInv

LEMMA ReadCallHolds ==
  ASSUME IInv, NEW fd \in Fd, NEW n \in Lens, ReadCall(fd, n)
  PROVE  IInv'
<1>1. fcb \in [Fd -> FcbType] /\ n \in Nat
  BY UnixFileAssumption DEF IInv, Shapes
<1>2. fcb' = [fcb EXCEPT ![fd] = fcb[fd]] /\ fcb[fd] \in FcbType
  BY <1>1 DEF ReadCall
<1> QED
  BY <1>1, <1>2, CallHolds DEF ReadCall, Readable

LEMMA WriteCallHolds ==
  ASSUME IInv, NEW fd \in Fd, NEW n \in Lens, NEW b \in Byte, WriteCall(fd, n, b)
  PROVE  IInv'
<1>1. fcb \in [Fd -> FcbType] /\ n \in Nat
  BY UnixFileAssumption DEF IInv, Shapes
<1>2. fcb' = [fcb EXCEPT ![fd] = fcb[fd]] /\ fcb[fd] \in FcbType
  BY <1>1 DEF WriteCall
<1> QED
  BY <1>1, <1>2, CallHolds DEF WriteCall, Writeable

LEMMA SSizeCallHolds ==
  ASSUME IInv, NEW fd \in Fd, SSizeCall(fd)
  PROVE  IInv'
<1> DEFINE last == FSize(fd) - SECSIZE
           pos == IF last >= 0 THEN last ELSE fcb[fd].rwp
           f == [use |-> U_READ, name |-> fcb[fd].name, rwp |-> pos]
<1>1. fcb \in [Fd -> FcbType] /\ fcb[fd] \in FcbType /\ 2 * SECSIZE \in Nat /\ SECSIZE \in Nat
  BY UnixFileAssumption DEF IInv, Shapes
<1>2. OnFile(fd) /\ fcb[fd].use \in {U_WRITE, U_RDWR} /\ FSize(fd) \in Nat
  BY FSizeType DEF SSizeCall, OnFile
<1>3. pos \in Nat
  BY <1>1, <1>2 DEF FcbType
<1>4. Transfer("read", fd, 2 * SECSIZE, 0, pos, fcb[fd].use) /\ fcb' = [fcb EXCEPT ![fd].use = U_READ, ![fd].rwp = pos]
  BY DEF SSizeCall
<1> HIDE DEF pos
<1>5. f \in FcbType /\ f.rwp = pos /\ f.use = U_READ /\ f.name = fcb[fd].name
  BY <1>1, <1>3 DEF FcbType, U_READ
<1>6. fcb' = [fcb EXCEPT ![fd] = f]
  <2>1. [[fcb[fd] EXCEPT !.use = U_READ] EXCEPT !.rwp = pos] = f
    <3>1. fcb[fd] = [use |-> fcb[fd].use, name |-> fcb[fd].name, rwp |-> fcb[fd].rwp]
      BY <1>1 DEF FcbType
    <3>2. [fcb[fd] EXCEPT !.use = U_READ] = [use |-> U_READ, name |-> fcb[fd].name, rwp |-> fcb[fd].rwp]
      BY <3>1
    <3>3. [[use |-> U_READ, name |-> fcb[fd].name, rwp |-> fcb[fd].rwp] EXCEPT !.rwp = pos] = f
      OBVIOUS
    <3> QED
      BY <3>2, <3>3
  <2>2. fcb' = [[fcb EXCEPT ![fd] = [fcb[fd] EXCEPT !.use = U_READ]]
                 EXCEPT ![fd] = [[fcb[fd] EXCEPT !.use = U_READ] EXCEPT !.rwp = pos]]
    BY <1>1, <1>4
  <2> QED
    BY <1>1, <2>1, <2>2
<1>7. Transfer("read", fd, 2 * SECSIZE, 0, f.rwp, fcb[fd].use)
  BY <1>4, <1>5
<1> HIDE DEF f
<1>8. fcb[fd].use \in {U_FREE, U_WRITE, U_RDWR} /\ fcb[fd].use # U_FREE
  BY <1>2 DEF U_FREE, U_WRITE, U_RDWR
<1> QED
  BY <1>1, <1>5, <1>6, <1>7, <1>8, CallHolds

-----------------------------------------------------------------------------
(* The steps of a transfer.                                                *)

(* Steps that move no byte.                                                *)
LEMMA PollHolds ==
  ASSUME IInv, PollQuiet \/ PollHandler \/ HandlerReturns \/ EnterUser \/ SetUidBack
  PROVE  IInv'
<1>1. /\ Transferring /\ pc' \in {"handler", "enter", "sector", "char", "loop"}
      /\ UNCHANGED <<disk, unsaved, fcb, where, op, self, owned>>
  BY DEF PollQuiet, PollHandler, HandlerReturns, EnterUser, SetUidBack, Transferring, Ahead
<1>2. /\ pc' = "enter" => pc \in {"loop", "handler"} /\ OnFile(op.fd)
      /\ pc' = "char" => pc \in {"loop", "handler"} /\ ~OnFile(op.fd)
      /\ pc' \in {"handler", "enter", "sector", "char"} => op.left > 0
      /\ pc' = "sector" => pc = "enter" /\ uid' = fcb[op.fd].name[1]
      /\ pc' = "loop" => pc = "back" /\ uid' = op.luid
      /\ pc' \in {"handler", "enter", "char"} => uid' = uid /\ pc \in {"loop", "handler"}
  BY DEF PollQuiet, PollHandler, HandlerReturns, EnterUser, SetUidBack, Ahead, IInv, Held
<1>3. uid' \in Users
  BY <1>1, <1>2 DEF IInv, Kinds, Held, Opened, Luid, Shapes, OpType, Key
<1>4. Kinds' /\ Shapes'
  BY <1>1, <1>3 DEF IInv, Kinds, Shapes
<1>5. Luid'
  BY <1>1, <1>2 DEF IInv, Luid, Transferring
<1>6. Held'
  BY <1>1, <1>2 DEF IInv, Held, Transferring, Readable, Writeable, OnFile
<1>7. Borrowed' /\ Unsaved'
  BY <1>1 DEF IInv, Borrowed, Unsaved, Transferring
<1>8. Progress' /\ Renaming' /\ CountIsTrue'
  BY <1>1 DEF IInv, Progress, Renaming, CountIsTrue, Finished, Transferring, OnFile
<1>9. Opened' /\ NoSlotLost'
  BY <1>1 DEF IInv, Opened, NoSlotLost, OnFile
<1> QED
  BY <1>4, <1>5, <1>6, <1>7, <1>8, <1>9 DEF IInv

LEMMA DeviceHolds ==
  ASSUME IInv, DeviceChar
  PROVE  IInv'
<1>1. /\ pc = "char" /\ pc' = "loop" /\ op' = [op EXCEPT !.left = op.left - 1]
      /\ UNCHANGED <<uid, disk, unsaved, fcb, where, self, owned>>
  BY DEF DeviceChar
<1>2. op \in OpType /\ op.left > 0 /\ ~OnFile(op.fd)
  BY <1>1 DEF IInv, Shapes, Held
<1>3. op' \in OpType /\ op'.left \in Nat /\ op'.left <= op.left
  BY <1>1, <1>2 DEF OpType
<1>4. /\ op'.fd = op.fd /\ op'.kind = op.kind /\ op'.luid = op.luid /\ op'.utmp = op.utmp
      /\ op'.count = op.count /\ op'.data = op.data
  BY <1>1, <1>2 DEF OpType
<1>5. Kinds' /\ Shapes'
  BY <1>1, <1>3 DEF IInv, Kinds, Shapes
<1>6. Luid' /\ Held'
  BY <1>1, <1>4 DEF IInv, Luid, Held, Transferring, Readable, Writeable, OnFile
<1>7. Borrowed' /\ Unsaved'
  BY <1>1, <1>4 DEF IInv, Borrowed, Unsaved, Transferring
<1>8. Progress'
  <2>1. op.count \in Nat /\ op.left \in Nat /\ op.left <= op.count
    BY <1>1, <1>2 DEF OpType, IInv, Progress, Transferring
  <2> QED
    BY <1>1, <1>2, <1>3, <1>4, <2>1 DEF Progress, Transferring, OnFile
<1>9. Renaming' /\ CountIsTrue' /\ Opened' /\ NoSlotLost'
  BY <1>1 DEF IInv, Renaming, CountIsTrue, Finished, Opened, NoSlotLost, OnFile
<1> QED
  BY <1>5, <1>6, <1>7, <1>8, <1>9 DEF IInv

(* The part of a sector a step moves is not empty, lies in the sector, and *)
(* is no more than is left.                                                *)
LEMMA PartOfSector ==
  ASSUME IInv, pc = "sector"
  PROVE  /\ Here(fcb[op.fd].name) = fcb[op.fd].name
         /\ fcb[op.fd].name \in Key /\ disk[fcb[op.fd].name] # NoFile
         /\ fcb[op.fd].rwp \in Nat /\ CurRec(op.fd) \in Nat
         /\ Offs(op.fd) \in 0..(SECSIZE - 1)
         /\ Size(op.fd) \in 1..op.left /\ Offs(op.fd) + Size(op.fd) <= SECSIZE
<1>1. /\ op.fd \in Fd /\ op.left \in Nat /\ op.left > 0 /\ fcb[op.fd] \in FcbType
      /\ OnFile(op.fd) /\ uid = fcb[op.fd].name[1]
  BY DEF IInv, Shapes, OpType, Held, Luid
<1>2. fcb[op.fd].name \in Key /\ disk[fcb[op.fd].name] # NoFile /\ Here(fcb[op.fd].name) = fcb[op.fd].name
  BY <1>1 DEF IInv, Opened, Key, Here
<1>3. fcb[op.fd].rwp \in Nat /\ SECSIZE \in Nat \ {0}
  BY <1>1, UnixFileAssumption DEF FcbType
<1>4. Offs(op.fd) \in 0..(SECSIZE - 1) /\ CurRec(op.fd) \in Nat
  BY <1>3, Division DEF Offs, CurRec
<1> QED
  BY <1>1, <1>2, <1>3, <1>4 DEF Size

(* A sector has been moved: the position and what is left keep step.       *)
LEMMA MovedHolds ==
  ASSUME IInv, pc = "sector", NEW n \in 1..op.left, Moved(op.fd, n),
         op' \in OpType, op'.left = op.left - n, op'.fd = op.fd, op'.kind = op.kind,
         op'.luid = op.luid, op'.utmp = op.utmp, op'.count = op.count, op'.start = op.start, op'.data = op.data,
         disk' \in DiskType, \A k \in Key : disk[k] # NoFile => disk'[k] # NoFile,
         \/ UNCHANGED unsaved
         \/ unsaved' = unsaved \cup {op.fd} /\ op.kind = "write",
         UNCHANGED <<uid, where, self, owned>>
  PROVE  IInv'
<1>1. /\ op \in OpType /\ op.fd \in Fd /\ fcb \in [Fd -> FcbType] /\ OnFile(op.fd)
      /\ fcb[op.fd] \in FcbType
  BY DEF IInv, Shapes, OpType, Held
<1>2. /\ fcb' = [fcb EXCEPT ![op.fd].rwp = fcb[op.fd].rwp + n] /\ pc' = "back"
      /\ fcb[op.fd].rwp + n \in Nat
  BY <1>1 DEF Moved, FcbType
<1>3. [fcb[op.fd] EXCEPT !.rwp = fcb[op.fd].rwp + n] \in FcbType
  BY <1>1, <1>2 DEF FcbType
<1>4. /\ fcb' \in [Fd -> FcbType] /\ fcb'[op.fd].rwp = fcb[op.fd].rwp + n
      /\ \A fd \in Fd : fcb'[fd].use = fcb[fd].use /\ fcb'[fd].name = fcb[fd].name
  BY <1>1, <1>2, <1>3 DEF FcbType
<1>5. Kinds' /\ Shapes'
  BY <1>1, <1>2, <1>4 DEF IInv, Kinds, Shapes
<1>6. Opened' /\ NoSlotLost'
  BY <1>4 DEF IInv, Opened, NoSlotLost, OnFile
<1>7. Luid' /\ Held'
  BY <1>1, <1>2, <1>4 DEF IInv, Luid, Held, Transferring, Readable, Writeable, OnFile
<1>8. Borrowed'
  BY <1>1, <1>2, <1>4 DEF IInv, Borrowed, Transferring
<1>9. Unsaved'
  <2>1. op.kind = "write" => MustClose(fcb[op.fd].use)
    BY <1>1, UnixFileAssumption DEF IInv, Held, Transferring, OnFile, Writeable, MustClose, U_READ, U_WRITE, U_RDWR
  <2> QED
    BY <1>1, <1>2, <1>4, <2>1 DEF IInv, Unsaved, MustClose, Kinds, Transferring
<1>10. Progress'
  <2>1. /\ fcb[op.fd].rwp = op.start + (op.count - op.left) /\ op.left <= op.count
        /\ op.start \in Nat /\ op.count \in Nat /\ op.left \in Nat
    BY <1>1 DEF IInv, Progress, Transferring, OpType
  <2> QED
    BY <1>2, <1>4, <2>1 DEF Progress, Transferring
<1>11. Renaming' /\ CountIsTrue'
  BY <1>2 DEF Renaming, CountIsTrue, Finished
<1> QED
  BY <1>5, <1>6, <1>7, <1>8, <1>9, <1>10, <1>11 DEF IInv

(* A sector is refused: the end of the file, or of the disk.               *)
LEMMA RefusedHolds ==
  ASSUME IInv, pc = "sector", Refused, Short,
         UNCHANGED <<uid, disk, unsaved, where, op, self, owned>>
  PROVE  IInv'
<1>1. pc' = "leave" /\ UNCHANGED fcb
  BY DEF Refused
<1>2. Kinds' /\ Shapes' /\ Opened' /\ NoSlotLost'
  BY <1>1 DEF IInv, Kinds, Shapes, Opened, NoSlotLost, OnFile
<1>3. Luid' /\ Held' /\ Borrowed' /\ Unsaved'
  BY <1>1 DEF IInv, Luid, Held, Borrowed, Unsaved, Transferring, Readable, Writeable, OnFile
<1>4. Short'
  BY <1>1 DEF Short, BdosCanWrite, Full, Sectors, CurRec
<1>5. Progress' /\ Renaming' /\ CountIsTrue'
  BY <1>1, <1>4 DEF IInv, Progress, Renaming, CountIsTrue, Finished, Transferring, OnFile
<1> QED
  BY <1>2, <1>3, <1>5 DEF IInv

(* What there is of a sector on the disk.                                  *)
LEMMA SectorRead ==
  ASSUME IInv, NEW k \in Key, disk[k] # NoFile, NEW r \in Nat
  PROVE  /\ BdosRead(k, r) \in Sector \cup {NoSector}
         /\ BdosRead(k, r) # NoSector => r \in Rec /\ BdosRead(k, r) = disk[k][r]
         /\ BdosRead(k, r) = NoSector <=> r \notin Sectors(k)
<1>1. disk[k] \in [Rec -> Sector \cup {NoSector}]
  BY DEF IInv, Shapes, DiskType
<1> QED
  BY <1>1 DEF BdosRead, Sectors

LEMMA PieceType ==
  ASSUME NEW s \in Sector, NEW offs \in 0..(SECSIZE - 1), NEW n \in Nat, offs + n <= SECSIZE
  PROVE  Piece(s, offs, n) \in Seq(Files \cup Byte \cup {CPMETX}) /\ Len(Piece(s, offs, n)) = n
<1>1. \A i \in 1..n : s[offs + i - 1] \in Files \cup Byte \cup {CPMETX}
  <2>1. ASSUME NEW i \in 1..n PROVE offs + i - 1 \in 0..(SECSIZE - 1)
    BY UnixFileAssumption
  <2> QED
    BY <2>1 DEF Sector
<1> QED
  BY <1>1 DEF Piece

LEMMA ReadSectorHolds ==
  ASSUME IInv, ReadSector
  PROVE  IInv'
<1> DEFINE fd == op.fd
           k == fcb[fd].name
           s == BdosRead(k, CurRec(fd))
           n == Size(fd)
<1>1. /\ pc = "sector" /\ op.kind = "read" /\ op \in OpType /\ disk \in DiskType
      /\ UNCHANGED <<uid, disk, unsaved, where, self, owned>>
  BY DEF ReadSector, IInv, Shapes
<1>2. /\ Here(k) = k /\ k \in Key /\ disk[k] # NoFile /\ CurRec(fd) \in Nat
      /\ Offs(fd) \in 0..(SECSIZE - 1) /\ n \in 1..op.left /\ Offs(fd) + n <= SECSIZE
  BY <1>1, PartOfSector
<1>3. CASE s = NoSector
  <2>1. Refused /\ UNCHANGED op
    BY <1>2, <1>3 DEF ReadSector
  <2>2. Short
    BY <1>1, <1>2, <1>3, SectorRead DEF Short
  <2> QED
    BY <1>1, <2>1, <2>2, RefusedHolds
<1>4. CASE s # NoSector
  <2>1. /\ Moved(fd, n)
        /\ op' = [op EXCEPT !.left = op.left - n, !.got = op.got \o Piece(s, Offs(fd), n)]
    BY <1>2, <1>4 DEF ReadSector
  <2>2. Piece(s, Offs(fd), n) \in Seq(Files \cup Byte \cup {CPMETX})
    <3>1. s \in Sector /\ n \in Nat
      BY <1>2, <1>4, SectorRead
    <3> HIDE DEF s, n
    <3> QED
      BY <1>2, <3>1, PieceType
  <2>3. op.left - n \in Nat /\ op.got \o Piece(s, Offs(fd), n) \in Seq(Files \cup Byte \cup {CPMETX})
    <3>1. op.got \in Seq(Files \cup Byte \cup {CPMETX}) /\ op.left \in Nat
      BY <1>1 DEF OpType
    <3> HIDE DEF s, n, fd
    <3> QED
      BY <1>2, <2>2, <3>1
  <2> HIDE DEF s, n
  <2>4. /\ op' \in OpType /\ op'.left = op.left - n /\ op'.fd = op.fd /\ op'.kind = op.kind
        /\ op'.luid = op.luid /\ op'.utmp = op.utmp /\ op'.count = op.count /\ op'.start = op.start
        /\ op'.data = op.data
    BY <1>1, <2>1, <2>3 DEF OpType
  <2> QED
    BY <1>1, <1>2, <2>1, <2>4, MovedHolds
<1> QED
  BY <1>3, <1>4

LEMMA WriteSectorHolds ==
  ASSUME IInv, WriteSector
  PROVE  IInv'
<1> DEFINE fd == op.fd
           k == fcb[fd].name
           r == CurRec(fd)
           n == Size(fd)
           new == [i \in 0..(SECSIZE - 1) |-> IF i \in Offs(fd)..(Offs(fd) + n - 1)
                                               THEN op.data ELSE OldSector(k, r)[i]]
<1>1. /\ pc = "sector" /\ op.kind = "write" /\ op \in OpType /\ disk \in DiskType
      /\ op.data \in Byte /\ UNCHANGED <<uid, where, self, owned>>
  BY DEF WriteSector, IInv, Shapes, Held, Transferring
<1>2. /\ Here(k) = k /\ k \in Key /\ disk[k] # NoFile /\ r \in Nat /\ n \in 1..op.left
  BY <1>1, PartOfSector
<1>3. CASE ~BdosCanWrite(k, r)
  <2>1. Refused /\ UNCHANGED <<disk, unsaved, op>>
    BY <1>2, <1>3 DEF WriteSector
  <2>2. Short
    BY <1>1, <1>3 DEF Short
  <2> QED
    BY <1>1, <2>1, <2>2, RefusedHolds
<1>4. CASE BdosCanWrite(k, r)
  <2>1. /\ Moved(fd, n) /\ op' = [op EXCEPT !.left = op.left - n] /\ unsaved' = unsaved \cup {fd}
        /\ disk' = [disk EXCEPT ![k][r] = new]
    BY <1>2, <1>4 DEF WriteSector
  <2>2. new \in Sector
    <3>1. OldSector(k, r) \in Sector
      BY <1>2, SectorRead DEF OldSector, BlankSector, Sector
    <3> QED
      BY <1>1, <3>1 DEF Sector
  <2>3. r \in Rec
    BY <1>4 DEF BdosCanWrite, Sectors
  <2> HIDE DEF new
  <2>4. /\ disk[k] \in [Rec -> Sector \cup {NoSector}]
        /\ disk' = [disk EXCEPT ![k] = [disk[k] EXCEPT ![r] = new]]
    BY <1>1, <1>2, <2>1 DEF DiskType
  <2>5. [disk[k] EXCEPT ![r] = new] \in [Rec -> Sector \cup {NoSector}]
    BY <2>2, <2>3, <2>4
  <2>6. [disk[k] EXCEPT ![r] = new] # NoFile
    <3>1. r \in DOMAIN [disk[k] EXCEPT ![r] = new]
      BY <2>3, <2>5
    <3> QED
      BY <3>1 DEF NoFile
  <2>7. disk' \in DiskType /\ \A x \in Key : disk[x] # NoFile => disk'[x] # NoFile
    BY <1>1, <1>2, <2>4, <2>5, <2>6 DEF DiskType
  <2>8. op.left - n \in Nat
    BY <1>1, <1>2 DEF OpType
  <2> HIDE DEF n
  <2>9. /\ op' \in OpType /\ op'.left = op.left - n /\ op'.fd = op.fd /\ op'.kind = op.kind
        /\ op'.luid = op.luid /\ op'.utmp = op.utmp /\ op'.count = op.count /\ op'.start = op.start
        /\ op'.data = op.data
    BY <1>1, <2>1, <2>8 DEF OpType
  <2> QED
    BY <1>1, <1>2, <2>1, <2>7, <2>9, MovedHolds
<1> QED
  BY <1>3, <1>4

(* The end of a transfer: what is answered is what was moved.              *)
LEMMA LeaveHolds ==
  ASSUME IInv, Leave
  PROVE  IInv'
<1>1. /\ pc = "leave" \/ (pc = "loop" /\ op.left = 0)
      /\ uid' = op.luid /\ op' = [op EXCEPT !.ret = op.count - op.left]
      /\ fcb' = IF op.utmp = U_FREE THEN fcb ELSE [fcb EXCEPT ![op.fd].use = op.utmp]
      /\ pc' = "done" /\ UNCHANGED <<disk, unsaved, where, self, owned>>
  BY DEF Leave, LeaveUid, Returned
<1>2. /\ op \in OpType /\ op.fd \in Fd /\ fcb \in [Fd -> FcbType] /\ Transferring
      /\ op.utmp # U_FREE => fcb[op.fd].use = U_READ /\ op.utmp \in {U_WRITE, U_RDWR}
  BY <1>1 DEF IInv, Shapes, OpType, Borrowed, Transferring
<1>3. /\ op' \in OpType /\ op'.ret = op.count - op.left /\ op'.fd = op.fd /\ op'.kind = op.kind
      /\ op'.utmp = op.utmp /\ op'.count = op.count /\ op'.start = op.start
  BY <1>1, <1>2 DEF OpType
<1>4. /\ fcb' \in [Fd -> FcbType]
      /\ \A fd \in Fd : fcb'[fd].name = fcb[fd].name /\ fcb'[fd].rwp = fcb[fd].rwp
      /\ \A fd \in Fd : fcb'[fd].use # fcb[fd].use =>
                           fd = op.fd /\ op.utmp # U_FREE /\ fcb'[fd].use = op.utmp
      /\ op.utmp # U_FREE => fcb'[op.fd].use = op.utmp
  <2>1. CASE op.utmp = U_FREE
    BY <1>1, <1>2, <2>1
  <2>2. CASE op.utmp # U_FREE
    <3>1. [fcb[op.fd] EXCEPT !.use = op.utmp] \in FcbType
      BY <1>2, <2>2 DEF FcbType, U_WRITE, U_RDWR
    <3> QED
      BY <1>1, <1>2, <2>2, <3>1 DEF FcbType
  <2> QED
    BY <2>1, <2>2
<1>5. Kinds'
  BY <1>1, <1>2 DEF IInv, Kinds, Luid
<1>6. Shapes'
  BY <1>1, <1>3, <1>4 DEF IInv, Shapes
<1>7. Opened'
  BY <1>1, <1>2, <1>4 DEF IInv, Opened, OnFile, U_READ
<1>8. NoSlotLost'
  BY <1>1, <1>2, <1>4 DEF IInv, NoSlotLost, Held, U_FREE, U_READ, U_WRITE, U_RDWR
<1>9. Luid' /\ Held' /\ Borrowed' /\ Renaming'
  BY <1>1, <1>2 DEF IInv, Luid, Held, Borrowed, Renaming, Transferring
<1>10. Unsaved'
  <2>1. SUFFICES ASSUME NEW fd \in unsaved PROVE MustClose(fcb'[fd].use)
    BY <1>1 DEF Unsaved
  <2>2. fd \in Fd
    BY <2>1 DEF IInv, Kinds
  <2> QED
    BY <1>2, <1>4, <2>1, <2>2 DEF IInv, Unsaved, MustClose, U_FREE, U_READ
<1>11. CountIsTrue'
  <2>1. OnFile(op.fd)' => OnFile(op.fd)
    BY <1>2, <1>4, <1>3 DEF OnFile, U_FREE, U_READ, U_WRITE, U_RDWR
  <2>2. OnFile(op.fd) => op.count - op.left = fcb'[op.fd].rwp - op.start
    <3>1. OnFile(op.fd) => fcb[op.fd].rwp = op.start + (op.count - op.left)
      BY <1>2 DEF IInv, Progress
    <3> QED
      BY <1>2, <1>4, <3>1 DEF OpType
  <2>3. op.count - op.left < op.count => Short
    BY <1>1, <1>2 DEF OpType, IInv, Progress
  <2>4. Short => Short'
    BY <1>1, <1>2, <1>3, <1>4 DEF Short, BdosCanWrite, Full, Sectors, CurRec
  <2>5. op.kind = "read" => OnFile(op.fd)
    BY <1>2 DEF IInv, Held, OnFile, Readable
  <2> QED
    BY <1>1, <1>3, <2>1, <2>2, <2>3, <2>4, <2>5 DEF CountIsTrue, Finished, Short
<1>12. Progress'
  BY <1>1 DEF Progress, Transferring
<1> QED
  BY <1>5, <1>6, <1>7, <1>8, <1>9, <1>10, <1>11, <1>12 DEF IInv

LEMMA ReturnHolds ==
  ASSUME IInv, Return
  PROVE  IInv'
<1>1. /\ pc = "done" /\ pc' = "client" /\ op' = NoOp
      /\ UNCHANGED <<uid, disk, unsaved, fcb, where, self, owned>>
  BY DEF Return
<1>2. NoOp \in OpType /\ NoOp.utmp = U_FREE
  BY UnixFileAssumption DEF NoOp, OpType, Fd
<1>3. Kinds' /\ Shapes' /\ Opened' /\ NoSlotLost'
  BY <1>1, <1>2 DEF IInv, Kinds, Shapes, Opened, NoSlotLost, OnFile
<1>4. Luid' /\ Held' /\ Borrowed' /\ Progress' /\ Renaming' /\ CountIsTrue'
  BY <1>1, <1>2 DEF IInv, Luid, Held, Borrowed, Progress, Renaming, CountIsTrue, Finished, Transferring
<1>5. Unsaved'
  BY <1>1 DEF IInv, Unsaved, Transferring
<1> QED
  BY <1>3, <1>4, <1>5 DEF IInv

(* rename() between the file it deletes and the entry it changes.          *)
LEMMA RenameHolds ==
  ASSUME IInv, NEW n1 \in Name, NEW n2 \in Name, Rename(n1, n2)
  PROVE  IInv'
<1>1. /\ pc = "client" /\ pc' = "rename" /\ n1.file # n2.file
      /\ Closed(FcParse(n2)) /\ Closed(<<uid, n1.file>>) /\ Closed(<<uid, n2.file>>)
      /\ disk' = [disk EXCEPT ![FcParse(n2)] = NoFile]
      /\ op' = [NoOp EXCEPT !.kind = "rename", !.got = <<n1.file, n2.file>>]
      /\ UNCHANGED <<uid, unsaved, fcb, where, self, owned>>
  BY DEF Rename
<1>2. op' = [kind |-> "rename", fd |-> 0, count |-> 0, left |-> 0, luid |-> 0, data |-> 0,
             start |-> 0, got |-> <<n1.file, n2.file>>, utmp |-> U_FREE, ret |-> 0]
  BY <1>1 DEF NoOp
<1>3. op' \in OpType
  <2>1. 0 \in Fd /\ <<n1.file, n2.file>> \in Seq(Files \cup Byte \cup {CPMETX})
    BY UnixFileAssumption DEF Fd, Name
  <2> QED
    BY <1>2, <2>1 DEF OpType
<1>4. disk' \in DiskType /\ \A k \in Key : ~Closed(k) => disk'[k] = disk[k]
  BY <1>1 DEF IInv, Shapes, DiskType
<1>5. Kinds' /\ Shapes' /\ NoSlotLost'
  BY <1>1, <1>3, <1>4 DEF IInv, Kinds, Shapes, NoSlotLost
<1>6. Opened'
  BY <1>1, <1>4 DEF IInv, Opened, OnFile, Closed
<1>7. Luid' /\ Held' /\ Borrowed' /\ Progress' /\ CountIsTrue'
  <2>1. op'.utmp = U_FREE
    BY <1>2
  <2>2. uid = self
    BY <1>1 DEF IInv, Luid
  <2> QED
    BY <1>1, <2>1, <2>2 DEF Luid, Held, Borrowed, Progress, CountIsTrue, Finished, Transferring
<1>8. Unsaved'
  BY <1>1 DEF IInv, Unsaved, Transferring
<1>9. Renaming'
  <2>1. op'.got = <<n1.file, n2.file>> /\ n1.file \in Files /\ n2.file \in Files
    BY <1>2 DEF Name
  <2> QED
    BY <1>1, <1>2, <2>1 DEF Renaming, Closed, OnFile
<1> QED
  BY <1>5, <1>6, <1>7, <1>8, <1>9 DEF IInv

LEMMA RenameEntryHolds ==
  ASSUME IInv, RenameEntry
  PROVE  IInv'
<1> DEFINE old == <<uid, op.got[1]>>
           new == <<uid, op.got[2]>>
<1>1. /\ pc = "rename" /\ pc' = "done"
      /\ UNCHANGED <<uid, unsaved, fcb, where, self, owned>>
  BY DEF RenameEntry
<1>2. old \in Key /\ new \in Key /\ old # new /\ Closed(old) /\ Closed(new)
  BY <1>1 DEF IInv, Renaming, Kinds, Key
<1>3. disk \in DiskType /\ op \in OpType /\ op.kind = "rename"
  BY <1>1 DEF IInv, Shapes, Renaming
<1>4. \E x \in {0, -1} : op' = [op EXCEPT !.ret = x]
  BY DEF RenameEntry
<1>5. op' \in OpType /\ op'.kind = "rename" /\ op'.utmp = op.utmp
  BY <1>3, <1>4 DEF OpType
<1>6. \/ UNCHANGED disk
      \/ disk' = [disk EXCEPT ![old] = NoFile, ![new] = disk[old]]
  BY DEF RenameEntry
<1>7. disk' \in DiskType /\ \A k \in Key : ~Closed(k) => disk'[k] = disk[k]
  BY <1>2, <1>3, <1>6 DEF DiskType
<1>8. Kinds' /\ Shapes' /\ NoSlotLost'
  BY <1>1, <1>5, <1>7 DEF IInv, Kinds, Shapes, NoSlotLost
<1>9. Opened'
  BY <1>1, <1>7 DEF IInv, Opened, OnFile, Closed
<1>10. Luid' /\ Held' /\ Borrowed' /\ Progress' /\ CountIsTrue' /\ Renaming'
  BY <1>1, <1>5 DEF IInv, Luid, Held, Borrowed, Progress, CountIsTrue, Finished, Renaming, Transferring
<1>11. Unsaved'
  BY <1>1, <1>5 DEF IInv, Unsaved, Transferring
<1> QED
  BY <1>8, <1>9, <1>10, <1>11 DEF IInv

LEMMA InitHolds ==
  ASSUME Init
  PROVE  IInv
<1>1. 0 \in Fd
  BY UnixFileAssumption DEF Fd
<1>2. fcb \in [Fd -> FcbType] /\ fcb[0].use = U_CON /\ \A fd \in Fd : fd # 0 => fcb[fd].use = U_FREE
  BY <1>1 DEF Init, Free, FcbType, U_FREE, U_CON
<1>3. NoOp \in OpType /\ NoOp.utmp = U_FREE
  BY <1>1, UnixFileAssumption DEF NoOp, OpType
<1>4. Kinds /\ Shapes
  BY <1>1, <1>2, <1>3 DEF Init, Kinds, Shapes, DiskType
<1>5. Opened /\ NoSlotLost
  BY <1>2 DEF Init, Opened, OnFile, NoSlotLost, U_FREE, U_READ, U_WRITE, U_RDWR, U_CON
<1>6. Luid /\ Held /\ Borrowed /\ Unsaved /\ Progress /\ Renaming /\ CountIsTrue
  <2>1. pc = "client" /\ op.utmp = U_FREE /\ unsaved = {} /\ uid = self
    BY <1>3 DEF Init
  <2> QED
    BY <2>1 DEF Luid, Held, Borrowed, Unsaved, Progress, Renaming, CountIsTrue, Finished, Transferring
<1> QED
  BY <1>4, <1>5, <1>6 DEF IInv

THEOREM Invariance == Spec => []IInv
<1>1. Init => IInv
  BY InitHolds
<1>2. IInv /\ [Next]_vars => IInv'
  <2>1. SUFFICES ASSUME IInv, [Next]_vars PROVE IInv'
    OBVIOUS
  <2>2. CASE UNCHANGED vars
    <3>1. Kinds' /\ Shapes' /\ Opened' /\ NoSlotLost' /\ Luid' /\ Held'
      BY <2>1, <2>2 DEF vars, IInv, Kinds, Shapes, Opened, NoSlotLost, Luid, Held, Transferring,
                        Readable, Writeable, OnFile
    <3>2. Borrowed' /\ Unsaved' /\ Progress' /\ Renaming' /\ CountIsTrue'
      BY <2>1, <2>2 DEF vars, IInv, Borrowed, Unsaved, Progress, Renaming, CountIsTrue, Transferring,
                        Short, BdosCanWrite, Full, Sectors, CurRec, OnFile, Closed, Finished
    <3> QED
      BY <3>1, <3>2 DEF IInv
  <2>3. CASE Step
    BY <2>1, <2>3, PollHolds, ExitHolds, DeviceHolds, ReadSectorHolds, WriteSectorHolds, LeaveHolds,
       ReturnHolds, RenameEntryHolds
       DEF Step, PollExit
  <2>4. CASE Client
    BY <2>1, <2>4, OpenHolds, UnlinkHolds, RenameHolds, CloseHolds, SSizeCallHolds, SeekHolds,
       ReadCallHolds, WriteCallHolds, SetUidHolds, SignalHolds, ExitHolds
       DEF Client, ProgramExits, InControl
  <2> QED
    BY <2>1, <2>2, <2>3, <2>4 DEF Next
<1> QED
  BY <1>1, <1>2, PTL DEF Spec

(* Every variable of the library stays in range, for any program; a count  *)
(* never runs below zero.                                                  *)
THEOREM TypeCorrect == Spec => []TypeOK
<1>1. IInv => TypeOK
  BY TypesHold DEF IInv
<1> QED
  BY <1>1, Invariance, PTL

(* The library switches user numbers in the middle of a transfer; whenever *)
(* the program or its handler runs, the number is the program's own.       *)
THEOREM UserCorrect == Spec => []UserRestored
<1>1. IInv => UserRestored
  BY DEF IInv, Luid, UserRestored
<1> QED
  BY <1>1, Invariance, PTL

(* No call that fails keeps a slot, and none gives up one that is held.    *)
THEOREM SlotsCorrect == Spec => []NoSlotLost
<1>1. IInv => NoSlotLost
  BY DEF IInv
<1> QED
  BY <1>1, Invariance, PTL

(* What was written through a descriptor is saved before its slot is given *)
(* up, but for the one _ssize() has borrowed when the program is ended.    *)
THEOREM SavedCorrect == Spec => []SavedElsewhere
<1>1. IInv => SavedElsewhere
  BY DEF IInv, Kinds, Unsaved, Held, Borrowed, NoSlotLost, SavedElsewhere, MustClose, U_FREE, U_READ, U_WRITE,
         U_RDWR, Transferring
<1> QED
  BY <1>1, Invariance, PTL

(* What read() and write() answer is what they moved, and less than was    *)
(* asked only at the end of the file or of the disk.                       *)
THEOREM CountCorrect == Spec => []CountIsTrue
<1>1. IInv => CountIsTrue
  BY DEF IInv
<1> QED
  BY <1>1, Invariance, PTL

-----------------------------------------------------------------------------
(***************************************************************************)
(* read() delivers the bytes of the file.  What it has got so far are the  *)
(* bytes it has passed, and no handler can change the file while it is     *)
(* open.                                                                   *)
(***************************************************************************)
Passed == Transferring /\ op.kind = "read" =>
            /\ Len(op.got) = op.count - op.left
            /\ \A i \in 1..Len(op.got) : op.got[i] = ByteAt(fcb[op.fd].name, op.start + i - 1)

ReadInv == Passed /\ ReadsTheFile

(* What the program's handler leaves alone.                                *)
LEMMA HandlerFrame ==
  ASSUME IInv, Transferring, Client
  PROVE  /\ op' = op /\ pc' \in {"handler", "exited"}
         /\ pc' = "handler" => fcb'[op.fd].name = fcb[op.fd].name
         /\ \A k \in Key : ~Closed(k) => disk'[k] = disk[k]
<1>1. op.fd \in Fd /\ fcb \in [Fd -> FcbType] /\ disk \in DiskType
  BY DEF IInv, Shapes, OpType
<1>2. FreeSlots # {} => GetFcb # op.fd
  BY FreeSlot
<1>3. ASSUME NEW dev \in Devices, OpenDevice(dev)
      PROVE  op' = op /\ pc' = pc /\ disk' = disk /\ fcb'[op.fd] = fcb[op.fd] /\ pc = "handler"
  BY <1>1, <1>2, <1>3 DEF OpenDevice, InControl, Transferring
<1>4. ASSUME NEW n \in Name, Creat(n)
      PROVE  /\ op' = op /\ pc' = pc /\ fcb'[op.fd] = fcb[op.fd] /\ pc = "handler"
             /\ \A k \in Key : ~Closed(k) => disk'[k] = disk[k]
  BY <1>1, <1>2, <1>4 DEF Creat, InControl, Transferring, DiskType
<1>5. ASSUME NEW n \in Name, Unlink(n)
      PROVE  /\ op' = op /\ pc' = pc /\ fcb' = fcb /\ pc = "handler"
             /\ \A k \in Key : ~Closed(k) => disk'[k] = disk[k]
  BY <1>1, <1>5 DEF Unlink, InControl, Transferring, DiskType
<1>6. ASSUME NEW n \in Name, NEW mode \in Modes, OpenFile(n, mode)
      PROVE  op' = op /\ pc' = pc /\ disk' = disk /\ fcb'[op.fd] = fcb[op.fd] /\ pc = "handler"
  BY <1>1, <1>2, <1>6 DEF OpenFile, InControl, Transferring
<1>7. ASSUME NEW fd \in Fd, Close(fd) \/ Dup(fd) \/ \E pos \in Pos : LSeek(fd, pos)
      PROVE  op' = op /\ pc' = pc /\ disk' = disk /\ fcb'[op.fd] = fcb[op.fd] /\ pc = "handler"
  BY <1>1, <1>2, <1>7 DEF Close, Dup, LSeek, Mine, InControl, Transferring
<1>8. ASSUME NEW action \in Actions, Signal(action)
      PROVE  op' = op /\ pc' = pc /\ disk' = disk /\ fcb' = fcb /\ pc = "handler"
  BY <1>8 DEF Signal, InControl, Transferring
<1>9. ASSUME ProgramExits PROVE op' = op /\ pc' = "exited" /\ disk' = disk
  BY <1>9 DEF ProgramExits, Exit
<1>10. ASSUME \/ \E n1, n2 \in Name : Rename(n1, n2)
              \/ \E u \in Users : SetUid(u)
              \/ \E fd \in Fd : \/ SSizeCall(fd)
                                \/ \E n \in Lens : ReadCall(fd, n) \/ \E b \in Byte : WriteCall(fd, n, b)
       PROVE  FALSE
  BY <1>10 DEF Rename, SetUid, SSizeCall, ReadCall, WriteCall, Transfer, Transferring
<1> QED
  BY <1>3, <1>4, <1>5, <1>6, <1>7, <1>8, <1>9, <1>10 DEF Client

LEMMA PassedKept ==
  ASSUME IInv, Passed, Transferring, UNCHANGED op,
         op.kind = "read" => /\ fcb'[op.fd].name = fcb[op.fd].name
                             /\ disk'[fcb[op.fd].name] = disk[fcb[op.fd].name]
  PROVE  Passed'
  BY DEF Passed, ByteAt

(* One sector more has been read.                                          *)
LEMMA ReadSectorPasses ==
  ASSUME IInv, Passed, ReadSector
  PROVE  Passed'
<1> DEFINE fd == op.fd
           k == fcb[fd].name
           s == BdosRead(k, CurRec(fd))
           n == Size(fd)
           piece == Piece(s, Offs(fd), n)
<1>1. /\ pc = "sector" /\ op.kind = "read" /\ op \in OpType /\ Transferring
      /\ fcb \in [Fd -> FcbType] /\ fd \in Fd /\ UNCHANGED disk
  BY DEF ReadSector, IInv, Shapes, Transferring, OpType
<1>2. /\ Here(k) = k /\ k \in Key /\ disk[k] # NoFile /\ CurRec(fd) \in Nat /\ fcb[fd].rwp \in Nat
      /\ Offs(fd) \in 0..(SECSIZE - 1) /\ n \in 1..op.left /\ Offs(fd) + n <= SECSIZE
  BY <1>1, PartOfSector
<1>3. CASE s = NoSector
  <2>1. UNCHANGED <<op, fcb>>
    BY <1>2, <1>3 DEF ReadSector, Refused
  <2> QED
    BY <1>1, <2>1, PassedKept
<1>4. CASE s # NoSector
  <2>1. /\ op' = [op EXCEPT !.left = op.left - n, !.got = op.got \o piece]
        /\ fcb' = [fcb EXCEPT ![fd].rwp = fcb[fd].rwp + n]
    BY <1>2, <1>4 DEF ReadSector, Moved
  <2>2. s = disk[k][CurRec(fd)] /\ disk[k][CurRec(fd)] # NoSector
    BY <1>2, <1>4, SectorRead
  <2>3. n \in Nat /\ op.got \in Seq(Files \cup Byte \cup {CPMETX}) /\ op.left \in Nat /\ op.count \in Nat
        /\ op.start \in Nat /\ SECSIZE \in Nat \ {0}
    BY <1>1, <1>2, UnixFileAssumption DEF OpType
  <2>4. Len(op.got) = op.count - op.left /\ fcb[fd].rwp = op.start + Len(op.got)
    BY <1>1 DEF Passed, IInv, Progress, Held
  <2>5. ASSUME NEW j \in 1..n
        PROVE  piece[j] = ByteAt(k, op.start + (Len(op.got) + j) - 1)
    <3>1. piece[j] = s[Offs(fd) + j - 1]
      BY <2>5 DEF Piece
    <3>2. Offs(fd) + (j - 1) < SECSIZE /\ j - 1 \in Nat /\ (fcb[fd].rwp % SECSIZE) + (j - 1) < SECSIZE
      BY <1>2, <2>3 DEF Offs
    <3>3. /\ (fcb[fd].rwp + (j - 1)) \div SECSIZE = CurRec(fd)
          /\ (fcb[fd].rwp + (j - 1)) % SECSIZE = Offs(fd) + (j - 1)
      BY <1>2, <2>3, <3>2, SameSector DEF CurRec, Offs
    <3>4. op.start + (Len(op.got) + j) - 1 = fcb[fd].rwp + (j - 1) /\ Offs(fd) + j - 1 = Offs(fd) + (j - 1)
      <4>1. Len(op.got) \in Nat /\ Offs(fd) \in Nat
        BY <1>2, <2>3
      <4> HIDE DEF n, fd
      <4> QED
        BY <2>3, <2>4, <4>1
    <3>5. ByteAt(k, fcb[fd].rwp + (j - 1)) = disk[k][CurRec(fd)][Offs(fd) + (j - 1)]
      BY <1>2, <2>2, <3>3 DEF ByteAt
    <3> QED
      BY <2>2, <3>1, <3>4, <3>5
  <2>6. /\ op'.kind = op.kind /\ op'.fd = fd /\ op'.start = op.start /\ op'.count = op.count
        /\ op'.left = op.left - n /\ op'.got = op.got \o piece
        /\ fcb'[fd].name = k
    BY <1>1, <2>1 DEF OpType, FcbType
  <2>7. Len(piece) = n /\ piece \in Seq(Files \cup Byte \cup {CPMETX})
    <3>1. s \in Sector
      BY <1>2, <1>4, SectorRead
    <3> HIDE DEF n, s
    <3> QED
      BY <1>2, <2>3, <3>1, PieceType
  <2> HIDE DEF piece, n, s, k, fd
  <2>8. Len(op'.got) = Len(op.got) + n
    <3>1. Len(op.got \o piece) = Len(op.got) + Len(piece)
      BY <2>3, <2>7
    <3>2. op'.got = op.got \o piece
      BY <2>6
    <3> QED
      BY <2>7, <3>1, <3>2
  <2>9. ASSUME NEW i \in 1..Len(op'.got)
        PROVE  op'.got[i] = ByteAt(k, op.start + i - 1)
    <3>1. CASE i <= Len(op.got)
      <4>1. i \in 1..Len(op.got)
        BY <2>3, <2>8, <3>1
      <4>2. op'.got[i] = op.got[i]
        BY <2>3, <2>6, <2>7, <4>1
      <4> QED
        BY <1>1, <4>1, <4>2 DEF Passed, k, fd
    <3>2. CASE i > Len(op.got)
      <4>1. i - Len(op.got) \in 1..n /\ Len(op.got) + (i - Len(op.got)) = i
        BY <2>3, <2>8, <3>2
      <4>2. op'.got[i] = piece[i - Len(op.got)]
        BY <2>3, <2>6, <2>7, <2>8, <3>2
      <4> QED
        BY <2>5, <4>1, <4>2
    <3> QED
      BY <2>3, <2>8, <3>1, <3>2
  <2>10. op'.count - op'.left = Len(op'.got)
    BY <1>2, <2>3, <2>4, <2>6, <2>8
  <2> QED
    BY <1>1, <2>6, <2>9, <2>10 DEF Passed, ByteAt, fd
<1> QED
  BY <1>3, <1>4

(* A transfer that begins has got nothing yet.                             *)
LEMMA CallPasses ==
  ASSUME IInv, pc = "client", Client
  PROVE  Passed'
<1>1. pc' \in {"client", "exited", "rename"} \/ (op'.got = <<>> /\ op'.count = op'.left /\ op'.left \in Nat)
  <2>1. ASSUME \/ \E n1, n2 \in Name : Rename(n1, n2)
               \/ \E n \in Name : Creat(n) \/ Unlink(n) \/ \E mode \in Modes : OpenFile(n, mode)
               \/ \E dev \in Devices : OpenDevice(dev)
               \/ \E fd \in Fd : Close(fd) \/ Dup(fd) \/ \E pos \in Pos : LSeek(fd, pos)
               \/ \E u \in Users : SetUid(u)
               \/ \E action \in Actions : Signal(action)
               \/ ProgramExits
        PROVE  pc' \in {"client", "exited", "rename"}
    BY <2>1 DEF Rename, Creat, Unlink, OpenFile, OpenDevice, Close, Dup, LSeek, SetUid, Signal,
                ProgramExits, Exit
  <2>2. ASSUME NEW kind, NEW fd \in Fd, NEW n \in Nat, NEW b, NEW start, NEW utmp,
               Transfer(kind, fd, n, b, start, utmp)
        PROVE  op'.got = <<>> /\ op'.count = op'.left /\ op'.left \in Nat
    BY <2>2 DEF Transfer, NoOp
  <2>3. 2 * SECSIZE \in Nat /\ \A n \in Lens : n \in Nat
    BY UnixFileAssumption
  <2> QED
    BY <2>1, <2>2, <2>3 DEF Client, ReadCall, WriteCall, SSizeCall
<1>2. ASSUME op'.got = <<>>, op'.count = op'.left, op'.left \in Nat PROVE Passed'
  <2>1. Len(op'.got) = 0 /\ op'.count - op'.left = 0 /\ 1..0 = {}
    BY <1>2
  <2> QED
    BY <2>1 DEF Passed
<1> QED
  BY <1>1, <1>2 DEF Passed, Transferring

LEMMA StepPasses ==
  ASSUME IInv, ReadInv, Step
  PROVE  ReadInv'
<1>1. CASE PollQuiet \/ PollHandler \/ HandlerReturns \/ EnterUser \/ SetUidBack
  <2>1. Transferring /\ pc' # "done" /\ UNCHANGED <<disk, fcb, op>>
    BY <1>1 DEF PollQuiet, PollHandler, HandlerReturns, EnterUser, SetUidBack, Transferring, Ahead
  <2> QED
    BY <2>1, PassedKept DEF ReadInv, ReadsTheFile, Finished
<1>2. CASE DeviceChar
  <2>1. pc = "char" /\ pc' = "loop" /\ op.kind = "write" /\ op' = [op EXCEPT !.left = op.left - 1]
    BY <1>2 DEF DeviceChar, IInv, Held, Transferring, Readable, OnFile
  <2>2. op'.kind = "write"
    BY <2>1 DEF IInv, Shapes, OpType
  <2> QED
    BY <2>1, <2>2 DEF ReadInv, Passed, ReadsTheFile, Finished
<1>3. CASE WriteSector
  <2>1. op.kind = "write" /\ op \in OpType /\ pc' # "done"
    BY <1>3 DEF WriteSector, IInv, Shapes, Moved, Refused
  <2>2. op'.kind = "write"
    BY <1>3, <2>1 DEF WriteSector, OpType
  <2> QED
    BY <2>1, <2>2 DEF ReadInv, Passed, ReadsTheFile, Finished
<1>4. CASE ReadSector
  <2>1. pc' # "done"
    BY <1>4 DEF ReadSector, Moved, Refused
  <2> QED
    BY <1>4, <2>1, ReadSectorPasses DEF ReadInv, ReadsTheFile, Finished
<1>5. CASE Leave
  <2>1. /\ pc' = "done" /\ disk' = disk /\ op' = [op EXCEPT !.ret = op.count - op.left] /\ Transferring
        /\ op \in OpType /\ fcb \in [Fd -> FcbType]
        /\ fcb' = IF op.utmp = U_FREE THEN fcb ELSE [fcb EXCEPT ![op.fd].use = op.utmp]
    BY <1>5 DEF Leave, Returned, Transferring, IInv, Shapes
  <2>2. /\ op'.ret = op.count - op.left /\ op'.fd = op.fd /\ op'.kind = op.kind /\ op'.got = op.got
        /\ op'.start = op.start /\ fcb'[op.fd].name = fcb[op.fd].name
    BY <2>1 DEF OpType, FcbType
  <2>3. op.kind = "read" => /\ Len(op.got) = op.count - op.left
                            /\ \A i \in 1..Len(op.got) : op.got[i] = ByteAt(fcb[op.fd].name, op.start + i - 1)
    BY <2>1 DEF ReadInv, Passed
  <2>4. ReadsTheFile'
    BY <2>1, <2>2, <2>3 DEF ReadsTheFile, Finished, ByteAt
  <2> QED
    BY <2>1, <2>4 DEF ReadInv, Passed, Transferring
<1>6. CASE Return \/ PollExit
  <2>1. pc' \in {"client", "exited"}
    BY <1>6 DEF Return, PollExit, Exit
  <2> QED
    BY <2>1 DEF ReadInv, Passed, ReadsTheFile, Finished, Transferring
<1>7. CASE RenameEntry
  <2>1. pc' = "done" /\ op.kind = "rename" /\ \E x \in {0, -1} : op' = [op EXCEPT !.ret = x]
    BY <1>7 DEF RenameEntry, IInv, Renaming
  <2>2. op'.kind = "rename"
    BY <2>1 DEF IInv, Shapes, OpType
  <2> QED
    BY <2>1, <2>2 DEF ReadInv, Passed, ReadsTheFile, Finished, Transferring
<1> QED
  BY <1>1, <1>2, <1>3, <1>4, <1>5, <1>6, <1>7 DEF Step

(* read() delivers the bytes of the file from the position it started at,  *)
(* across sectors, user numbers and handlers.                              *)
THEOREM ReadCorrect == Spec => []ReadsTheFile
<1>1. Init => ReadInv
  BY DEF Init, ReadInv, Passed, ReadsTheFile, Finished, Transferring
<1>2. IInv /\ ReadInv /\ [Next]_vars => ReadInv'
  <2>1. SUFFICES ASSUME IInv, ReadInv, [Next]_vars PROVE ReadInv'
    OBVIOUS
  <2>2. CASE UNCHANGED vars
    BY <2>1, <2>2 DEF vars, ReadInv, Passed, ReadsTheFile, Finished, Transferring, ByteAt
  <2>3. CASE Step
    BY <2>1, <2>3, StepPasses
  <2>4. CASE Client
    <3>1. InControl
      BY <2>4 DEF Client, OpenDevice, Creat, Unlink, OpenFile, Rename, Close, Dup, SSizeCall, LSeek,
                  ReadCall, WriteCall, Transfer, SetUid, Signal, ProgramExits, InControl
    <3>2. pc' # "done"
      BY <2>4 DEF Client, OpenDevice, Creat, Unlink, OpenFile, Rename, Close, Dup, SSizeCall, LSeek,
                  ReadCall, WriteCall, Transfer, SetUid, Signal, ProgramExits, Exit, InControl
    <3>3. CASE pc = "client"
      BY <2>1, <2>4, <3>2, <3>3, CallPasses DEF ReadInv, ReadsTheFile, Finished
    <3>4. CASE pc = "handler"
      <4>1. /\ op' = op /\ pc' \in {"handler", "exited"}
            /\ pc' = "handler" => fcb'[op.fd].name = fcb[op.fd].name
            /\ \A k \in Key : ~Closed(k) => disk'[k] = disk[k]
        BY <2>1, <2>4, <3>4, HandlerFrame DEF Transferring
      <4>2. op.kind = "read" => fcb[op.fd].name \in Key /\ ~Closed(fcb[op.fd].name)
        BY <2>1, <3>4 DEF IInv, Held, Transferring, Readable, OnFile, Opened, Closed, Shapes, OpType
      <4>3. Passed'
        BY <2>1, <3>4, <4>1, <4>2, PassedKept DEF ReadInv, Passed, Transferring
      <4> QED
        BY <3>2, <4>3 DEF ReadInv, ReadsTheFile, Finished
    <3> QED
      BY <3>1, <3>3, <3>4 DEF InControl
  <2> QED
    BY <2>1, <2>2, <2>3, <2>4 DEF Next
<1> QED
  <2>1. ReadInv => ReadsTheFile
    BY DEF ReadInv
  <2> QED
    BY <1>1, <1>2, <2>1, Invariance, PTL DEF Spec
-----------------------------------------------------------------------------
(***************************************************************************)
(* Seen from the program, files are strings of bytes: every step is one of *)
(* ByteFiles, or changes neither the bytes nor the positions.              *)
(***************************************************************************)
FileMap == [k \in Key |-> Contents(k)]
AtMap   == [fd \in Fd |-> Position(fd)]

(* A position and the sector it lies in.                                   *)
LEMMA PositionInFile ==
  ASSUME NEW a \in Nat, a \div SECSIZE < MaxRec
  PROVE  a \in Pos
<1>1. SECSIZE \in Nat \ {0} /\ MaxRec \in Nat \ {0}
  BY UnixFileAssumption
<1>2. a \div SECSIZE \in Nat /\ a % SECSIZE \in 0..(SECSIZE - 1) /\ a = (SECSIZE * (a \div SECSIZE)) + (a % SECSIZE)
  BY <1>1, Division
<1>3. ASSUME NEW q \in Nat, q < MaxRec, NEW m \in 0..(SECSIZE - 1), a = (SECSIZE * q) + m
      PROVE  a <= MaxRec * SECSIZE - 1
  <2>1. SECSIZE * q <= SECSIZE * (MaxRec - 1)
    BY <1>1, <1>3
  <2>2. SECSIZE * (MaxRec - 1) = MaxRec * SECSIZE - SECSIZE
    BY <1>1
  <2> QED
    BY <1>1, <1>3, <2>1, <2>2
<1>4. a <= MaxRec * SECSIZE - 1
  BY <1>2, <1>3
<1> QED
  BY <1>4 DEF Pos

LEMMA SectorOfPosition ==
  ASSUME NEW i \in Pos
  PROVE  i \in Nat /\ i \div SECSIZE \in Rec /\ i % SECSIZE \in 0..(SECSIZE - 1)
<1>1. SECSIZE \in Nat \ {0} /\ MaxRec \in Nat \ {0} /\ MaxRec * SECSIZE \in Nat
  BY UnixFileAssumption
<1>2. i \in Nat /\ i <= MaxRec * SECSIZE - 1
  BY <1>1 DEF Pos
<1>3. i \div SECSIZE \in Nat /\ i % SECSIZE \in 0..(SECSIZE - 1) /\ i = (SECSIZE * (i \div SECSIZE)) + (i % SECSIZE)
  BY <1>1, <1>2, Division
<1>4. ASSUME NEW q \in Nat, NEW m \in 0..(SECSIZE - 1), i = (SECSIZE * q) + m
      PROVE  q < MaxRec
  <2>1. SUFFICES ASSUME q >= MaxRec PROVE FALSE
    BY <1>1
  <2>2. SECSIZE * q >= SECSIZE * MaxRec
    BY <1>1, <2>1
  <2> QED
    BY <1>1, <1>2, <1>4, <2>2
<1>5. i \div SECSIZE < MaxRec
  BY <1>3, <1>4
<1> QED
  BY <1>1, <1>2, <1>3, <1>5 DEF Rec

(* A file that exists does not look like one that does not.                *)
LEMMA FilesShow ==
  ASSUME NEW k \in Key
  PROVE  /\ k # <<>>
         /\ Contents(k) = NoFile <=> disk[k] = NoFile
<1>1. k # <<>>
  <2>1. PICK u \in Users, f \in Files : k = <<u, f>>
    BY DEF Key
  <2>2. Len(k) = 2 /\ Len(<<>>) = 0
    BY <2>1
  <2> QED
    BY <2>2
<1>2. 0 \in Pos
  <2>1. MaxRec * SECSIZE - 1 >= 0
    BY UnixFileAssumption
  <2> QED
    BY <2>1, UnixFileAssumption DEF Pos
<1>3. [i \in Pos |-> ByteAt(k, i)] # NoFile
  <2>1. 0 \in DOMAIN [i \in Pos |-> ByteAt(k, i)]
    BY <1>2
  <2> QED
    BY <2>1 DEF NoFile
<1> QED
  BY <1>1, <1>3 DEF Contents

LEMMA ContentsKept ==
  ASSUME NEW k \in Key, disk'[k] = disk[k]
  PROVE  Contents(k)' = Contents(k)
  BY DEF Contents, ByteAt

LEMMA FilesKept ==
  ASSUME UNCHANGED disk
  PROVE  UNCHANGED FileMap
<1>1. \A k \in Key : Contents(k)' = Contents(k)
  BY ContentsKept
<1> QED
  BY <1>1 DEF FileMap

(* The position of a descriptor, and those of all descriptors.             *)
LEMMA PositionIs ==
  ASSUME IInv, NEW fd \in Fd
  PROVE  /\ AtMap[fd] = IF OnFile(fd) THEN [name |-> fcb[fd].name, pos |-> fcb[fd].rwp]
                                      ELSE [name |-> <<>>, pos |-> 0]
         /\ AtMap[fd].name = <<>> <=> ~OnFile(fd)
         /\ OnFile(fd) => AtMap[fd].name = fcb[fd].name /\ AtMap[fd].pos = fcb[fd].rwp
         /\ OnFile(fd) => fcb[fd].name \in Key /\ FileMap[fcb[fd].name] # NoFile
<1>1. AtMap[fd] = IF OnFile(fd) THEN [name |-> fcb[fd].name, pos |-> fcb[fd].rwp]
                                ELSE [name |-> <<>>, pos |-> 0]
  BY DEF AtMap, Position
<1>2. OnFile(fd) => fcb[fd].name \in Key /\ disk[fcb[fd].name] # NoFile
  BY DEF IInv, Opened
<1>3. OnFile(fd) => fcb[fd].name # <<>> /\ Contents(fcb[fd].name) # NoFile
  BY <1>2, FilesShow
<1> QED
  BY <1>1, <1>2, <1>3 DEF FileMap

LEMMA OthersStay ==
  ASSUME NEW fd \in Fd, \A x \in Fd \ {fd} : fcb'[x] = fcb[x]
  PROVE  AtMap' = [AtMap EXCEPT ![fd] = AtMap'[fd]]
<1>1. \A x \in Fd \ {fd} : AtMap'[x] = AtMap[x]
  BY DEF AtMap, Position, OnFile
<1> QED
  BY <1>1 DEF AtMap

(* One descriptor is opened, moved or closed.                              *)
LEMMA PointImplements ==
  ASSUME IInv, IInv', UNCHANGED disk, NEW fd \in Fd, \A x \in Fd \ {fd} : fcb'[x] = fcb[x],
         OnFile(fd) /\ OnFile(fd)' => fcb'[fd].name = fcb[fd].name
  PROVE  B!Point
<1>1. AtMap' = [AtMap EXCEPT ![fd] = AtMap'[fd]] /\ UNCHANGED FileMap
  BY OthersStay, FilesKept
<1>2. /\ AtMap[fd].name = <<>> <=> ~OnFile(fd)
      /\ OnFile(fd) => AtMap[fd].name = fcb[fd].name
  BY PositionIs
<1>3. AtMap'[fd] = IF OnFile(fd)' THEN [name |-> fcb'[fd].name, pos |-> fcb'[fd].rwp]
                                  ELSE [name |-> <<>>, pos |-> 0]
  BY DEF AtMap, Position
<1>4. OnFile(fd)' => /\ AtMap'[fd].name = fcb'[fd].name
                     /\ fcb'[fd].name \in Key /\ FileMap[fcb'[fd].name] # NoFile
  <2>1. OnFile(fd)' => fcb'[fd].name \in Key /\ disk'[fcb'[fd].name] # NoFile
    BY DEF IInv, Opened
  <2>2. OnFile(fd)' => Contents(fcb'[fd].name) # NoFile
    BY <2>1, FilesShow
  <2> QED
    BY <1>3, <2>1, <2>2 DEF FileMap
<1>5. /\ AtMap'[fd] = [name |-> <<>>, pos |-> 0] \/ FileMap[AtMap'[fd].name] # <<>>
      /\ AtMap[fd].name \in {<<>>, AtMap'[fd].name} \/ AtMap'[fd] = [name |-> <<>>, pos |-> 0]
  BY <1>2, <1>3, <1>4 DEF NoFile
<1> HIDE DEF FileMap, AtMap
<1>6. \E x \in Fd : /\ AtMap' = [AtMap EXCEPT ![x] = AtMap'[x]]
                    /\ AtMap'[x] = [name |-> <<>>, pos |-> 0] \/ FileMap[AtMap'[x].name] # <<>>
                    /\ AtMap[x].name \in {<<>>, AtMap'[x].name} \/ AtMap'[x] = [name |-> <<>>, pos |-> 0]
  BY <1>1, <1>5
<1> QED
  BY <1>1, <1>6 DEF B!Point, B!Shut, B!NoName, B!NoFile, FileMap, AtMap

(* No descriptor is on a file that is closed.                              *)
LEMMA ClosedIsIdle ==
  ASSUME IInv, NEW k \in Key, Closed(k)
  PROVE  \A fd \in Fd : AtMap[fd].name # k
<1>1. SUFFICES ASSUME NEW fd \in Fd PROVE AtMap[fd].name # k
  OBVIOUS
<1>2. CASE OnFile(fd)
  BY <1>2, PositionIs DEF Closed
<1>3. CASE ~OnFile(fd)
  BY <1>3, PositionIs, FilesShow
<1> QED
  BY <1>2, <1>3

LEMMA DeleteImplements ==
  ASSUME IInv, NEW k \in Key, Closed(k), disk' = [disk EXCEPT ![k] = NoFile], UNCHANGED fcb
  PROVE  B!Delete
<1>1. UNCHANGED AtMap
  BY DEF AtMap, Position, OnFile
<1>2. disk \in DiskType
  BY DEF IInv, Shapes
<1>3. Contents(k)' = NoFile /\ \A x \in Key \ {k} : Contents(x)' = Contents(x)
  BY <1>2, ContentsKept DEF Contents, DiskType
<1>4. FileMap' = [FileMap EXCEPT ![k] = <<>>]
  BY <1>3 DEF FileMap, NoFile
<1>5. \A fd \in Fd : AtMap[fd].name # k
  BY ClosedIsIdle
<1> QED
  BY <1>1, <1>4, <1>5 DEF B!Delete, B!Idle, B!NoFile, FileMap, AtMap

LEMMA CreateImplements ==
  ASSUME IInv, NEW k \in Key, Closed(k), NEW fd \in Fd, ~OnFile(fd),
         disk' = [disk EXCEPT ![k] = [r \in Rec |-> NoSector]],
         fcb' = [fcb EXCEPT ![fd] = [use |-> U_WRITE, name |-> k, rwp |-> 0]]
  PROVE  B!Create
<1>1. disk \in DiskType /\ fcb \in [Fd -> FcbType]
  BY DEF IInv, Shapes
<1>2. AtMap[fd] = [name |-> <<>>, pos |-> 0] /\ AtMap'[fd] = [name |-> k, pos |-> 0]
  BY <1>1 DEF AtMap, Position, OnFile
<1>3. AtMap' = [AtMap EXCEPT ![fd] = [name |-> k, pos |-> 0]]
  BY <1>1, <1>2, OthersStay
<1>4. Contents(k)' = [i \in Pos |-> -1]
  <2>1. disk'[k] = [r \in Rec |-> NoSector] /\ disk'[k] # NoFile
    <3>1. disk'[k] = [r \in Rec |-> NoSector] /\ 0 \in Rec
      BY <1>1, UnixFileAssumption DEF DiskType, Rec
    <3>2. 0 \in DOMAIN disk'[k]
      BY <3>1
    <3> QED
      BY <3>1, <3>2 DEF NoFile
  <2>2. ASSUME NEW i \in Pos PROVE ByteAt(k, i)' = -1
    <3>1. i \div SECSIZE \in Rec
      BY SectorOfPosition
    <3> QED
      BY <2>1, <3>1 DEF ByteAt
  <2> QED
    BY <2>1, <2>2 DEF Contents
<1>5. \A x \in Key \ {k} : Contents(x)' = Contents(x)
  BY <1>1, ContentsKept DEF DiskType
<1>6. FileMap' = [FileMap EXCEPT ![k] = [i \in Pos |-> -1]]
  BY <1>4, <1>5 DEF FileMap
<1>7. \A x \in Fd : AtMap[x].name # k
  BY ClosedIsIdle
<1> QED
  BY <1>2, <1>3, <1>6, <1>7 DEF B!Create, B!Idle, B!HOLE, B!Shut, B!NoName, FileMap, AtMap

LEMMA RenameImplements ==
  ASSUME IInv, RenameEntry
  PROVE  B!Rename \/ UNCHANGED <<FileMap, AtMap>>
<1>1. /\ <<uid, op.got[1]>> \in Key /\ <<uid, op.got[2]>> \in Key
      /\ <<uid, op.got[1]>> # <<uid, op.got[2]>> /\ Closed(<<uid, op.got[1]>>) /\ Closed(<<uid, op.got[2]>>)
  BY DEF IInv, Kinds, Renaming, Key, RenameEntry
<1>2. PICK old \in Key, new \in Key : old = <<uid, op.got[1]>> /\ new = <<uid, op.got[2]>>
  BY <1>1
<1>3. old # new /\ Closed(old) /\ Closed(new) /\ disk \in DiskType /\ UNCHANGED fcb
  BY <1>1, <1>2 DEF IInv, Shapes, RenameEntry
<1>4. UNCHANGED AtMap
  BY <1>3 DEF AtMap, Position, OnFile
<1>5. CASE UNCHANGED disk
  BY <1>4, <1>5, FilesKept
<1>6. CASE disk' = [disk EXCEPT ![old] = NoFile, ![new] = disk[old]]
  <2>1. disk'[old] = NoFile /\ disk'[new] = disk[old] /\ \A x \in Key \ {old, new} : disk'[x] = disk[x]
    BY <1>3, <1>6 DEF DiskType
  <2>2. /\ Contents(old)' = NoFile /\ Contents(new)' = Contents(old)
        /\ \A x \in Key \ {old, new} : Contents(x)' = Contents(x)
    BY <2>1, ContentsKept DEF Contents, ByteAt
  <2>3. FileMap' = [FileMap EXCEPT ![old] = <<>>, ![new] = FileMap[old]]
    BY <1>3, <2>2 DEF FileMap, NoFile
  <2>4. \A x \in Fd : AtMap[x].name # old /\ AtMap[x].name # new
    BY <1>3, ClosedIsIdle
  <2> QED
    BY <1>4, <2>3, <2>4 DEF B!Rename, B!Idle, B!NoFile, FileMap, AtMap
<1> QED
  BY <1>2, <1>5, <1>6 DEF RenameEntry

(* The bytes of a sector that is written: those of the transfer, and those *)
(* that were there, or padding where there were none.                      *)
Overlaid(s, offs, n, b) == [i \in 0..(SECSIZE - 1) |-> IF i \in offs..(offs + n - 1) THEN b ELSE s[i]]

LEMMA BytesWritten ==
  ASSUME IInv, NEW k \in Key, disk[k] # NoFile, NEW r \in Rec, NEW a \in Nat, a \div SECSIZE = r,
         NEW n \in Nat \ {0}, (a % SECSIZE) + n <= SECSIZE, NEW b \in Byte,
         disk'[k] = [disk[k] EXCEPT ![r] = Overlaid(OldSector(k, r), a % SECSIZE, n, b)],
         NEW i \in Pos
  PROVE  \/ i \in a..(a + n - 1) /\ ByteAt(k, i)' = b
         \/ i \notin a..(a + n - 1) /\ ByteAt(k, i)' = ByteAt(k, i)
         \/ i \notin a..(a + n - 1) /\ ByteAt(k, i) = -1 /\ ByteAt(k, i)' = CPMETX
<1> DEFINE new == Overlaid(OldSector(k, r), a % SECSIZE, n, b)
           q == i \div SECSIZE
           m == i % SECSIZE
           o == a % SECSIZE
<1>1. SECSIZE \in Nat \ {0} /\ i \in Nat /\ q \in Rec /\ m \in 0..(SECSIZE - 1) /\ o \in 0..(SECSIZE - 1)
  BY UnixFileAssumption, SectorOfPosition, Division
<1>2. i = (SECSIZE * q) + m /\ a = (SECSIZE * r) + o
  BY <1>1, Division
<1>3. /\ disk'[k] = [disk[k] EXCEPT ![r] = new] /\ disk[k] \in [Rec -> Sector \cup {NoSector}]
  BY DEF IInv, Shapes, DiskType
<1>4. disk'[k][r] = new /\ \A x \in Rec \ {r} : disk'[k][x] = disk[k][x]
  BY <1>3
<1>5. disk'[k] # NoFile /\ new # NoSector
  <2>1. 0 \in DOMAIN new /\ r \in DOMAIN disk'[k]
    BY <1>1, <1>3 DEF Overlaid
  <2> HIDE DEF new
  <2> QED
    BY <2>1 DEF NoFile, NoSector
<1>6. i \in a..(a + n - 1) => q = r /\ m = o + (i - a)
  <2>1. SUFFICES ASSUME i \in a..(a + n - 1) PROVE q = r /\ m = o + (i - a)
    OBVIOUS
  <2>2. PICK d \in Nat : d = i - a /\ (a % SECSIZE) + d < SECSIZE /\ a + d = i
    BY <1>1, <2>1
  <2>3. SECSIZE \in Nat \ {0}
    BY <1>1
  <2>4. (a + d) \div SECSIZE = a \div SECSIZE /\ (a + d) % SECSIZE = (a % SECSIZE) + d
    BY <2>2, <2>3, SameSector
  <2> QED
    BY <2>2, <2>4
<1>7. CASE q # r
  BY <1>1, <1>4, <1>5, <1>6, <1>7 DEF ByteAt
<1>8. CASE q = r /\ m \in o..(o + n - 1)
  <2>1. i \in a..(a + n - 1)
    <3>1. PICK p \in Nat : p = SECSIZE * r
      BY <1>1 DEF Rec
    <3> HIDE DEF q, m, o
    <3>2. i = p + m /\ a = p + o /\ m \in Nat /\ o \in Nat /\ o <= m /\ m <= o + n - 1
      BY <1>1, <1>2, <1>8, <3>1
    <3> QED
      BY <3>2
  <2>2. new[m] = b
    BY <1>1, <1>8 DEF Overlaid
  <2> QED
    BY <1>4, <1>5, <1>8, <2>1, <2>2 DEF ByteAt
<1>9. CASE q = r /\ m \notin o..(o + n - 1)
  <2>1. i \notin a..(a + n - 1)
    <3> HIDE DEF q, m, o
    <3> QED
      BY <1>1, <1>6, <1>9
  <2>2. ByteAt(k, i)' = OldSector(k, r)[m]
    <3>1. new[m] = OldSector(k, r)[m]
      BY <1>1, <1>9 DEF Overlaid
    <3> QED
      BY <1>4, <1>5, <1>9, <3>1 DEF ByteAt
  <2>3. r \in Nat /\ BdosRead(k, r) = disk[k][r]
    BY <1>3 DEF BdosRead, Sectors, Rec
  <2>4. CASE disk[k][r] = NoSector
    BY <1>1, <1>9, <2>1, <2>2, <2>3, <2>4 DEF ByteAt, OldSector, BlankSector
  <2>5. CASE disk[k][r] # NoSector
    BY <1>1, <1>9, <2>1, <2>2, <2>3, <2>5 DEF ByteAt, OldSector
  <2> QED
    BY <2>4, <2>5
<1> QED
  BY <1>7, <1>8, <1>9

LEMMA PutImplements ==
  ASSUME IInv, WriteSector
  PROVE  B!Put \/ UNCHANGED <<FileMap, AtMap>>
<1>1. PICK fd \in Fd, k \in Key, a \in Nat, n \in Nat \ {0}, b \in Byte, r \in Nat :
        /\ fd = op.fd /\ k = fcb[fd].name /\ a = fcb[fd].rwp /\ n = Size(fd) /\ b = op.data
        /\ r = CurRec(fd) /\ Here(k) = k /\ disk[k] # NoFile /\ Offs(fd) + n <= SECSIZE /\ OnFile(fd)
  <2>1. /\ pc = "sector" /\ op.fd \in Fd /\ op.data \in Byte /\ op.left \in Nat /\ OnFile(op.fd)
    BY DEF WriteSector, IInv, Shapes, OpType, Held, Transferring
  <2>2. Size(op.fd) \in Nat \ {0}
    BY <2>1, PartOfSector
  <2> QED
    BY <2>1, <2>2, PartOfSector
<1>2. disk \in DiskType /\ fcb \in [Fd -> FcbType] /\ SECSIZE \in Nat \ {0}
  BY UnixFileAssumption DEF IInv, Shapes
<1>3. CASE ~BdosCanWrite(k, r)
  <2>1. UNCHANGED <<disk, fcb>>
    BY <1>1, <1>3 DEF WriteSector, Refused
  <2> QED
    BY <2>1, FilesKept DEF AtMap, Position, OnFile
<1>4. CASE BdosCanWrite(k, r)
  <2>1. r \in Rec /\ r = a \div SECSIZE /\ Offs(fd) = a % SECSIZE
    BY <1>1, <1>4 DEF BdosCanWrite, Sectors, CurRec, Offs
  <2>2. disk' = [disk EXCEPT ![k] =
                   [disk[k] EXCEPT ![r] = Overlaid(OldSector(k, r), a % SECSIZE, n, b)]]
    <3>1. disk' = [disk EXCEPT ![k][r] = Overlaid(OldSector(k, r), Offs(fd), n, b)]
      BY <1>1, <1>4 DEF WriteSector, Overlaid
    <3> QED
      BY <1>2, <2>1, <3>1 DEF DiskType
  <2>3. fcb' = [fcb EXCEPT ![fd].rwp = a + n]
    BY <1>1, <1>4 DEF WriteSector, Moved
  <2>4. a + (n - 1) \in Pos
    <3>1. n - 1 \in Nat /\ (a % SECSIZE) + (n - 1) < SECSIZE
      BY <1>1, <1>2, <2>1
    <3>2. (a + (n - 1)) \div SECSIZE = r
      BY <1>2, <2>1, <3>1, SameSector
    <3>3. a + (n - 1) \in Nat /\ r < MaxRec
      BY <2>1, <3>1, UnixFileAssumption DEF Rec
    <3> QED
      BY <3>2, <3>3, PositionInFile
  <2>5. a..(a + n - 1) # {} /\ a..(a + n - 1) \subseteq Pos
    <3>1. a \in a..(a + n - 1)
      OBVIOUS
    <3>2. PICK last \in Int : last = MaxRec * SECSIZE - 1
      BY <1>2, UnixFileAssumption
    <3>3. a + (n - 1) <= last /\ Pos = 0..last
      BY <2>4, <3>2 DEF Pos
    <3>4. \A x \in a..(a + n - 1) : x \in 0..last
      BY <3>3
    <3> QED
      BY <3>1, <3>3, <3>4
  <2>6. /\ AtMap[fd].name = k /\ AtMap[fd].pos = a /\ k # <<>>
        /\ AtMap' = [AtMap EXCEPT ![fd].pos = a + n]
    <3>1. AtMap[fd].name = k /\ AtMap[fd].pos = a /\ k # <<>>
      BY <1>1, PositionIs, FilesShow
    <3>2. AtMap[fd] = [name |-> k, pos |-> a]
      BY <1>1, PositionIs
    <3>3. /\ fcb'[fd].name = k /\ fcb'[fd].use = fcb[fd].use /\ fcb'[fd].rwp = a + n
          /\ \A x \in Fd \ {fd} : fcb'[x] = fcb[x]
      BY <1>1, <1>2, <2>3 DEF FcbType
    <3>4. AtMap'[fd] = [name |-> k, pos |-> a + n]
      BY <1>1, <3>3 DEF AtMap, Position, OnFile
    <3>5. AtMap' = [AtMap EXCEPT ![fd] = [name |-> k, pos |-> a + n]]
      BY <3>3, <3>4, OthersStay
    <3> QED
      BY <3>1, <3>2, <3>5
  <2>7. \A x \in Key \ {k} : Contents(x)' = Contents(x)
    BY <1>2, <2>2, ContentsKept DEF DiskType
  <2>8. FileMap' = [FileMap EXCEPT ![k] = FileMap'[k]]
    BY <2>7 DEF FileMap
  <2>9. ASSUME NEW i \in Pos
        PROVE  \/ i \in a..(a + n - 1) /\ FileMap'[k][i] = b
               \/ i \notin a..(a + n - 1) /\ FileMap'[k][i] = FileMap[k][i]
               \/ i \notin a..(a + n - 1) /\ FileMap[k][i] = -1 /\ FileMap'[k][i] = CPMETX
    <3>1. disk'[k] # NoFile
      <4>1. disk[k] \in [Rec -> Sector \cup {NoSector}] /\ DOMAIN disk'[k] = DOMAIN disk[k]
        BY <1>1, <1>2, <2>2 DEF DiskType
      <4>2. r \in DOMAIN disk'[k]
        BY <2>1, <4>1
      <4> QED
        BY <4>2 DEF NoFile
    <3>2. FileMap[k][i] = ByteAt(k, i) /\ FileMap'[k][i] = ByteAt(k, i)'
      BY <1>1, <3>1 DEF FileMap, Contents
    <3>3. (a % SECSIZE) + n <= SECSIZE
      BY <1>1, <2>1
    <3>4. disk[k] # NoFile /\ r \in Rec /\ a \div SECSIZE = r
      BY <1>1, <2>1
    <3>6. disk'[k] = [disk[k] EXCEPT ![r] = Overlaid(OldSector(k, r), a % SECSIZE, n, b)]
      BY <1>2, <2>2 DEF DiskType
    <3>5. \/ i \in a..(a + n - 1) /\ ByteAt(k, i)' = b
          \/ i \notin a..(a + n - 1) /\ ByteAt(k, i)' = ByteAt(k, i)
          \/ i \notin a..(a + n - 1) /\ ByteAt(k, i) = -1 /\ ByteAt(k, i)' = CPMETX
      BY <3>3, <3>4, <3>6, BytesWritten
    <3> QED
      BY <3>2, <3>5
  <2>10. PICK last \in Pos : last = a + n - 1 /\ last + 1 = a + n
    BY <2>4
  <2>11. B!Put
    <3>1. B!Written(k, a..last, b)
      BY <2>8, <2>9, <2>10 DEF B!Written, B!HOLE, FileMap
    <3>2. AtMap[fd].pos <= last /\ AtMap[fd].pos..last \subseteq Pos
      BY <2>5, <2>6, <2>10
    <3>3. AtMap' = [AtMap EXCEPT ![fd].pos = last + 1]
      BY <2>6, <2>10
    <3>4. B!PutUpTo(fd, last, b)
      BY <2>6, <3>1, <3>2, <3>3 DEF B!PutUpTo, B!NoName, AtMap
    <3> QED
      BY <3>4 DEF B!Put
  <2> QED
    BY <2>11
<1> QED
  BY <1>3, <1>4

LEMMA ExitImplements ==
  ASSUME Exit
  PROVE  B!Exit
<1>1. UNCHANGED FileMap
  BY FilesKept DEF Exit
<1>2. AtMap' = [fd \in Fd |-> [name |-> <<>>, pos |-> 0]]
  <2>1. \A fd \in Fd : fcb'[fd].use = U_FREE
    BY DEF Exit, Free
  <2> QED
    BY <2>1 DEF AtMap, Position, OnFile, U_FREE, U_READ, U_WRITE, U_RDWR
<1> QED
  BY <1>1, <1>2 DEF B!Exit, B!Shut, B!NoName, FileMap, AtMap

(* The use of a descriptor changes, but not whether it is on a file.       *)
LEMMA StutterImplements ==
  ASSUME UNCHANGED disk,
         \A fd \in Fd : OnFile(fd)' = OnFile(fd) /\ fcb'[fd].name = fcb[fd].name /\ fcb'[fd].rwp = fcb[fd].rwp
  PROVE  UNCHANGED <<FileMap, AtMap>>
  BY FilesKept DEF AtMap, Position

LEMMA SectorReadImplements ==
  ASSUME IInv, IInv', ReadSector
  PROVE  B!Point \/ UNCHANGED <<FileMap, AtMap>>
<1>1. op.fd \in Fd /\ fcb \in [Fd -> FcbType] /\ UNCHANGED disk
  BY DEF ReadSector, IInv, Shapes, OpType
<1>2. fcb' = fcb \/ \E p \in Nat : fcb' = [fcb EXCEPT ![op.fd].rwp = p]
  <2>1. pc = "sector" /\ op.left \in Nat
    BY DEF ReadSector, IInv, Shapes, OpType
  <2>2. fcb[op.fd].rwp + Size(op.fd) \in Nat
    BY <2>1, PartOfSector
  <2> QED
    BY <2>2 DEF ReadSector, Refused, Moved
<1>3. CASE fcb' = fcb
  BY <1>1, <1>3, StutterImplements DEF OnFile
<1>4. ASSUME NEW p \in Nat, fcb' = [fcb EXCEPT ![op.fd].rwp = p] PROVE B!Point
  <2>1. \A x \in Fd \ {op.fd} : fcb'[x] = fcb[x]
    BY <1>1, <1>4
  <2>2. fcb'[op.fd].name = fcb[op.fd].name
    BY <1>1, <1>4 DEF FcbType
  <2> QED
    BY <1>1, <2>1, <2>2, PointImplements
<1> QED
  BY <1>2, <1>3, <1>4

LEMMA StepImplements ==
  ASSUME IInv, IInv', Step
  PROVE  B!Next \/ UNCHANGED <<FileMap, AtMap>>
<1>1. CASE PollQuiet \/ PollHandler \/ HandlerReturns \/ DeviceChar \/ EnterUser \/ SetUidBack \/ Return
  <2>1. UNCHANGED <<disk, fcb>>
    BY <1>1 DEF PollQuiet, PollHandler, HandlerReturns, DeviceChar, EnterUser, SetUidBack, Return
  <2> QED
    BY <2>1, StutterImplements DEF OnFile
<1>2. CASE PollExit
  BY <1>2, ExitImplements DEF PollExit, B!Next
<1>3. CASE ReadSector
  BY <1>3, SectorReadImplements DEF B!Next
<1>4. CASE WriteSector
  BY <1>4, PutImplements DEF B!Next
<1>5. CASE Leave
  <2>1. /\ UNCHANGED disk /\ fcb \in [Fd -> FcbType] /\ op \in OpType /\ op.fd \in Fd /\ Transferring
        /\ fcb' = IF op.utmp = U_FREE THEN fcb ELSE [fcb EXCEPT ![op.fd].use = op.utmp]
    BY <1>5 DEF Leave, IInv, Shapes, OpType, Transferring
  <2>2. op.utmp # U_FREE => fcb[op.fd].use = U_READ /\ op.utmp \in {U_WRITE, U_RDWR}
    BY <2>1 DEF IInv, Borrowed, OpType
  <2>3. ASSUME NEW fd \in Fd
        PROVE  OnFile(fd)' = OnFile(fd) /\ fcb'[fd].name = fcb[fd].name /\ fcb'[fd].rwp = fcb[fd].rwp
    <3>1. fcb'[fd].name = fcb[fd].name /\ fcb'[fd].rwp = fcb[fd].rwp
      BY <2>1 DEF FcbType
    <3>2. fcb'[fd].use = fcb[fd].use
            \/ (fcb[fd].use \in {U_READ, U_WRITE, U_RDWR} /\ fcb'[fd].use \in {U_READ, U_WRITE, U_RDWR})
      BY <2>1, <2>2 DEF FcbType
    <3> QED
      BY <3>1, <3>2 DEF OnFile
  <2> QED
    BY <2>1, <2>3, StutterImplements
<1>6. CASE RenameEntry
  BY <1>6, RenameImplements DEF B!Next
<1> QED
  BY <1>1, <1>2, <1>3, <1>4, <1>5, <1>6 DEF Step

LEMMA OpenImplements ==
  ASSUME IInv, IInv',
         \/ \E dev \in Devices : OpenDevice(dev)
         \/ \E n \in Name, mode \in Modes : OpenFile(n, mode)
         \/ \E fd \in Fd : Dup(fd)
  PROVE  B!Point
<1>1. FreeSlots # {} /\ UNCHANGED disk /\ \E f : fcb' = [fcb EXCEPT ![GetFcb] = f]
  BY DEF OpenDevice, OpenFile, Dup
<1>2. GetFcb \in Fd /\ ~OnFile(GetFcb)
  BY <1>1, FreeSlot DEF OnFile, U_FREE, U_READ, U_WRITE, U_RDWR
<1>3. \A x \in Fd \ {GetFcb} : fcb'[x] = fcb[x]
  BY <1>1 DEF IInv, Shapes
<1> QED
  BY <1>1, <1>2, <1>3, PointImplements

LEMMA MoveImplements ==
  ASSUME IInv, IInv', NEW fd \in Fd,
         Close(fd) \/ SSizeCall(fd) \/ \E pos \in Pos : LSeek(fd, pos)
  PROVE  B!Point
<1>1. fcb \in [Fd -> FcbType] /\ UNCHANGED disk
  BY DEF IInv, Shapes, Close, SSizeCall, LSeek, Transfer
<1>2. \A x \in Fd \ {fd} : fcb'[x] = fcb[x]
  BY <1>1 DEF Close, SSizeCall, LSeek
<1>3. OnFile(fd)' => fcb'[fd].name = fcb[fd].name
  <2>1. CASE Close(fd)
    BY <1>1, <2>1 DEF Close, Free, OnFile, U_FREE, U_READ, U_WRITE, U_RDWR
  <2>2. CASE SSizeCall(fd)
    <3>1. \E p : fcb' = [fcb EXCEPT ![fd].use = U_READ, ![fd].rwp = p]
      BY <2>2 DEF SSizeCall
    <3> QED
      BY <1>1, <3>1 DEF FcbType
  <2>3. CASE \E pos \in Pos : LSeek(fd, pos)
    BY <1>1, <2>3 DEF LSeek, FcbType
  <2> QED
    BY <2>1, <2>2, <2>3
<1> QED
  BY <1>1, <1>2, <1>3, PointImplements

LEMMA FileImplements ==
  ASSUME IInv, IInv', \E n \in Name : Creat(n) \/ Unlink(n)
                                        \/ \E n2 \in Name : Rename(n2, n)
  PROVE  B!Create \/ B!Delete
<1>1. PICK n \in Name : Creat(n) \/ Unlink(n) \/ \E n2 \in Name : Rename(n2, n)
  OBVIOUS
<1>2. PICK k \in Key : k = FcParse(n)
  <2>1. uid \in Users /\ n.file \in Files /\ n.user \in Users \cup {ANY}
    BY DEF IInv, Kinds, Name
  <2>2. FcParse(n) \in Key
    BY <2>1 DEF FcParse, Key
  <2> QED
    BY <2>2
<1>3. Closed(k)
  BY <1>1, <1>2 DEF Creat, Unlink, Rename
<1>4. CASE disk' = [disk EXCEPT ![k] = NoFile] /\ UNCHANGED fcb
  BY <1>3, <1>4, DeleteImplements
<1>5. CASE /\ FreeSlots # {}
           /\ disk' = [disk EXCEPT ![k] = [r \in Rec |-> NoSector]]
           /\ fcb' = [fcb EXCEPT ![GetFcb] = [use |-> U_WRITE, name |-> k, rwp |-> 0]]
  <2>1. PICK fd \in Fd : fd = GetFcb /\ ~OnFile(fd)
    BY <1>5, FreeSlot DEF OnFile, U_FREE, U_READ, U_WRITE, U_RDWR
  <2> QED
    BY <1>3, <1>5, <2>1, CreateImplements
<1> QED
  BY <1>1, <1>2, <1>4, <1>5 DEF Creat, Unlink, Rename

LEMMA ClientImplements ==
  ASSUME IInv, IInv', Client
  PROVE  B!Next \/ UNCHANGED <<FileMap, AtMap>>
<1>1. CASE \/ \E dev \in Devices : OpenDevice(dev)
           \/ \E n \in Name, mode \in Modes : OpenFile(n, mode)
           \/ \E fd \in Fd : Dup(fd)
  BY <1>1, OpenImplements DEF B!Next
<1>2. CASE \E fd \in Fd : Close(fd) \/ SSizeCall(fd) \/ \E pos \in Pos : LSeek(fd, pos)
  BY <1>2, MoveImplements DEF B!Next
<1>3. CASE \E n \in Name : Creat(n) \/ Unlink(n) \/ \E n2 \in Name : Rename(n2, n)
  BY <1>3, FileImplements DEF B!Next
<1>4. CASE \/ \E fd \in Fd, n \in Lens : ReadCall(fd, n) \/ \E b \in Byte : WriteCall(fd, n, b)
           \/ \E u \in Users : SetUid(u)
           \/ \E action \in Actions : Signal(action)
  <2>1. UNCHANGED <<disk, fcb>>
    BY <1>4 DEF ReadCall, WriteCall, Transfer, SetUid, Signal
  <2> QED
    BY <2>1, StutterImplements DEF OnFile
<1>5. CASE ProgramExits
  BY <1>5, ExitImplements DEF ProgramExits, B!Next
<1> QED
  BY <1>1, <1>2, <1>3, <1>4, <1>5 DEF Client

(* For any program, with any handler and however its calls are cut into    *)
(* sectors: seen from outside files are strings of bytes, and a transfer   *)
(* changes only the bytes it names.                                        *)
THEOREM Implementation == Spec => ImplementsByteFiles
<1>1. Init => B!Init
  <2>1. SUFFICES ASSUME Init PROVE B!Init
    OBVIOUS
  <2>2. \A fd \in Fd : ~OnFile(fd)
    BY <2>1 DEF Init, Free, OnFile, U_FREE, U_READ, U_WRITE, U_RDWR, U_CON
  <2>3. \A k \in Key : disk[k] = NoFile
    BY <2>1 DEF Init
  <2> QED
    BY <2>2, <2>3 DEF B!Init, B!Shut, B!NoName, B!NoFile, NoFile, Contents, Position
<1>2. IInv /\ IInv' /\ [Next]_vars => [B!Next]_<<FileMap, AtMap>>
  <2>1. SUFFICES ASSUME IInv, IInv', [Next]_vars
                 PROVE  B!Next \/ UNCHANGED <<FileMap, AtMap>>
    OBVIOUS
  <2>2. CASE UNCHANGED vars
    BY <2>2, StutterImplements DEF vars, OnFile
  <2> QED
    BY <2>1, <2>2, StepImplements, ClientImplements DEF Next
<1> QED
  BY <1>1, <1>2, Invariance, PTL DEF Spec, ImplementsByteFiles, B!Spec, FileMap, AtMap
=============================================================================
