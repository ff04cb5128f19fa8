----------------------------- MODULE LinkProofs -----------------------------
(***************************************************************************)
(* Proofs, for every memory of QEMU, largest piece of a write, set of      *)
(* calls and number of damaged packets, that a call of difftest.h takes    *)
(* effect once, whatever is sent again on the link.                        *)
(***************************************************************************)
EXTENDS GdbLink, SequenceTheorems, TLAPS

----------------------------------------------------------------------------
(* The GDB link: what is under way says whose turn it is. *)

RegsOf(q) == [dut |-> q.dut, other |-> q.other]

\* The command the client is at, as it is sent, and the reply to it.
Cmd == Filled(Head(todo))
Rep == Reply(Cmd)

\* The command is on its way to the stub, whole or in part, with its checksum
\* good (b) or not.
OnTheWay(b) ==
  \/ toStub = <<Ack, Start, Payload(Cmd), End(b)>>
  \/ toStub = <<Start, Payload(Cmd), End(b)>>
  \/ toStub = <<Payload(Cmd), End(b)>> /\ stub.last = NoCommand
  \/ toStub = <<End(b)>> /\ stub.payload = Cmd /\ stub.last = NoCommand

\* The reply, which is q if its checksum is not good, is on its way back.
OnTheWayBack(q, b) ==
  \/ client.at = "ack"    /\ toClient = <<Ack, Start, Payload(q), End(b)>>
  \/ client.at = "seek"   /\ toClient = <<Start, Payload(q), End(b)>>
  \/ client.at = "packet" /\ toClient = <<Payload(q), End(b)>>
  \/ client.at = "packet" /\ toClient = <<End(b)>> /\ client.payload = q

\* Whose turn it is.
Resting   == client.at = "idle" /\ toClient = <<>> /\ toStub \in {<<>>, <<Ack>>}
Sending   == /\ client.at = "ack" /\ toClient = <<>> /\ todo # <<>>
             /\ \E b \in BOOLEAN : OnTheWay(b)
Refused   == client.at = "ack" /\ toClient = <<Nack>> /\ toStub = <<>> /\ todo # <<>>
Resending == client.at = "resend" /\ toClient = <<>> /\ toStub = <<>> /\ todo # <<>>
Replying  == /\ toStub = <<>> /\ stub.last = Rep /\ todo # <<>>
             /\ \E q \in {Rep, Garbled(Rep)}, b \in BOOLEAN : (b => q = Rep) /\ OnTheWayBack(q, b)
Asking    == /\ client.at = "seek" /\ toClient = <<>> /\ toStub = <<Nack>>
             /\ stub.last = Rep /\ todo # <<>>

\* The commands that QEMU has not executed yet.
Done == client.at \in {"seek", "packet"} \/ (toClient # <<>> /\ toClient # <<Nack>>)
Left == IF Done THEN Len(todo) - 1 ELSE Len(todo)

LinkInv == Resting \/ Sending \/ Refused \/ Resending \/ Replying \/ Asking

\* The pieces of a memcpy.
NrPieces(data) == IF Len(data) = 0 THEN 1 ELSE (Len(data) + MTU - 1) \div MTU
PieceAt(addr, data, k) ==
  [c |-> "M", addr |-> addr + (k - 1) * MTU,
   data |-> SubSeq(data, (k - 1) * MTU + 1, IF k = NrPieces(data) THEN Len(data) ELSE k * MTU)]

\* What is still to do for each call.
Commands == [c : {"vCont"}] \cup [c : {"M"}, addr : Int, data : Seq(Contents)]
              \cup [c : {"g"}] \cup [c : {"G"}, dut : Contents]
TodoInv ==
  /\ todo \in Seq(Commands)
  /\ call.name = "none" => todo = <<>>
  /\ call.name = "exec" => \A i \in DOMAIN todo : todo[i] = [c |-> "vCont"]
  /\ call.name = "memcpy" =>
       /\ Len(todo) <= NrPieces(call.data)
       /\ \A i \in DOMAIN todo :
            todo[i] = PieceAt(call.addr, call.data, NrPieces(call.data) - Len(todo) + i)
  /\ call.name = "to_ref" =>
       \/ todo = <<[c |-> "g"], [c |-> "G", dut |-> call.dut]>>
       \/ todo \in {<<[c |-> "G", dut |-> call.dut]>>, <<>>} /\ qemu_r.other = qemu.other
  /\ call.name = "to_dut" => \/ todo = <<[c |-> "g"]>>
                             \/ todo = <<>> /\ qemu_r = RegsOf(qemu)

\* How far QEMU is behind the calls when n commands are not executed.
Written(n) == call.addr + (NrPieces(call.data) - n) * MTU
Behind(n) ==
  /\ call.name \in {"none", "to_dut"} => qemu = model
  /\ call.name = "exec" =>
       model = [qemu EXCEPT !.steps = (@ + n) % StepsMod]
  /\ call.name = "memcpy" =>
       /\ model.dut = qemu.dut /\ model.other = qemu.other /\ model.steps = qemu.steps
       /\ \A a \in 0 .. (MemSize - 1) :
            IF a \in call.addr .. (call.addr + Len(call.data) - 1)
            THEN /\ model.mem[a] = call.data[a - call.addr + 1]
                 /\ a < Written(n) => qemu.mem[a] = model.mem[a]
            ELSE qemu.mem[a] = model.mem[a]
  /\ call.name = "to_ref" =>
       /\ model.other = qemu.other /\ model.steps = qemu.steps /\ model.mem = qemu.mem
       /\ model.dut = call.dut
       /\ n = 0 => qemu.dut = call.dut

Machines == [dut : Contents, other : Contents, steps : 0 .. (StepsMod - 1),
             mem : [0 .. (MemSize - 1) -> Contents]]
GdbTypeOK ==
  /\ call \in Calls \cup {NoCall}
  /\ qemu \in Machines /\ model \in Machines
  /\ qemu_r \in [dut : Contents, other : Contents]
  /\ client = [at |-> client.at, payload |-> client.payload]
  /\ stub = [at |-> stub.at, payload |-> stub.payload, last |-> stub.last]

GdbInv == GdbTypeOK /\ LinkInv /\ TodoInv /\ Behind(Left)

----------------------------------------------------------------------------
(* Bytes and short sequences. *)

\* What tells bytes and replies apart.
LEMMA BytesDiffer ==
  /\ Ack # Nack /\ Ack # Start /\ Nack # Start
  /\ Ack.byte = "+" /\ Nack.byte = "-" /\ Start.byte = "$"
  /\ \A p : Payload(p).byte = "payload" /\ Payload(p).is = p
  /\ \A b : End(b).byte = "#" /\ End(b).ok = b
  /\ \A p : Payload(p) # Ack /\ Payload(p) # Nack /\ Payload(p) # Start /\ Payload(p) # End(TRUE)
  /\ \A b : End(b) # Ack /\ End(b) # Nack /\ End(b) # Start
  /\ Ack # End(TRUE) /\ Nack # End(TRUE) /\ Start # End(TRUE) /\ End(FALSE) # End(TRUE)
BY DEF Ack, Nack, Start, Payload, End

LEMMA ShortSequences ==
  ASSUME NEW a, NEW b, NEW c, NEW d
  PROVE  /\ Tail(<<a>>) = <<>> /\ Tail(<<a, b>>) = <<b>>
         /\ Tail(<<a, b, c>>) = <<b, c>> /\ Tail(<<a, b, c, d>>) = <<b, c, d>>
         /\ Head(<<a>>) = a /\ Head(<<a, b>>) = a /\ Head(<<a, b, c>>) = a
         /\ Head(<<a, b, c, d>>) = a
         /\ Append(<<>>, a) = <<a>> /\ <<>> \o <<b, c, d>> = <<b, c, d>>
         /\ <<a>> # <<>> /\ <<a, b>> # <<>> /\ <<a, b, c>> # <<>> /\ <<a, b, c, d>> # <<>>
OBVIOUS

\* A packet after a byte.
LEMMA OneAndThree ==
  ASSUME NEW a, NEW b, NEW c, NEW d
  PROVE  <<a>> \o <<b, c, d>> = <<a, b, c, d>>
<1> DEFINE S == {a, b, c, d}
           s == <<a>>
           t == <<b, c, d>>
           u == <<a, b, c, d>>
           st == s \o t
<1>1. /\ s \in Seq(S) /\ t \in Seq(S) /\ u \in Seq(S)
      /\ Len(s) = 1 /\ Len(t) = 3 /\ Len(u) = 4
  OBVIOUS
<1>2. s[1] = u[1] /\ t[1] = u[2] /\ t[2] = u[3] /\ t[3] = u[4]
  OBVIOUS
<1> HIDE DEF S, s, t, u
<1>3. /\ st \in Seq(S) /\ Len(st) = Len(s) + Len(t)
      /\ \A i \in 1 .. Len(s) + Len(t) : st[i] = IF i <= Len(s) THEN s[i] ELSE t[i - Len(s)]
  BY <1>1, ConcatProperties
<1> HIDE DEF st
<1>4. \A i \in 1 .. 4 : st[i] = u[i]
  BY <1>1, <1>2, <1>3
<1>5. st = u
  BY <1>1, <1>3, <1>4
<1> QED
  BY <1>5 DEF s, t, u, st

LEMMA AckAndPacket ==
  ASSUME NEW p
  PROVE  <<Ack>> \o Packet(p) = <<Ack, Start, Payload(p), End(TRUE)>>
<1> DEFINE a == Ack
           b == Start
           c == Payload(p)
           d == End(TRUE)
<1>1. Packet(p) = <<b, c, d>>
  BY DEF Packet
<1> HIDE DEF a, b, c, d
<1>2. <<a>> \o <<b, c, d>> = <<a, b, c, d>>
  BY OneAndThree
<1> QED
  BY <1>1, <1>2 DEF a, b, c, d

\* Damage hits the checksum, and the payload before it.
LEMMA DamagedPacket ==
  ASSUME NEW a, NEW b, NEW p
  PROVE  /\ Damaged(<<End(TRUE)>>, 1) = <<End(FALSE)>>
         /\ Damaged(<<Payload(p), End(TRUE)>>, 2) = <<Payload(Garbled(p)), End(FALSE)>>
         /\ Damaged(<<b, Payload(p), End(TRUE)>>, 3) = <<b, Payload(Garbled(p)), End(FALSE)>>
         /\ Damaged(<<a, b, Payload(p), End(TRUE)>>, 4) = <<a, b, Payload(Garbled(p)), End(FALSE)>>
<1> DEFINE e == End(TRUE)
           f == End(FALSE)
           w == Payload(p)
           g == Payload(Garbled(p))
<1>1. w.byte = "payload" /\ w.is = p
  BY DEF Payload
<1>2. ASSUME NEW s, NEW i PROVE Damaged(s, i) = [j \in DOMAIN s |->
     IF j = i THEN f ELSE IF j = i - 1 /\ s[j].byte = "payload" THEN Payload(Garbled(s[j].is)) ELSE s[j]]
  BY DEF Damaged
<1> HIDE DEF e, f, w
<1>3. Damaged(<<e>>, 1) = <<f>>
  BY <1>2
<1>4. Damaged(<<w, e>>, 2) = <<g, f>>
  BY <1>1, <1>2
<1>5. Damaged(<<b, w, e>>, 3) = <<b, g, f>>
  BY <1>1, <1>2
<1>6. Damaged(<<a, b, w, e>>, 4) = <<a, b, g, f>>
  BY <1>1, <1>2
<1> QED
  BY <1>3, <1>4, <1>5, <1>6 DEF e, f, w, g

----------------------------------------------------------------------------
(* The command at hand. *)

LEMMA CallForms ==
  ASSUME GdbTypeOK
  PROVE  \/ call = NoCall /\ call.name = "none"
         \/ call.name = "exec" /\ call.n \in Nat
         \/ call.name = "memcpy" /\ call.addr \in Nat /\ call.data \in Seq(Contents)
         \/ call.name = "to_ref" /\ call.dut \in Contents
         \/ call.name = "to_dut"
BY GdbAssumption DEF GdbTypeOK, NoCall

LEMMA CommandForms ==
  ASSUME TodoInv, todo # <<>>
  PROVE  /\ todo \in Seq(Commands) /\ Len(todo) \in Nat \ {0}
         /\ Head(todo) = todo[1] /\ Tail(todo) \in Seq(Commands) /\ Len(Tail(todo)) = Len(todo) - 1
         /\ \A i \in DOMAIN Tail(todo) : i + 1 \in DOMAIN todo /\ Tail(todo)[i] = todo[i + 1]
         /\ Head(todo).c \in {"vCont", "M", "g", "G"}
BY DEF TodoInv, Commands

LEMMA CmdFacts ==
  ASSUME GdbTypeOK, TodoInv, todo # <<>>
  PROVE  /\ Cmd.c = Head(todo).c
         /\ Cmd.c # "G" => Cmd = Head(todo)
         /\ Garbled(Cmd) = Cmd /\ Cmd # NoCommand
         /\ Rep # NoCommand
         /\ Cmd.c = "g" => Rep.regs = RegsOf(qemu)
<1>1. Head(todo).c \in {"vCont", "M", "g", "G"}
  BY CommandForms
<1>2. Cmd.c = Head(todo).c
  BY <1>1 DEF Cmd, Filled
<1>3. Cmd.c # "G" => Cmd = Head(todo)
  BY <1>2 DEF Cmd, Filled
<1>4. Garbled(Cmd) = Cmd /\ Cmd # NoCommand
  BY <1>1, <1>2 DEF Garbled, NoCommand
<1>5. Rep # NoCommand /\ (Cmd.c = "g" => Rep.regs = RegsOf(qemu))
  BY DEF Rep, Reply, NoCommand, RegsOf
<1> QED
  BY <1>2, <1>3, <1>4, <1>5

\* The phases exclude each other where it matters.
LEMMA DoneOf ==
  /\ Resting \/ Sending \/ Refused \/ Resending => ~Done
  /\ Replying \/ Asking => Done
<1> USE BytesDiffer
<1>1. Resting \/ Sending \/ Refused \/ Resending => ~Done
  BY DEF Resting, Sending, Refused, Resending, Done
<1>2. ASSUME Replying PROVE Done
  <2>1. PICK q \in {Rep, Garbled(Rep)}, b \in BOOLEAN : OnTheWayBack(q, b)
    BY <1>2 DEF Replying
  <2>2. <<Ack, Start, Payload(q), End(b)>> # <<>> /\ <<Ack, Start, Payload(q), End(b)>> # <<Nack>>
    OBVIOUS
  <2> QED
    BY <2>1, <2>2 DEF OnTheWayBack, Done
<1>3. Asking => Done
  BY DEF Asking, Done
<1> QED
  BY <1>1, <1>2, <1>3

\* Steps that only move bytes.
LEMMA OnlyBytesMove ==
  ASSUME GdbInv, UNCHANGED <<call, todo, qemu_r, qemu, model>>, Left' = Left
  PROVE  /\ TodoInv' /\ Behind(Left)' /\ Cmd' = Cmd /\ Rep' = Rep
         /\ call' \in Calls \cup {NoCall} /\ qemu' \in Machines /\ model' \in Machines
         /\ qemu_r' \in [dut : Contents, other : Contents]
<1>1. TodoInv'
  BY DEF GdbInv, TodoInv
<1>2. Behind(Left)'
  BY DEF GdbInv, Behind, Written
<1>3. Cmd' = Cmd
  BY DEF Cmd, Filled
<1>4. Rep' = Rep
  BY <1>3 DEF Rep, Reply
<1> QED
  BY <1>1, <1>2, <1>3, <1>4 DEF GdbInv, GdbTypeOK

----------------------------------------------------------------------------
(* The steps of the client and of the link, phase by phase. *)

LEMMA Sends ==
  ASSUME GdbInv, send_packet
  PROVE  GdbInv'
<1> USE BytesDiffer
<1>1. /\ todo # <<>> /\ UNCHANGED <<call, todo, qemu_r, toClient, qemu, stub, damage, calls, model>>
      /\ client.at \in {"idle", "resend"} /\ toStub' = toStub \o Packet(Cmd)
      /\ client' = [client EXCEPT !.at = "ack"]
  BY DEF send_packet, Cmd
<1>2. client'.at = "ack" /\ client' = [at |-> client'.at, payload |-> client'.payload]
  BY <1>1 DEF GdbInv, GdbTypeOK
<1>3. ~Done /\ toClient = <<>> /\ toStub \in {<<>>, <<Ack>>}
  BY <1>1, DoneOf DEF GdbInv, LinkInv, Resting, Resending, Sending, Refused, Replying, Asking, OnTheWayBack
<1>4. ~Done' /\ Left' = Left
  BY <1>1, <1>2, <1>3 DEF Done, Left
<1>5. toStub' \in {<<Start, Payload(Cmd), End(TRUE)>>, <<Ack, Start, Payload(Cmd), End(TRUE)>>}
  <2>1. CASE toStub = <<>>
    BY <1>1, <2>1, ShortSequences DEF Packet
  <2>2. CASE toStub = <<Ack>>
    BY <1>1, <2>2, AckAndPacket
  <2> QED
    BY <1>3, <2>1, <2>2
<1>6. Sending'
  <2>1. Cmd' = Cmd
    BY <1>1, <1>4, OnlyBytesMove
  <2>2. OnTheWay(TRUE)'
    BY <1>5, <2>1 DEF OnTheWay
  <2> QED
    BY <1>1, <1>2, <1>3, <2>2 DEF Sending
<1> QED
  BY <1>1, <1>2, <1>4, <1>6, OnlyBytesMove DEF GdbInv, GdbTypeOK, LinkInv

LEMMA Awaits ==
  ASSUME GdbInv, await_ack
  PROVE  GdbInv'
<1> USE BytesDiffer
<1>1. /\ UNCHANGED <<call, todo, qemu_r, toStub, qemu, stub, damage, calls, model>>
      /\ client.at = "ack" /\ toClient # <<>> /\ toClient' = Tail(toClient)
      /\ client' = [client EXCEPT !.at = IF Head(toClient) = Ack THEN "seek" ELSE "resend"]
  BY DEF await_ack
<1>2. /\ client'.at = IF Head(toClient) = Ack THEN "seek" ELSE "resend"
      /\ client' = [at |-> client'.at, payload |-> client'.payload]
  BY <1>1 DEF GdbInv, GdbTypeOK
<1>3. Refused \/ Replying
  BY <1>1 DEF GdbInv, LinkInv, Resting, Resending, Sending, Asking
<1>4. CASE Refused
  <2>1. client'.at = "resend" /\ toClient' = <<>>
    BY <1>1, <1>2, <1>4, ShortSequences DEF Refused
  <2>2. Left' = Left
    BY <1>1, <1>4, <2>1, DoneOf DEF Left, Done
  <2>3. Resending'
    BY <1>1, <1>4, <2>1 DEF Refused, Resending
  <2> QED
    BY <1>1, <1>2, <2>2, <2>3, OnlyBytesMove DEF GdbInv, GdbTypeOK, LinkInv
<1>5. CASE Replying
  <2>1. PICK q \in {Rep, Garbled(Rep)}, b \in BOOLEAN : (b => q = Rep) /\ OnTheWayBack(q, b)
    BY <1>5 DEF Replying
  <2>2. toClient = <<Ack, Start, Payload(q), End(b)>>
    BY <1>1, <2>1 DEF OnTheWayBack
  <2>3. client'.at = "seek" /\ toClient' = <<Start, Payload(q), End(b)>>
    BY <1>1, <1>2, <2>2, ShortSequences
  <2>4. Left' = Left
    BY <1>1, <1>5, <2>3, DoneOf DEF Left, Done
  <2>5. Rep' = Rep
    BY <1>1, <2>4, OnlyBytesMove
  <2>6. Replying'
    BY <1>1, <1>5, <2>1, <2>3, <2>5 DEF Replying, OnTheWayBack
  <2> QED
    BY <1>1, <1>2, <2>4, <2>6, OnlyBytesMove DEF GdbInv, GdbTypeOK, LinkInv
<1> QED
  BY <1>3, <1>4, <1>5

LEMMA ReceivesByte ==
  ASSUME GdbInv, recv_byte
  PROVE  GdbInv'
<1> USE BytesDiffer
<1>1. /\ UNCHANGED <<call, todo, qemu_r, toStub, qemu, stub, damage, calls, model>>
      /\ client.at \in {"seek", "packet"} /\ toClient # <<>> /\ toClient' = Tail(toClient)
      /\ Head(toClient).byte # "#"
      /\ client' = CASE Head(toClient).byte = "$" -> [at |-> "packet", payload |-> NoCommand]
                     [] Head(toClient).byte = "payload" /\ client.at = "packet" ->
                          [client EXCEPT !.payload = Head(toClient).is]
                     [] OTHER -> client
  BY DEF recv_byte
<1>2. Replying
  BY <1>1 DEF GdbInv, LinkInv, Resting, Resending, Sending, Asking, Refused
<1>3. PICK q \in {Rep, Garbled(Rep)}, b \in BOOLEAN : (b => q = Rep) /\ OnTheWayBack(q, b)
  BY <1>2 DEF Replying
<1>4. CASE client.at = "seek" /\ toClient = <<Start, Payload(q), End(b)>>
  <2>1. client' = [at |-> "packet", payload |-> NoCommand] /\ toClient' = <<Payload(q), End(b)>>
    BY <1>1, <1>4, ShortSequences
  <2>2. client'.at = "packet" /\ client' = [at |-> client'.at, payload |-> client'.payload]
    BY <2>1
  <2>4. Left' = Left
    BY <1>1, <1>2, <2>2, DoneOf DEF Left, Done
  <2>5. Rep' = Rep
    BY <1>1, <2>4, OnlyBytesMove
  <2>6. Replying'
    BY <1>1, <1>2, <1>3, <2>1, <2>2, <2>5 DEF Replying, OnTheWayBack
  <2> QED
    BY <1>1, <2>2, <2>4, <2>6, OnlyBytesMove DEF GdbInv, GdbTypeOK, LinkInv
<1>5. CASE client.at = "packet" /\ toClient = <<Payload(q), End(b)>>
  <2>1. client' = [client EXCEPT !.payload = q] /\ toClient' = <<End(b)>>
    BY <1>1, <1>5, ShortSequences
  <2>2. /\ client'.at = "packet" /\ client'.payload = q
        /\ client' = [at |-> client'.at, payload |-> client'.payload]
    BY <1>5, <2>1 DEF GdbInv, GdbTypeOK
  <2>4. Left' = Left
    BY <1>1, <1>2, <2>2, DoneOf DEF Left, Done
  <2>5. Rep' = Rep
    BY <1>1, <2>4, OnlyBytesMove
  <2>6. Replying'
    BY <1>1, <1>2, <1>3, <2>1, <2>2, <2>5 DEF Replying, OnTheWayBack
  <2> QED
    BY <1>1, <2>2, <2>4, <2>6, OnlyBytesMove DEF GdbInv, GdbTypeOK, LinkInv
<1>6. ~(client.at = "packet" /\ toClient = <<End(b)>>)
  BY <1>1, ShortSequences
<1> QED
  BY <1>1, <1>3, <1>4, <1>5, <1>6 DEF OnTheWayBack

----------------------------------------------------------------------------
(* The pieces of a memcpy. *)

LEMMA Distributes ==
  ASSUME NEW k \in Int, NEW d \in Int
  PROVE  (k + d) * MTU = k * MTU + d * MTU /\ k * MTU \in Int /\ (d >= 0 => d * MTU >= 0)
BY GdbAssumption

\* Together the pieces hold all of the data, and no piece but the last holds
\* its end.
LEMMA PiecesCover ==
  ASSUME NEW data, Len(data) \in Nat
  PROVE  /\ NrPieces(data) \in Nat \ {0}
         /\ NrPieces(data) * MTU \in Int
         /\ Len(data) <= (NrPieces(data) - 0) * MTU
         /\ (NrPieces(data) - 1) * MTU <= Len(data)
         /\ \A k \in 1 .. (NrPieces(data) - 1) : k * MTU <= Len(data)
<1> DEFINE n == NrPieces(data)
           l == Len(data)
<1>1. MTU \in Nat \ {0} /\ l \in Nat
  BY GdbAssumption
<1>2. n \in Nat \ {0} /\ l <= n * MTU /\ (n - 1) * MTU <= l
  <2>1. CASE l = 0
    BY <1>1, <2>1 DEF NrPieces
  <2>2. CASE l # 0
    <3> DEFINE s == l + MTU - 1
    <3>1. n = s \div MTU
      BY <2>2 DEF NrPieces
    <3>2. s \in Nat /\ s = (MTU * (s \div MTU)) + (s % MTU) /\ s % MTU \in 0 .. (MTU - 1)
            /\ s \div MTU \in Int
      BY <1>1
    <3> HIDE DEF s
    <3>3. s = (n * MTU) + (s % MTU) /\ n \in Int
      BY <1>1, <3>1, <3>2
    <3>4. (n - 1) * MTU = n * MTU - MTU /\ n * MTU \in Int
      BY <1>1, <3>3
    <3>5. s = l + MTU - 1
      BY DEF s
    <3> HIDE DEF n, l
    <3>6. l <= n * MTU /\ (n - 1) * MTU <= l
      BY <1>1, <3>2, <3>3, <3>4, <3>5
    <3>7. n > 0
      <4>1. SUFFICES ASSUME n <= 0 PROVE FALSE
        BY <3>3
      <4>2. n * MTU <= 0
        BY <1>1, <3>3, <4>1
      <4> QED
        BY <1>1, <2>2, <3>6, <4>2, <3>4
    <3> QED
      BY <3>3, <3>6, <3>7
  <2> QED
    BY <2>1, <2>2
<1> HIDE DEF n, l
<1>3. ASSUME NEW k \in 1 .. (n - 1) PROVE k * MTU <= l
  <2>1. k \in Int /\ (n - 1 - k) \in Int /\ n - 1 - k >= 0 /\ k + (n - 1 - k) = n - 1
    BY <1>2
  <2>2. (n - 1) * MTU = k * MTU + (n - 1 - k) * MTU /\ (n - 1 - k) * MTU >= 0
          /\ k * MTU \in Int /\ (n - 1 - k) * MTU \in Int
    BY <2>1, Distributes
  <2> QED
    BY <1>1, <1>2, <2>2
<1>4. n * MTU \in Int /\ n - 0 = n
  BY <1>1, <1>2
<1> QED
  BY <1>2, <1>3, <1>4 DEF n, l

\* What the client takes for the reply is the reply: its answer is that of the
\* command at hand.
LEMMA Accepted ==
  ASSUME GdbInv, recv_end, client.at = "packet", Accepts(Head(toClient))
  PROVE  GdbInv'
<1> USE BytesDiffer
<1>1. /\ UNCHANGED <<call, qemu, stub, damage, calls, model>>
      /\ toClient # <<>> /\ toClient' = Tail(toClient) /\ Head(toClient).byte = "#"
      /\ toStub' = Append(toStub, Ack) /\ client' = [client EXCEPT !.at = "idle"]
      /\ todo' = Tail(todo)
      /\ qemu_r' = IF Head(todo).c = "g" THEN client.payload.regs ELSE qemu_r
  BY DEF recv_end
<1>2. Replying /\ Done
  BY <1>1, DoneOf DEF GdbInv, LinkInv, Resting, Resending, Sending, Asking, Refused
<1>3. todo # <<>> /\ toStub = <<>>
  BY <1>2 DEF Replying
<1>4. toClient = <<End(TRUE)>> /\ client.payload = Rep
  <2>1. PICK q \in {Rep, Garbled(Rep)}, b \in BOOLEAN : (b => q = Rep) /\ OnTheWayBack(q, b)
    BY <1>2 DEF Replying
  <2>2. toClient = <<End(b)>> /\ client.payload = q
    BY <1>1, <2>1, ShortSequences DEF OnTheWayBack
  <2>3. Head(toClient).ok = b
    BY <2>2, ShortSequences
  <2> QED
    BY <2>1, <2>2, <2>3 DEF Accepts
<1>5. toClient' = <<>> /\ toStub' = <<Ack>>
  BY <1>1, <1>3, <1>4, ShortSequences
<1>6. client'.at = "idle" /\ client' = [at |-> client'.at, payload |-> client'.payload]
  BY <1>1 DEF GdbInv, GdbTypeOK
<1>7. Resting'
  BY <1>5, <1>6 DEF Resting
<1>8. Left' = Left /\ Left = Len(Tail(todo))
  BY <1>1, <1>2, <1>3, <1>5, <1>6, CommandForms DEF GdbInv, Left, Done
<1>9. Behind(Left)'
  BY <1>1, <1>8 DEF GdbInv, Behind, Written
<1>10. Head(todo).c = "g" => qemu_r' = RegsOf(qemu)
  BY <1>1, <1>3, <1>4, CmdFacts DEF GdbInv
<1>11. Head(todo).c # "g" => qemu_r' = qemu_r
  BY <1>1
<1>12. qemu_r' \in [dut : Contents, other : Contents]
  BY <1>10, <1>11 DEF GdbInv, GdbTypeOK, RegsOf, Machines
<1>13. TodoInv'
  <2> DEFINE n == NrPieces(call.data)
             P(k) == PieceAt(call.addr, call.data, k)
  <2>1. /\ todo' \in Seq(Commands) /\ Len(todo') = Len(todo) - 1 /\ Len(todo) \in Nat \ {0}
        /\ \A i \in DOMAIN todo' : i + 1 \in DOMAIN todo /\ todo'[i] = todo[i + 1] /\ i \in Int
        /\ Head(todo) = todo[1] /\ call' = call
    BY <1>1, <1>3, CommandForms DEF GdbInv
  <2>2. call.name # "none"
    BY <1>3 DEF GdbInv, TodoInv
  <2>3. call.name = "exec" => \A i \in DOMAIN todo' : todo'[i] = [c |-> "vCont"]
    BY <2>1 DEF GdbInv, TodoInv
  <2>4. ASSUME call.name = "memcpy"
        PROVE  /\ Len(todo') <= n
               /\ \A i \in DOMAIN todo' : todo'[i] = P(n - Len(todo') + i)
    <3>1. Len(todo) <= n /\ \A i \in DOMAIN todo : todo[i] = P(n - Len(todo) + i)
      BY <2>4 DEF GdbInv, TodoInv
    <3>2. n \in Int
      BY <2>4, CallForms, GdbAssumption DEF NrPieces, GdbInv
    <3> HIDE DEF n, P
    <3>3. ASSUME NEW i \in DOMAIN todo' PROVE todo'[i] = P(n - Len(todo') + i)
      <4>1. todo'[i] = P(n - Len(todo) + (i + 1))
        BY <2>1, <3>1
      <4>2. n - Len(todo) + (i + 1) = n - Len(todo') + i
        BY <2>1, <3>2
      <4> QED
        BY <4>1, <4>2
    <3> QED
      BY <2>1, <3>1, <3>2, <3>3
  <2>5. ASSUME call.name = "to_ref"
        PROVE  todo' \in {<<[c |-> "G", dut |-> call.dut]>>, <<>>} /\ qemu_r'.other = qemu.other
    <3>1. CASE todo = <<[c |-> "g"], [c |-> "G", dut |-> call.dut]>>
      <4>1. todo' = <<[c |-> "G", dut |-> call.dut]>> /\ Head(todo).c = "g"
        BY <1>1, <3>1, ShortSequences
      <4> QED
        BY <1>10, <4>1 DEF RegsOf
    <3>2. CASE todo = <<[c |-> "G", dut |-> call.dut]>> /\ qemu_r.other = qemu.other
      <4>1. todo' = <<>> /\ Head(todo).c = "G"
        BY <1>1, <3>2, ShortSequences
      <4> QED
        BY <1>11, <3>2, <4>1
    <3> QED
      BY <1>3, <2>5, <3>1, <3>2 DEF GdbInv, TodoInv
  <2>6. ASSUME call.name = "to_dut" PROVE todo' = <<>> /\ qemu_r' = RegsOf(qemu)
    <3>1. todo = <<[c |-> "g"]>>
      BY <1>3, <2>6 DEF GdbInv, TodoInv
    <3>2. todo' = <<>> /\ Head(todo).c = "g"
      BY <1>1, <3>1, ShortSequences
    <3> QED
      BY <1>10, <3>2
  <2>7. RegsOf(qemu') = RegsOf(qemu) /\ qemu' = qemu
    BY <1>1
  <2> HIDE DEF P, n
  <2> QED
    BY <2>1, <2>2, <2>3, <2>4, <2>5, <2>6, <2>7 DEF TodoInv, P, n
<1> QED
  BY <1>1, <1>6, <1>7, <1>9, <1>12, <1>13 DEF GdbInv, GdbTypeOK, LinkInv

LEMMA NotAccepted ==
  ASSUME GdbInv, recv_end, client.at = "packet", ~Accepts(Head(toClient))
  PROVE  GdbInv'
<1> USE BytesDiffer
<1>1. /\ UNCHANGED <<call, todo, qemu_r, qemu, stub, damage, calls, model>>
      /\ toClient # <<>> /\ toClient' = Tail(toClient) /\ Head(toClient).byte = "#"
      /\ toStub' = Append(toStub, Nack) /\ client' = [client EXCEPT !.at = "seek"]
  BY DEF recv_end
<1>2. Replying /\ Done
  BY <1>1, DoneOf DEF GdbInv, LinkInv, Resting, Resending, Sending, Asking, Refused
<1>3. PICK q \in {Rep, Garbled(Rep)}, b \in BOOLEAN : (b => q = Rep) /\ OnTheWayBack(q, b)
  BY <1>2 DEF Replying
<1>4. toClient = <<End(b)>>
  BY <1>1, <1>3, ShortSequences DEF OnTheWayBack
<1>5. toClient' = <<>> /\ toStub' = <<Nack>>
  BY <1>1, <1>2, <1>4, ShortSequences DEF Replying
<1>6. client'.at = "seek" /\ client' = [at |-> client'.at, payload |-> client'.payload]
  BY <1>1 DEF GdbInv, GdbTypeOK
<1>7. Left' = Left
  BY <1>1, <1>2, <1>6 DEF Left, Done
<1>8. Rep' = Rep
  BY <1>1, <1>7, OnlyBytesMove
<1>9. Asking'
  BY <1>1, <1>2, <1>5, <1>6, <1>8 DEF Asking, Replying
<1> QED
  BY <1>1, <1>6, <1>7, <1>9, OnlyBytesMove DEF GdbInv, GdbTypeOK, LinkInv

LEMMA ReceivesEnd ==
  ASSUME GdbInv, recv_end
  PROVE  GdbInv'
<1>1. client.at # "seek"
  <2>1. SUFFICES ASSUME client.at = "seek" PROVE FALSE
    OBVIOUS
  <2>2. toClient # <<>> /\ Head(toClient).byte = "#"
    BY DEF recv_end
  <2>3. Replying
    BY <2>1, <2>2 DEF GdbInv, LinkInv, Resting, Resending, Sending, Asking, Refused
  <2>4. PICK q \in {Rep, Garbled(Rep)}, b \in BOOLEAN : OnTheWayBack(q, b)
    BY <2>3 DEF Replying
  <2>5. Head(toClient) = Start
    BY <2>1, <2>4, ShortSequences DEF OnTheWayBack
  <2> QED
    BY <2>2, <2>5, BytesDiffer
<1> QED
  BY <1>1, Accepted, NotAccepted DEF recv_end

LEMMA Returns ==
  ASSUME GdbInv, Return
  PROVE  GdbInv'
<1>1. /\ call # NoCall /\ todo = <<>> /\ client.at = "idle" /\ call' = NoCall
      /\ UNCHANGED <<todo, client, qemu_r, toStub, toClient, qemu, stub, damage, calls, model>>
  BY DEF Return
<1>2. Resting
  BY <1>1 DEF GdbInv, LinkInv, Resending, Sending, Asking, Refused, Replying
<1>3. Resting'
  BY <1>1, <1>2 DEF Resting
<1>4. Left = 0 /\ Left' = 0
  BY <1>1, <1>2, <1>3, DoneOf DEF Left, Done, Resting
<1>5. qemu = model
  <2>1. CASE call.name = "exec"
    <3>1. model = [qemu EXCEPT !.steps = (@ + 0) % StepsMod]
      BY <1>4, <2>1 DEF GdbInv, Behind
    <3>2. (qemu.steps + 0) % StepsMod = qemu.steps /\ qemu = [qemu EXCEPT !.steps = qemu.steps]
      BY DEF GdbInv, GdbTypeOK, Machines, StepsMod
    <3> QED
      BY <3>1, <3>2
  <2>2. CASE call.name = "memcpy"
    <3>1. /\ model.dut = qemu.dut /\ model.other = qemu.other /\ model.steps = qemu.steps
          /\ \A a \in 0 .. (MemSize - 1) :
               (a \in call.addr .. (call.addr + Len(call.data) - 1) => a < Written(0))
                 => qemu.mem[a] = model.mem[a]
      BY <1>4, <2>2 DEF GdbInv, Behind
    <3>2. call.addr \in Nat /\ Len(call.data) \in Nat
      BY <2>2, CallForms DEF GdbInv
    <3>3. call.addr + Len(call.data) <= Written(0)
      BY <3>2, PiecesCover DEF Written
    <3>4. Written(0) \in Int
      BY <3>2, PiecesCover DEF Written
    <3>5. \A a \in 0 .. (MemSize - 1) : qemu.mem[a] = model.mem[a]
      BY <3>1, <3>2, <3>3, <3>4
    <3>6. qemu.mem = model.mem
      <4>1. /\ qemu.mem \in [0 .. (MemSize - 1) -> Contents]
            /\ model.mem \in [0 .. (MemSize - 1) -> Contents]
        BY DEF GdbInv, GdbTypeOK, Machines
      <4> DEFINE f == qemu.mem
                 g == model.mem
                 D == 0 .. (MemSize - 1)
      <4>2. \A a \in D : f[a] = g[a]
        BY <3>5
      <4>3. f \in [D -> Contents] /\ g \in [D -> Contents]
        BY <4>1
      <4> HIDE DEF f, g, D
      <4>4. f = g
        BY <4>2, <4>3
      <4> QED
        BY <4>4 DEF f, g
    <3> QED
      BY <3>1, <3>6 DEF GdbInv, GdbTypeOK, Machines
  <2>3. CASE call.name = "to_ref"
    BY <1>4, <2>3 DEF GdbInv, GdbTypeOK, Behind, Machines
  <2>4. CASE call.name = "to_dut"
    BY <2>4 DEF GdbInv, Behind
  <2> QED
    BY <1>1, <2>1, <2>2, <2>3, <2>4, CallForms DEF GdbInv
<1>6. call'.name = "none"
  BY <1>1 DEF NoCall
<1>7. TodoInv'
  BY <1>1, <1>6 DEF GdbInv, TodoInv
<1>8. Behind(Left)'
  BY <1>1, <1>5, <1>6 DEF Behind
<1> QED
  BY <1>1, <1>3, <1>7, <1>8 DEF GdbInv, GdbTypeOK, LinkInv

----------------------------------------------------------------------------
(* QEMU executes a command: it is one command less behind. *)

LEMMA PieceForm ==
  ASSUME GdbInv, todo # <<>>, ~Done, call.name = "memcpy"
  PROVE  \E k \in 1 .. NrPieces(call.data) :
           /\ k = NrPieces(call.data) - Left + 1
           /\ Cmd.c = "M" /\ Cmd.addr = call.addr + (k - 1) * MTU
           /\ Len(Cmd.data) =
                (IF k = NrPieces(call.data) THEN Len(call.data) ELSE k * MTU) - (k - 1) * MTU
           /\ Len(Cmd.data) >= 0
           /\ \A j \in 1 .. Len(Cmd.data) : Cmd.data[j] = call.data[(k - 1) * MTU + j]
           /\ \A j \in 1 .. Len(Cmd.data) : (k - 1) * MTU + j \in 1 .. Len(call.data)
<1> DEFINE n == NrPieces(call.data)
           l == Len(call.data)
           k == n - Left + 1
           m == (k - 1) * MTU
           z == IF k = n THEN l ELSE k * MTU
<1>1. call.data \in Seq(Contents) /\ l \in Nat /\ n \in Nat \ {0} /\ (n - 1) * MTU <= l
        /\ \A i \in 1 .. (n - 1) : i * MTU <= l
  BY CallForms, PiecesCover DEF GdbInv
<1>2. Left = Len(todo) /\ Len(todo) \in Nat \ {0} /\ Len(todo) <= n /\ todo \in Seq(Commands)
  BY CommandForms DEF GdbInv, Left, TodoInv
<1>3. k \in 1 .. n
  BY <1>1, <1>2
<1>4. Head(todo) = PieceAt(call.addr, call.data, k)
  <2>1. Head(todo) = todo[1] /\ 1 \in DOMAIN todo
    BY <1>2, CommandForms DEF GdbInv
  <2>2. todo[1] = PieceAt(call.addr, call.data, n - Len(todo) + 1)
    BY <2>1 DEF GdbInv, TodoInv
  <2> QED
    BY <1>2, <2>1, <2>2
<1> HIDE DEF k
<1>5. Cmd = [c |-> "M", addr |-> call.addr + m, data |-> SubSeq(call.data, m + 1, z)]
  <2>1. Head(todo).c = "M"
    BY <1>4 DEF PieceAt
  <2>2. Cmd = Head(todo)
    BY <2>1 DEF Cmd, Filled
  <2> QED
    BY <1>4, <2>2 DEF PieceAt
<1>6. m \in Nat /\ m <= z /\ z \in Nat /\ z <= l
  <2>1. MTU \in Nat \ {0} /\ k \in Int /\ k - 1 \in Int /\ k - 1 >= 0
    BY <1>3, GdbAssumption
  <2>2. m \in Int /\ m >= 0 /\ k * MTU \in Int /\ k * MTU = m + MTU
    BY <2>1, Distributes
  <2> HIDE DEF m
  <2>3. CASE k = n
    <3>1. m <= l
      BY <1>1, <2>3 DEF m
    <3> QED
      BY <1>1, <2>2, <2>3, <3>1
  <2>4. CASE k # n
    BY <1>1, <1>3, <2>1, <2>2, <2>4
  <2> QED
    BY <2>3, <2>4
<1>7. Cmd.c = "M" /\ Cmd.addr = call.addr + m /\ Cmd.data = SubSeq(call.data, m + 1, z)
  BY <1>5
<1> HIDE DEF m, z
<1>8. /\ Len(Cmd.data) = z - m /\ z - m >= 0
      /\ \A j \in 1 .. (z - m) : Cmd.data[j] = call.data[m + j] /\ m + j \in 1 .. l
  <2> DEFINE s == call.data
             u == SubSeq(s, m + 1, z)
  <2>1. s \in Seq(Contents) /\ Len(s) = l
    BY <1>1
  <2> HIDE DEF s
  <2>2. Len(u) = z - m /\ \A j \in 1 .. (z - m) : u[j] = s[m + j]
    BY <1>1, <1>6, <2>1
  <2>3. \A j \in 1 .. (z - m) : m + j \in 1 .. l
    BY <1>1, <1>6
  <2> HIDE DEF u
  <2> QED
    BY <1>6, <1>7, <2>2, <2>3 DEF s, u
<1> QED
  BY <1>3, <1>7, <1>8 DEF m, z, k

LEMMA Executes ==
  ASSUME GdbInv, todo # <<>>, ~Done, qemu' = Executed(Cmd), Left' = Left - 1,
         UNCHANGED <<call, todo, qemu_r, model>>
  PROVE  TodoInv' /\ Behind(Left)' /\ qemu' \in Machines /\ Rep' = Rep
<1>1. /\ Left = Len(todo) /\ Len(todo) \in Nat \ {0} /\ Head(todo) = todo[1]
      /\ 1 \in DOMAIN todo /\ call.name # "none"
  BY CommandForms DEF GdbInv, Left, TodoInv
<1>2. /\ qemu = [dut |-> qemu.dut, other |-> qemu.other, steps |-> qemu.steps, mem |-> qemu.mem]
      /\ qemu.dut \in Contents /\ qemu.other \in Contents /\ qemu.steps \in 0 .. (StepsMod - 1)
      /\ qemu.mem \in [0 .. (MemSize - 1) -> Contents]
  BY DEF GdbInv, GdbTypeOK, Machines
<1>3. Cmd' = Cmd
  BY DEF Cmd, Filled
<1>4. CASE call.name = "exec"
  <2> DEFINE n == Left
  <2>1. Cmd = [c |-> "vCont"]
    <3>1. Head(todo) = [c |-> "vCont"]
      BY <1>1, <1>4 DEF GdbInv, TodoInv
    <3> QED
      BY <3>1 DEF Cmd, Filled
  <2>2. qemu' = [qemu EXCEPT !.steps = (@ + 1) % StepsMod]
    BY <2>1 DEF Executed
  <2>3. model = [qemu EXCEPT !.steps = (@ + n) % StepsMod]
    BY <1>4 DEF GdbInv, Behind
  <2>4. n \in Nat \ {0} /\ Left' = n - 1
    BY <1>1
  <2> HIDE DEF n
  <2>5. /\ (((qemu.steps + 1) % StepsMod) + (n - 1)) % StepsMod = (qemu.steps + n) % StepsMod
        /\ (qemu.steps + 1) % StepsMod \in 0 .. (StepsMod - 1)
    BY <1>2, <2>4 DEF StepsMod
  <2>6. qemu' = [dut |-> qemu.dut, other |-> qemu.other, steps |-> (qemu.steps + 1) % StepsMod,
                 mem |-> qemu.mem]
    BY <1>2, <2>2
  <2>7. model' = [qemu' EXCEPT !.steps = (@ + (n - 1)) % StepsMod]
    BY <1>2, <2>3, <2>5, <2>6
  <2>8. qemu' \in Machines
    BY <1>2, <2>5, <2>6 DEF Machines
  <2>9. TodoInv'
    BY <1>4 DEF GdbInv, TodoInv
  <2>10. Behind(Left)'
    BY <1>4, <2>4, <2>7 DEF Behind
  <2>11. Rep' = Rep
    BY <1>3, <2>1 DEF Rep, Reply
  <2> QED
    BY <2>8, <2>9, <2>10, <2>11
<1>5. CASE call.name = "memcpy"
  <2> DEFINE n == Left
             l == Len(call.data)
             first == call.addr
             past == call.addr + l
             A == 0 .. (MemSize - 1)
  <2>1. PICK k \in 1 .. NrPieces(call.data) :
           /\ k = NrPieces(call.data) - n + 1
           /\ Cmd.c = "M" /\ Cmd.addr = first + (k - 1) * MTU
           /\ Len(Cmd.data) = (IF k = NrPieces(call.data) THEN l ELSE k * MTU) - (k - 1) * MTU
           /\ Len(Cmd.data) >= 0
           /\ \A j \in 1 .. Len(Cmd.data) : Cmd.data[j] = call.data[(k - 1) * MTU + j]
           /\ \A j \in 1 .. Len(Cmd.data) : (k - 1) * MTU + j \in 1 .. l
    BY <1>5, PieceForm
  <2> DEFINE m == (k - 1) * MTU
             d == Len(Cmd.data)
  <2>2. /\ first \in Nat /\ l \in Nat /\ NrPieces(call.data) \in Nat \ {0}
        /\ MTU \in Nat \ {0} /\ m \in Int /\ k * MTU \in Int /\ k * MTU = m + MTU /\ m >= 0
    <3>1. first \in Nat /\ l \in Nat /\ NrPieces(call.data) \in Nat \ {0} /\ MTU \in Nat \ {0}
      BY <1>5, CallForms, PiecesCover, GdbAssumption DEF GdbInv
    <3>2. k \in Int /\ k - 1 \in Int /\ k - 1 >= 0
      BY <3>1
    <3> QED
      BY <3>1, <3>2, Distributes
  <2>3. qemu' = [qemu EXCEPT !.mem = [a \in A |->
                   IF a \in (first + m) .. (first + m + d - 1)
                   THEN Cmd.data[a - (first + m) + 1] ELSE @[a]]]
    BY <1>2, <2>1 DEF Executed
  <2>4. /\ \A a \in A :
             IF a \in first .. (past - 1)
             THEN /\ model.mem[a] = call.data[a - first + 1]
                  /\ a < Written(n) => qemu.mem[a] = model.mem[a]
             ELSE qemu.mem[a] = model.mem[a]
        /\ model.dut = qemu.dut /\ model.other = qemu.other /\ model.steps = qemu.steps
    <3>1. Behind(Left)
      BY DEF GdbInv
    <3>2. /\ model.dut = qemu.dut /\ model.other = qemu.other /\ model.steps = qemu.steps
          /\ \A a \in 0 .. (MemSize - 1) :
               IF a \in call.addr .. (call.addr + Len(call.data) - 1)
               THEN /\ model.mem[a] = call.data[a - call.addr + 1]
                    /\ a < Written(Left) => qemu.mem[a] = model.mem[a]
               ELSE qemu.mem[a] = model.mem[a]
      BY <1>5, <3>1 DEF Behind
    <3>3. A = 0 .. (MemSize - 1) /\ first .. (past - 1) = call.addr .. (call.addr + Len(call.data) - 1)
            /\ n = Left /\ first = call.addr
      BY <2>2
    <3> HIDE DEF A, first, past, n
    <3> QED
      BY <3>2, <3>3
  <2>5. Written(n) = first + m /\ Written(Left') = first + m + MTU
    <3> DEFINE p == NrPieces(call.data)
    <3>0. n \in Int /\ Left' = n - 1 /\ p \in Int /\ k = p - n + 1
      BY <1>1, <2>1, <2>2
    <3> HIDE DEF n, p
    <3>1. p - n = k - 1 /\ p - Left' = k
      BY <3>0
    <3> QED
      BY <2>2, <3>1 DEF Written, n, p
  <2>6. d \in Nat /\ (d = l - m \/ d = MTU)
    <3>1. d = (IF k = NrPieces(call.data) THEN l ELSE k * MTU) - m /\ d >= 0
      BY <2>1
    <3> HIDE DEF d, l, m
    <3>2. CASE k = NrPieces(call.data)
      BY <2>2, <3>1, <3>2
    <3>3. CASE k # NrPieces(call.data)
      BY <2>2, <3>1, <3>3
    <3> QED
      BY <3>2, <3>3
  <2>7. /\ \A j \in 1 .. d : Cmd.data[j] = call.data[m + j]
        /\ \A j \in 1 .. d : m + j \in 1 .. l
    BY <2>1
  <2>7a. past = first + l /\ first \in Int /\ m \in Int /\ l \in Int /\ past \in Int
    BY <2>2
  <2> HIDE DEF n, l, m, d, A, first, past
  <2>8. /\ qemu'.mem = [a \in A |-> IF a \in (first + m) .. (first + m + d - 1)
                                    THEN Cmd.data[a - (first + m) + 1] ELSE qemu.mem[a]]
        /\ qemu'.dut = qemu.dut /\ qemu'.other = qemu.other /\ qemu'.steps = qemu.steps
        /\ qemu' = [dut |-> qemu'.dut, other |-> qemu'.other, steps |-> qemu'.steps, mem |-> qemu'.mem]
    BY <1>2, <2>3
  <2>9. \A a \in A : a \in Int
    BY DEF A
  <2>10. ASSUME NEW a \in A, a \in first .. (past - 1), a < first + m + MTU
         PROVE  qemu'.mem[a] = model.mem[a]
    <3>1. CASE a < first + m
      BY <2>2, <2>4, <2>5, <2>8, <2>9, <2>10, <3>1
    <3>2. CASE a >= first + m
      <4> DEFINE j == a - (first + m) + 1
      <4>1. j \in 1 .. d /\ m + j = a - first + 1 /\ a \in (first + m) .. (first + m + d - 1)
        BY <2>6, <2>7a, <2>9, <2>10, <3>2, GdbAssumption
      <4>2. qemu'.mem[a] = Cmd.data[j]
        BY <2>8, <4>1
      <4>3. Cmd.data[j] = call.data[a - first + 1]
        BY <2>7, <4>1
      <4>4. model.mem[a] = call.data[a - first + 1]
        BY <2>4, <2>10
      <4> QED
        BY <4>2, <4>3, <4>4
    <3> QED
      BY <2>2, <2>9, <3>1, <3>2
  <2>11. ASSUME NEW a \in A, a \notin first .. (past - 1)
         PROVE  qemu'.mem[a] = model.mem[a]
    <3>1. a \notin (first + m) .. (first + m + d - 1)
      <4>1. SUFFICES ASSUME a \in (first + m) .. (first + m + d - 1) PROVE FALSE
        OBVIOUS
      <4> DEFINE j == a - (first + m) + 1
      <4>2. j \in 1 .. d /\ m + j = a - first + 1
        BY <2>6, <2>7a, <2>9, <4>1
      <4>3. a - first + 1 \in 1 .. l
        BY <2>7, <4>2
      <4> QED
        BY <2>7a, <2>9, <2>11, <4>3
    <3> QED
      BY <2>4, <2>8, <2>11, <3>1
  <2>12. ASSUME NEW a \in A PROVE qemu'.mem[a] \in Contents
    <3>1. CASE a \in (first + m) .. (first + m + d - 1)
      <4> DEFINE j == a - (first + m) + 1
      <4>1. j \in 1 .. d
        BY <2>2, <2>6, <2>9, <3>1
      <4>2. call.data[m + j] \in Contents
        <5>1. call.data \in Seq(Contents)
          BY <1>5, CallForms DEF GdbInv
        <5>2. m + j \in 1 .. Len(call.data)
          BY <2>7, <4>1 DEF l
        <5> QED
          BY <5>1, <5>2
      <4>3. qemu'.mem[a] = call.data[m + j]
        BY <2>7, <2>8, <3>1, <4>1
      <4> QED
        BY <4>2, <4>3
    <3>2. CASE a \notin (first + m) .. (first + m + d - 1)
      BY <1>2, <2>8, <3>2 DEF A
    <3> QED
      BY <3>1, <3>2
  <2>13. qemu'.mem \in [A -> Contents]
    BY <2>8, <2>12
  <2>14. qemu' \in Machines
    BY <1>2, <2>8, <2>13 DEF Machines, A
  <2>15. TodoInv'
    BY <1>5 DEF GdbInv, TodoInv
  <2>16. \A a \in A :
           IF a \in first .. (past - 1)
           THEN /\ model.mem[a] = call.data[a - first + 1]
                /\ a < Written(Left') => qemu'.mem[a] = model.mem[a]
           ELSE qemu'.mem[a] = model.mem[a]
    BY <2>4, <2>5, <2>10, <2>11
  <2>17. Behind(Left)'
    <3>1. call' = call /\ model' = model
      OBVIOUS
    <3>2. /\ model.dut = qemu'.dut /\ model.other = qemu'.other /\ model.steps = qemu'.steps
          /\ \A a \in 0 .. (MemSize - 1) :
               IF a \in call.addr .. (call.addr + Len(call.data) - 1)
               THEN /\ model.mem[a] = call.data[a - call.addr + 1]
                    /\ a < Written(Left') => qemu'.mem[a] = model.mem[a]
               ELSE qemu'.mem[a] = model.mem[a]
      <4>1. \A a \in 0 .. (MemSize - 1) :
               IF a \in call.addr .. (call.addr + Len(call.data) - 1)
               THEN /\ model.mem[a] = call.data[a - call.addr + 1]
                    /\ a < Written(Left') => qemu'.mem[a] = model.mem[a]
               ELSE qemu'.mem[a] = model.mem[a]
        <5>1. A = 0 .. (MemSize - 1) /\ first = call.addr
                /\ first .. (past - 1) = call.addr .. (call.addr + Len(call.data) - 1)
          BY <2>2, <2>7a DEF A, l, first, past
        <5> QED
          BY <2>16, <5>1
      <4> QED
        BY <2>4, <2>8, <4>1, Zenon
    <3>3. Written(Left') = Written(Left)'
      BY <3>1 DEF Written
    <3> HIDE DEF n
    <3> QED
      BY <1>5, <3>1, <3>2, <3>3 DEF Behind
  <2>18. Rep' = Rep
    BY <1>3, <2>1 DEF Rep, Reply
  <2> QED
    BY <2>14, <2>15, <2>17, <2>18
<1>6. CASE call.name = "to_ref"
  <2>1. model.other = qemu.other /\ model.steps = qemu.steps /\ model.mem = qemu.mem
          /\ model.dut = call.dut
    BY <1>6 DEF GdbInv, Behind
  <2>2. CASE todo = <<[c |-> "g"], [c |-> "G", dut |-> call.dut]>>
    <3>1. Cmd.c = "g" /\ Left' = 1
      <4>1. Head(todo) = [c |-> "g"] /\ Len(todo) = 2
        BY <2>2
      <4> QED
        BY <1>1, <4>1 DEF Cmd, Filled
    <3>2. qemu' = qemu
      BY <3>1 DEF Executed
    <3>3. Rep' = Rep
      BY <1>3, <3>2 DEF Rep, Reply
    <3>4. TodoInv'
      BY <1>6, <2>2 DEF GdbInv, TodoInv
    <3>5. Behind(Left)'
      BY <1>6, <2>1, <3>1, <3>2 DEF Behind
    <3> QED
      BY <3>2, <3>3, <3>4, <3>5 DEF GdbInv, GdbTypeOK
  <2>3. CASE todo = <<[c |-> "G", dut |-> call.dut]>> /\ qemu_r.other = qemu.other
    <3>1. Head(todo) = [c |-> "G", dut |-> call.dut] /\ Len(todo) = 1
      BY <2>3
    <3>2. Cmd = [c |-> "G", regs |-> [qemu_r EXCEPT !.dut = call.dut]]
      BY <3>1 DEF Cmd, Filled
    <3>3. qemu_r = [dut |-> qemu_r.dut, other |-> qemu_r.other]
      BY DEF GdbInv, GdbTypeOK
    <3>4. Cmd.c = "G" /\ Cmd.regs.dut = call.dut /\ Cmd.regs.other = qemu.other
      BY <2>3, <3>2, <3>3
    <3>5. qemu' = [qemu EXCEPT !.dut = Cmd.regs.dut, !.other = Cmd.regs.other]
      BY <3>4 DEF Executed
    <3>6. qemu' = [dut |-> call.dut, other |-> qemu.other, steps |-> qemu.steps, mem |-> qemu.mem]
      BY <1>2, <3>4, <3>5
    <3>7. /\ qemu'.dut = call.dut /\ qemu'.other = qemu.other
          /\ qemu'.steps = qemu.steps /\ qemu'.mem = qemu.mem
      BY <3>6
    <3>8. call.dut \in Contents
      BY <1>6, CallForms DEF GdbInv
    <3>9. qemu' \in Machines
      BY <1>2, <3>6, <3>8 DEF Machines
    <3>10. Rep' = Rep
      BY <1>3, <3>4 DEF Rep, Reply
    <3>11. TodoInv'
      BY <1>6, <2>3, <3>7 DEF GdbInv, TodoInv
    <3>12. Behind(Left)'
      BY <1>6, <2>1, <3>7 DEF Behind
    <3> QED
      BY <3>9, <3>10, <3>11, <3>12
  <2> QED
    BY <1>6, <2>2, <2>3 DEF GdbInv, TodoInv
<1>7. CASE call.name = "to_dut"
  <2>1. todo = <<[c |-> "g"]>>
    BY <1>7 DEF GdbInv, TodoInv
  <2>2. Cmd.c = "g"
    <3>1. Head(todo) = [c |-> "g"]
      BY <2>1
    <3> QED
      BY <3>1 DEF Cmd, Filled
  <2>3. qemu' = qemu
    BY <2>2 DEF Executed
  <2>4. Rep' = Rep
    BY <1>3, <2>3 DEF Rep, Reply
  <2>5. TodoInv'
    BY <1>7, <2>1 DEF GdbInv, TodoInv
  <2>6. Behind(Left)'
    BY <1>7, <2>3 DEF GdbInv, Behind
  <2> QED
    BY <2>3, <2>4, <2>5, <2>6 DEF GdbInv, GdbTypeOK
<1> QED
  BY <1>1, <1>4, <1>5, <1>6, <1>7, CallForms DEF GdbInv

----------------------------------------------------------------------------
(* The steps of the stub and of the link. *)

\* The stub reads a byte before the end of a packet, or a damaged end.
LEMMA StubOnlyReads ==
  ASSUME GdbInv, StubReads, Sending \/ Resting,
         ~(Head(toStub).byte = "#" /\ Head(toStub).ok)
  PROVE  GdbInv'
<1> USE BytesDiffer
<1>1. /\ UNCHANGED <<call, todo, client, qemu_r, damage, calls, model>>
      /\ toStub # <<>> /\ toStub' = Tail(toStub)
  BY DEF StubReads
<1>2. stub = [at |-> stub.at, payload |-> stub.payload, last |-> stub.last]
  BY DEF GdbInv, GdbTypeOK
<1>3. CASE Resting
  <2>1. toStub = <<Ack>> /\ toStub' = <<>> /\ Head(toStub) = Ack
    BY <1>1, <1>3, ShortSequences DEF Resting
  <2>2. qemu' = qemu /\ toClient' = toClient /\ stub' = [stub EXCEPT !.last = NoCommand]
    BY <2>1 DEF StubReads
  <2>3. stub' = [at |-> stub'.at, payload |-> stub'.payload, last |-> stub'.last]
    BY <1>2, <2>2
  <2>4. Resting' /\ Left' = Left
    BY <1>1, <1>3, <2>1, <2>2 DEF Resting, Left, Done
  <2> QED
    BY <1>1, <2>2, <2>3, <2>4, OnlyBytesMove DEF GdbInv, GdbTypeOK, LinkInv
<1>4. CASE Sending
  <2>1. PICK b \in BOOLEAN : OnTheWay(b)
    BY <1>4 DEF Sending
  <2>2. CASE toStub = <<Ack, Start, Payload(Cmd), End(b)>>
    <3>1. toStub' = <<Start, Payload(Cmd), End(b)>> /\ Head(toStub) = Ack
      BY <1>1, <2>2, ShortSequences
    <3>2. qemu' = qemu /\ toClient' = toClient /\ stub' = [stub EXCEPT !.last = NoCommand]
      BY <3>1 DEF StubReads
    <3>3. stub' = [at |-> stub'.at, payload |-> stub'.payload, last |-> stub'.last]
      BY <1>2, <3>2
    <3>4. Left' = Left
      BY <1>1, <3>2 DEF Left, Done
    <3>5. Cmd' = Cmd
      BY <1>1, <3>2, <3>4, OnlyBytesMove
    <3>6. OnTheWay(b)'
      BY <3>1, <3>5 DEF OnTheWay
    <3>7. Sending'
      BY <1>1, <1>4, <3>2, <3>6 DEF Sending
    <3> QED
      BY <1>1, <3>2, <3>3, <3>4, <3>7, OnlyBytesMove DEF GdbInv, GdbTypeOK, LinkInv
  <2>3. CASE toStub = <<Start, Payload(Cmd), End(b)>>
    <3>1. toStub' = <<Payload(Cmd), End(b)>> /\ Head(toStub) = Start
      BY <1>1, <2>3, ShortSequences
    <3>2. /\ qemu' = qemu /\ toClient' = toClient
          /\ stub' = [at |-> "packet", payload |-> NoCommand, last |-> NoCommand]
      BY <3>1 DEF StubReads
    <3>3. stub' = [at |-> stub'.at, payload |-> stub'.payload, last |-> stub'.last]
            /\ stub'.last = NoCommand
      BY <3>2
    <3>4. Left' = Left
      BY <1>1, <3>2 DEF Left, Done
    <3>5. Cmd' = Cmd
      BY <1>1, <3>2, <3>4, OnlyBytesMove
    <3>6. OnTheWay(b)'
      BY <3>1, <3>3, <3>5 DEF OnTheWay
    <3>7. Sending'
      BY <1>1, <1>4, <3>2, <3>6 DEF Sending
    <3> QED
      BY <1>1, <3>2, <3>3, <3>4, <3>7, OnlyBytesMove DEF GdbInv, GdbTypeOK, LinkInv
  <2>4. CASE toStub = <<Payload(Cmd), End(b)>> /\ stub.last = NoCommand
    <3>1. toStub' = <<End(b)>> /\ Head(toStub) = Payload(Cmd)
      BY <1>1, <2>4, ShortSequences
    <3>2. qemu' = qemu /\ toClient' = toClient /\ stub' = [stub EXCEPT !.payload = Cmd]
      BY <3>1 DEF StubReads
    <3>3. stub' = [at |-> stub'.at, payload |-> stub'.payload, last |-> stub'.last]
            /\ stub'.last = NoCommand /\ stub'.payload = Cmd
      BY <1>2, <2>4, <3>2
    <3>4. Left' = Left
      BY <1>1, <3>2 DEF Left, Done
    <3>5. Cmd' = Cmd
      BY <1>1, <3>2, <3>4, OnlyBytesMove
    <3>6. OnTheWay(b)'
      BY <3>1, <3>3, <3>5 DEF OnTheWay
    <3>7. Sending'
      BY <1>1, <1>4, <3>2, <3>6 DEF Sending
    <3> QED
      BY <1>1, <3>2, <3>3, <3>4, <3>7, OnlyBytesMove DEF GdbInv, GdbTypeOK, LinkInv
  <2>5. CASE toStub = <<End(b)>>
    <3>1. toStub' = <<>> /\ Head(toStub) = End(b)
      BY <1>1, <2>5, ShortSequences
    <3>2. qemu' = qemu /\ toClient' = Append(toClient, Nack) /\ stub' = [stub EXCEPT !.at = "ready"]
      BY <3>1 DEF StubReads
    <3>3. stub' = [at |-> stub'.at, payload |-> stub'.payload, last |-> stub'.last]
      BY <1>2, <3>2
    <3>4. toClient = <<>> /\ toClient' = <<Nack>>
      BY <1>4, <3>2, ShortSequences DEF Sending
    <3>5. Left' = Left
      BY <1>1, <3>4, ShortSequences DEF Left, Done
    <3>6. Refused'
      BY <1>1, <1>4, <3>1, <3>4 DEF Sending, Refused
    <3> QED
      BY <1>1, <3>2, <3>3, <3>5, <3>6, OnlyBytesMove DEF GdbInv, GdbTypeOK, LinkInv
  <2> QED
    BY <2>1, <2>2, <2>3, <2>4, <2>5 DEF OnTheWay
<1> QED
  BY <1>3, <1>4

\* The stub reads the end of a good packet: it executes the command.
LEMMA StubExecutes ==
  ASSUME GdbInv, StubReads, Sending, Head(toStub).byte = "#", Head(toStub).ok
  PROVE  GdbInv'
<1> USE BytesDiffer
<1>1. /\ UNCHANGED <<call, todo, client, qemu_r, damage, calls, model>>
      /\ toStub # <<>> /\ toStub' = Tail(toStub)
  BY DEF StubReads
<1>2. PICK b \in BOOLEAN : OnTheWay(b)
  BY DEF Sending
<1>3. toStub = <<End(b)>> /\ stub.payload = Cmd
  BY <1>2, ShortSequences DEF OnTheWay
<1>4. toStub' = <<>> /\ Head(toStub) = End(b)
  BY <1>1, <1>3, ShortSequences
<1>5. b = TRUE
  BY <1>4
<1>6. /\ qemu' = Executed(Cmd)
      /\ toClient' = Append(toClient, Ack) \o Packet(Rep)
      /\ stub' = [at |-> "ready", payload |-> NoCommand, last |-> Rep]
  BY <1>3, <1>4 DEF StubReads, Rep
<1>7. stub' = [at |-> stub'.at, payload |-> stub'.payload, last |-> stub'.last] /\ stub'.last = Rep
  BY <1>6
<1>8. toClient' = <<Ack, Start, Payload(Rep), End(TRUE)>> /\ client.at = "ack" /\ todo # <<>>
  <2>1. toClient = <<>> /\ client.at = "ack" /\ todo # <<>>
    BY DEF Sending
  <2>2. Append(toClient, Ack) = <<Ack>>
    BY <2>1, ShortSequences
  <2> QED
    BY <1>6, <2>1, <2>2, AckAndPacket
<1>9. ~Done /\ Done'
  <2>1. toClient' # <<>> /\ toClient' # <<Nack>>
    BY <1>8
  <2> QED
    BY <2>1, DoneOf DEF Done
<1>10. Left' = Left - 1
  BY <1>1, <1>9 DEF Left
<1>11. TodoInv' /\ Behind(Left)' /\ qemu' \in Machines /\ Rep' = Rep
  BY <1>1, <1>6, <1>8, <1>9, <1>10, Executes
<1>12. Replying'
  <2>1. OnTheWayBack(Rep, TRUE)'
    BY <1>1, <1>8, <1>11 DEF OnTheWayBack
  <2> QED
    BY <1>1, <1>4, <1>7, <1>8, <1>11, <2>1 DEF Replying
<1> QED
  BY <1>1, <1>7, <1>11, <1>12 DEF GdbInv, GdbTypeOK, LinkInv

\* The stub sends a refused reply again.
LEMMA StubRepeats ==
  ASSUME GdbInv, StubReads, Asking
  PROVE  GdbInv'
<1> USE BytesDiffer
<1>1. /\ UNCHANGED <<call, todo, client, qemu_r, damage, calls, model>>
      /\ toStub # <<>> /\ toStub' = Tail(toStub)
  BY DEF StubReads
<1>2. toStub' = <<>> /\ Head(toStub) = Nack /\ stub.last # NoCommand
  BY <1>1, ShortSequences, CmdFacts DEF Asking, GdbInv
<1>3. qemu' = qemu /\ stub' = stub /\ toClient' = toClient \o Packet(stub.last)
  BY <1>2 DEF StubReads
<1>4. toClient' = <<Start, Payload(Rep), End(TRUE)>>
  BY <1>3, ShortSequences DEF Asking, Packet
<1>5. Left' = Left
  BY <1>1 DEF Left, Done, Asking
<1>6. Rep' = Rep
  BY <1>1, <1>3, <1>5, OnlyBytesMove
<1>7. OnTheWayBack(Rep, TRUE)'
  BY <1>1, <1>4, <1>6 DEF OnTheWayBack, Asking
<1>8. Replying'
  BY <1>1, <1>2, <1>3, <1>6, <1>7 DEF Replying, Asking
<1> QED
  BY <1>1, <1>3, <1>5, <1>8, OnlyBytesMove DEF GdbInv, GdbTypeOK, LinkInv

LEMMA StubSteps ==
  ASSUME GdbInv, StubReads
  PROVE  GdbInv'
<1>1. toStub # <<>>
  BY DEF StubReads
<1>2. Resting \/ Sending \/ Asking
  BY <1>1 DEF GdbInv, LinkInv, Refused, Resending, Replying
<1>3. Resting => Head(toStub) = Ack
  BY <1>1, ShortSequences DEF Resting
<1> QED
  BY <1>2, <1>3, StubOnlyReads, StubExecutes, StubRepeats, BytesDiffer

\* Where damage can hit: a good checksum, which is the last byte under way.
Hits(s, good, damaged) ==
  \A i \in DOMAIN s : s[i] = End(TRUE) => good = TRUE /\ Damaged(s, i) = damaged

LEMMA NoHit ==
  ASSUME NEW s, NEW i \in DOMAIN s, s[i] = End(TRUE)
  PROVE  s # <<>> /\ s # <<Ack>> /\ s # <<Nack>>
<1> DEFINE a == Ack
           n == Nack
           e == End(TRUE)
<1>1. a # e /\ n # e
  BY BytesDiffer
<1> HIDE DEF a, n, e
<1>2. \A x : x # e => s # <<x>>
  <2>1. i \in DOMAIN s /\ s[i] = e
    BY DEF e
  <2>2. SUFFICES ASSUME NEW x, s = <<x>> PROVE x = e
    OBVIOUS
  <2> QED
    BY <2>1, <2>2
<1>3. s # <<>>
  OBVIOUS
<1> QED
  BY <1>1, <1>2, <1>3 DEF a, n

LEMMA DamageHitsEnd ==
  ASSUME NEW p, NEW g \in BOOLEAN
  PROVE  /\ Hits(<<End(g)>>, g, <<End(FALSE)>>)
         /\ Hits(<<Payload(p), End(g)>>, g, <<Payload(Garbled(p)), End(FALSE)>>)
<1> DEFINE e == End(TRUE)
           h == End(g)
           w == Payload(p)
<1>1. w # e /\ (h = e => g = TRUE)
  BY BytesDiffer
<1> HIDE DEF e, h, w
<1>2. \A i \in DOMAIN <<h>> : <<h>>[i] = e => i = 1 /\ h = e
  BY <1>1
<1>3. \A i \in DOMAIN <<w, h>> : <<w, h>>[i] = e => i = 2 /\ h = e
  BY <1>1
<1>4. /\ Damaged(<<e>>, 1) = <<End(FALSE)>>
      /\ Damaged(<<w, e>>, 2) = <<Payload(Garbled(p)), End(FALSE)>>
  BY DamagedPacket DEF e, w
<1>5. /\ Hits(<<h>>, g, <<End(FALSE)>>)
      /\ Hits(<<w, h>>, g, <<Payload(Garbled(p)), End(FALSE)>>)
  BY <1>1, <1>2, <1>3, <1>4, Zenon DEF Hits, e
<1> QED
  BY <1>5 DEF h, w

LEMMA DamageHitsPacket ==
  ASSUME NEW b, NEW p, NEW g \in BOOLEAN, b # End(TRUE)
  PROVE  Hits(<<b, Payload(p), End(g)>>, g, <<b, Payload(Garbled(p)), End(FALSE)>>)
<1> DEFINE e == End(TRUE)
           h == End(g)
           w == Payload(p)
<1>1. w # e /\ b # e /\ (h = e => g = TRUE)
  BY BytesDiffer
<1> HIDE DEF e, h, w
<1>2. \A i \in DOMAIN <<b, w, h>> : <<b, w, h>>[i] = e => i = 3 /\ h = e
  BY <1>1
<1>3. Damaged(<<b, w, e>>, 3) = <<b, Payload(Garbled(p)), End(FALSE)>>
  BY DamagedPacket DEF e, w
<1>4. Hits(<<b, w, h>>, g, <<b, Payload(Garbled(p)), End(FALSE)>>)
  BY <1>1, <1>2, <1>3, Zenon DEF Hits, e
<1> QED
  BY <1>4 DEF h, w

LEMMA DamageHitsReply ==
  ASSUME NEW a, NEW b, NEW p, NEW g \in BOOLEAN, a # End(TRUE), b # End(TRUE)
  PROVE  Hits(<<a, b, Payload(p), End(g)>>, g, <<a, b, Payload(Garbled(p)), End(FALSE)>>)
<1> DEFINE e == End(TRUE)
           h == End(g)
           w == Payload(p)
<1>1. w # e /\ a # e /\ b # e /\ (h = e => g = TRUE)
  BY BytesDiffer
<1> HIDE DEF e, h, w
<1>2. \A i \in DOMAIN <<a, b, w, h>> : <<a, b, w, h>>[i] = e => i = 4 /\ h = e
  BY <1>1
<1>3. Damaged(<<a, b, w, e>>, 4) = <<a, b, Payload(Garbled(p)), End(FALSE)>>
  BY DamagedPacket DEF e, w
<1>4. Hits(<<a, b, w, h>>, g, <<a, b, Payload(Garbled(p)), End(FALSE)>>)
  BY <1>1, <1>2, <1>3, Zenon DEF Hits, e
<1> QED
  BY <1>4 DEF h, w

LEMMA Damages ==
  ASSUME GdbInv, Damage
  PROVE  GdbInv'
<1> USE BytesDiffer
<1>1. UNCHANGED <<call, todo, client, qemu_r, qemu, stub, calls, model>>
  BY DEF Damage
<1>2. ASSUME NEW i \in DOMAIN toStub, toStub[i] = End(TRUE), toStub' = Damaged(toStub, i),
             toClient' = toClient
      PROVE  GdbInv'
  <2>1. Left' = Left
    BY <1>1, <1>2 DEF Left, Done
  <2>2. Sending
    <3>1. toStub # <<>> /\ toStub # <<Ack>> /\ toStub # <<Nack>>
      BY <1>2, NoHit
    <3> QED
      BY <3>1 DEF GdbInv, LinkInv, Resting, Refused, Resending, Replying, Asking
  <2>3. PICK b \in BOOLEAN : OnTheWay(b)
    BY <2>2 DEF Sending
  <2>4. Garbled(Cmd) = Cmd
    BY <2>2, CmdFacts DEF GdbInv, Sending
  <2>5. Cmd' = Cmd
    BY <1>1, <2>1, OnlyBytesMove
  <2>6. OnTheWay(FALSE)'
    <3>1. CASE toStub = <<Ack, Start, Payload(Cmd), End(b)>>
      <4>1. Hits(<<Ack, Start, Payload(Cmd), End(b)>>, b, <<Ack, Start, Payload(Garbled(Cmd)), End(FALSE)>>)
        BY DamageHitsReply, BytesDiffer
      <4>2. toStub' = <<Ack, Start, Payload(Cmd), End(FALSE)>>
        BY <1>2, <2>4, <3>1, <4>1 DEF Hits
      <4> QED
        BY <2>5, <4>2 DEF OnTheWay
    <3>2. CASE toStub = <<Start, Payload(Cmd), End(b)>>
      <4>1. Hits(<<Start, Payload(Cmd), End(b)>>, b, <<Start, Payload(Garbled(Cmd)), End(FALSE)>>)
        BY DamageHitsPacket, BytesDiffer
      <4>2. toStub' = <<Start, Payload(Cmd), End(FALSE)>>
        BY <1>2, <2>4, <3>2, <4>1 DEF Hits
      <4> QED
        BY <2>5, <4>2 DEF OnTheWay
    <3>3. CASE toStub = <<Payload(Cmd), End(b)>> /\ stub.last = NoCommand
      <4>1. Hits(<<Payload(Cmd), End(b)>>, b, <<Payload(Garbled(Cmd)), End(FALSE)>>)
        BY DamageHitsEnd
      <4>2. toStub' = <<Payload(Cmd), End(FALSE)>>
        BY <1>2, <2>4, <3>3, <4>1 DEF Hits
      <4> QED
        BY <1>1, <2>5, <3>3, <4>2 DEF OnTheWay
    <3>4. CASE toStub = <<End(b)>> /\ stub.payload = Cmd /\ stub.last = NoCommand
      <4>1. Hits(<<End(b)>>, b, <<End(FALSE)>>)
        BY DamageHitsEnd
      <4>2. toStub' = <<End(FALSE)>>
        BY <1>2, <2>4, <3>4, <4>1 DEF Hits
      <4> QED
        BY <1>1, <2>5, <3>4, <4>2 DEF OnTheWay
    <3> QED
      BY <2>3, <3>1, <3>2, <3>3, <3>4 DEF OnTheWay
  <2>7. Sending'
    BY <1>1, <1>2, <2>2, <2>6 DEF Sending
  <2> QED
    BY <1>1, <2>1, <2>7, OnlyBytesMove DEF GdbInv, GdbTypeOK, LinkInv
<1>3. ASSUME NEW i \in DOMAIN toClient, toClient[i] = End(TRUE), toClient' = Damaged(toClient, i),
             toStub' = toStub
      PROVE  GdbInv'
  <2>1. Replying
    <3>1. toClient # <<>> /\ toClient # <<Nack>>
      BY <1>3, NoHit
    <3> QED
      BY <3>1 DEF GdbInv, LinkInv, Resting, Refused, Resending, Sending, Asking
  <2>2. PICK q \in {Rep, Garbled(Rep)}, b \in BOOLEAN : (b => q = Rep) /\ OnTheWayBack(q, b)
    BY <2>1 DEF Replying
  <2>3. CASE client.at = "ack" /\ toClient = <<Ack, Start, Payload(q), End(b)>>
    <3>1. Hits(<<Ack, Start, Payload(q), End(b)>>, b, <<Ack, Start, Payload(Garbled(q)), End(FALSE)>>)
      BY DamageHitsReply, BytesDiffer
    <3>2. toClient' = <<Ack, Start, Payload(Garbled(Rep)), End(FALSE)>>
      BY <1>3, <2>2, <2>3, <3>1 DEF Hits
    <3>3. Left' = Left
      BY <1>1, <2>1, <3>2, DoneOf DEF Left, Done
    <3>4. Rep' = Rep /\ Garbled(Rep)' = Garbled(Rep)
      BY <1>1, <3>3, OnlyBytesMove DEF Garbled
    <3>5. OnTheWayBack(Garbled(Rep), FALSE)'
      BY <1>1, <2>3, <3>2, <3>4 DEF OnTheWayBack
    <3>6. Replying'
      BY <1>1, <1>3, <2>1, <3>4, <3>5 DEF Replying
    <3> QED
      BY <1>1, <3>3, <3>6, OnlyBytesMove DEF GdbInv, GdbTypeOK, LinkInv
  <2>4. CASE client.at = "seek" /\ toClient = <<Start, Payload(q), End(b)>>
    <3>1. Hits(<<Start, Payload(q), End(b)>>, b, <<Start, Payload(Garbled(q)), End(FALSE)>>)
      BY DamageHitsPacket, BytesDiffer
    <3>2. toClient' = <<Start, Payload(Garbled(Rep)), End(FALSE)>>
      BY <1>3, <2>2, <2>4, <3>1 DEF Hits
    <3>3. Left' = Left
      BY <1>1, <2>4 DEF Left, Done
    <3>4. Rep' = Rep /\ Garbled(Rep)' = Garbled(Rep)
      BY <1>1, <3>3, OnlyBytesMove DEF Garbled
    <3>5. OnTheWayBack(Garbled(Rep), FALSE)'
      BY <1>1, <2>4, <3>2, <3>4 DEF OnTheWayBack
    <3>6. Replying'
      BY <1>1, <1>3, <2>1, <3>4, <3>5 DEF Replying
    <3> QED
      BY <1>1, <3>3, <3>6, OnlyBytesMove DEF GdbInv, GdbTypeOK, LinkInv
  <2>5. CASE client.at = "packet" /\ toClient = <<Payload(q), End(b)>>
    <3>1. Hits(<<Payload(q), End(b)>>, b, <<Payload(Garbled(q)), End(FALSE)>>)
      BY DamageHitsEnd
    <3>2. toClient' = <<Payload(Garbled(Rep)), End(FALSE)>>
      BY <1>3, <2>2, <2>5, <3>1 DEF Hits
    <3>3. Left' = Left
      BY <1>1, <2>5 DEF Left, Done
    <3>4. Rep' = Rep /\ Garbled(Rep)' = Garbled(Rep)
      BY <1>1, <3>3, OnlyBytesMove DEF Garbled
    <3>5. OnTheWayBack(Garbled(Rep), FALSE)'
      BY <1>1, <2>5, <3>2, <3>4 DEF OnTheWayBack
    <3>6. Replying'
      BY <1>1, <1>3, <2>1, <3>4, <3>5 DEF Replying
    <3> QED
      BY <1>1, <3>3, <3>6, OnlyBytesMove DEF GdbInv, GdbTypeOK, LinkInv
  <2>6. CASE client.at = "packet" /\ toClient = <<End(b)>> /\ client.payload = q
    <3>1. Hits(<<End(b)>>, b, <<End(FALSE)>>)
      BY DamageHitsEnd
    <3>2. toClient' = <<End(FALSE)>> /\ client.payload = Rep
      BY <1>3, <2>2, <2>6, <3>1 DEF Hits
    <3>3. Left' = Left
      BY <1>1, <2>6 DEF Left, Done
    <3>4. Rep' = Rep
      BY <1>1, <3>3, OnlyBytesMove
    <3>5. OnTheWayBack(Rep, FALSE)'
      BY <1>1, <2>6, <3>2, <3>4 DEF OnTheWayBack
    <3>6. Replying'
      BY <1>1, <1>3, <2>1, <3>4, <3>5 DEF Replying
    <3> QED
      BY <1>1, <3>3, <3>6, OnlyBytesMove DEF GdbInv, GdbTypeOK, LinkInv
  <2> QED
    BY <2>2, <2>3, <2>4, <2>5, <2>6 DEF OnTheWayBack
<1> QED
  BY <1>2, <1>3 DEF Damage

----------------------------------------------------------------------------
(* A call begins. *)

\* The pieces are commands, as many as they should be.
LEMMA PiecesAre ==
  ASSUME NEW addr \in Nat, NEW data \in Seq(Contents)
  PROVE  /\ Pieces(addr, data) = [k \in 1 .. NrPieces(data) |-> PieceAt(addr, data, k)]
         /\ Pieces(addr, data) \in Seq(Commands)
         /\ Len(Pieces(addr, data)) = NrPieces(data)
<1> DEFINE n == NrPieces(data)
           D == 1 .. n
           l == Len(data)
<1>1. Pieces(addr, data) = [k \in D |-> PieceAt(addr, data, k)]
  BY DEF Pieces, NrPieces, PieceAt
<1>2. /\ n \in Nat \ {0} /\ l \in Nat /\ l <= n * MTU /\ (n - 1) * MTU <= l
      /\ \A k \in 1 .. (n - 1) : k * MTU <= l
      /\ n * MTU \in Int
  <2>1. l \in Nat
    OBVIOUS
  <2>2. NrPieces(data) - 0 = NrPieces(data)
    BY <2>1, PiecesCover
  <2> QED
    BY <2>1, <2>2, PiecesCover
<1> HIDE DEF n
<1>3. ASSUME NEW k \in D PROVE PieceAt(addr, data, k) \in Commands
  <2> DEFINE m == (k - 1) * MTU
             z == IF k = n THEN l ELSE k * MTU
             s == SubSeq(data, m + 1, z)
  <2>1. MTU \in Nat \ {0} /\ k \in Int /\ k - 1 \in Int /\ k - 1 >= 0
    BY <1>2, GdbAssumption
  <2>2. m \in Int /\ m >= 0 /\ k * MTU \in Int
    BY <2>1, Distributes
  <2>3. z \in Nat /\ z <= l
    <3>1. CASE k = n
      BY <1>2, <3>1
    <3>2. CASE k # n
      <4>1. k \in 1 .. (n - 1)
        BY <1>2, <3>2
      <4>2. k * MTU <= l /\ k * MTU >= 0
        <5>1. k * MTU = m + MTU
          BY <2>1, Distributes
        <5> HIDE DEF m
        <5> QED
          BY <1>2, <2>1, <2>2, <4>1, <5>1
      <4> QED
        BY <1>2, <2>2, <3>2, <4>2
    <3> QED
      BY <3>1, <3>2
  <2> HIDE DEF m, z
  <2>4. s \in Seq(Contents)
    <3>1. \A i \in (m + 1) .. z : i \in 1 .. Len(data)
      BY <1>2, <2>2, <2>3
    <3> QED
      BY <2>2, <2>3, <3>1, SubSeqProperties
  <2>5. PieceAt(addr, data, k) = [c |-> "M", addr |-> addr + m, data |-> s]
    BY DEF PieceAt, m, z, n
  <2> HIDE DEF s
  <2> QED
    BY <2>2, <2>4, <2>5 DEF Commands
<1>4. [k \in D |-> PieceAt(addr, data, k)] \in Seq(Commands)
        /\ Len([k \in D |-> PieceAt(addr, data, k)]) = n
  <2> DEFINE f == [k \in D |-> PieceAt(addr, data, k)]
  <2>1. f \in [D -> Commands]
    BY <1>3
  <2>2. DOMAIN f = 1 .. n
    OBVIOUS
  <2> HIDE DEF f, D
  <2>3. f \in Seq(Commands) /\ Len(f) = n
    BY <1>2, <2>1, <2>2 DEF D
  <2> QED
    BY <2>3 DEF f
<1> QED
  BY <1>1, <1>4 DEF n

LEMMA Begins ==
  ASSUME GdbInv, NEW x \in Calls, Begin(x)
  PROVE  GdbInv'
<1>1. /\ call = NoCall /\ call' = x /\ todo' = CommandsOf(x)
      /\ UNCHANGED <<client, qemu_r, toStub, toClient, qemu, stub, damage>>
  BY DEF Begin
<1>2. call.name = "none" /\ todo = <<>> /\ qemu = model
  BY <1>1 DEF GdbInv, TodoInv, Behind, NoCall
<1>3. Resting
  BY <1>2 DEF GdbInv, LinkInv, Sending, Refused, Resending, Replying, Asking
<1>4. Resting' /\ ~Done'
  BY <1>1, <1>3, DoneOf DEF Resting, Done
<1>5. Left' = Len(todo')
  BY <1>4 DEF Left
<1>6. /\ qemu = [dut |-> qemu.dut, other |-> qemu.other, steps |-> qemu.steps, mem |-> qemu.mem]
      /\ qemu.dut \in Contents /\ qemu.other \in Contents /\ qemu.steps \in 0 .. (StepsMod - 1)
      /\ qemu.mem \in [0 .. (MemSize - 1) -> Contents]
  BY DEF GdbInv, GdbTypeOK, Machines
<1>7. TodoInv' /\ Behind(Left)' /\ model' \in Machines
  <2>1. CASE x.name = "exec" /\ x.n \in Nat
    <3> DEFINE n == x.n
               v == [c |-> "vCont"]
               f == [i \in 1 .. n |-> v]
    <3>1. todo' = f
      BY <1>1, <2>1 DEF CommandsOf
    <3>2. v \in Commands
      BY DEF Commands
    <3> HIDE DEF v
    <3>3. f \in Seq(Commands) /\ Len(f) = n /\ \A i \in DOMAIN f : f[i] = v
      BY <2>1, <3>2
    <3>4. model' = [qemu EXCEPT !.steps = (@ + n) % StepsMod]
      BY <1>2, <2>1 DEF Begin
    <3>5. model' \in Machines
      <4>1. (qemu.steps + n) % StepsMod \in 0 .. (StepsMod - 1)
        BY <1>6, <2>1 DEF StepsMod
      <4> QED
        BY <1>6, <3>4, <4>1 DEF Machines
    <3> HIDE DEF f
    <3>6. TodoInv'
      BY <1>1, <2>1, <3>1, <3>3 DEF TodoInv, v
    <3>7. Left' = n
      BY <1>5, <3>1, <3>3
    <3>8. Behind(Left)'
      BY <1>1, <2>1, <3>4, <3>7 DEF Behind
    <3> QED
      BY <3>5, <3>6, <3>8
  <2>2. CASE x.name = "memcpy" /\ x.addr \in Nat /\ x.data \in Seq(Contents)
    <3> DEFINE first == x.addr
               data == x.data
               n == NrPieces(data)
               past == first + Len(data)
               A == 0 .. (MemSize - 1)
               D == first .. (past - 1)
               mem == [a \in A |-> IF a \in D THEN data[a - first + 1] ELSE qemu.mem[a]]
    <3>1. todo' = Pieces(first, data)
      BY <1>1, <2>2 DEF CommandsOf
    <3>2. todo' \in Seq(Commands) /\ Len(todo') = n
            /\ todo' = [k \in 1 .. n |-> PieceAt(first, data, k)] /\ n \in Nat
      <4>1. first \in Nat /\ data \in Seq(Contents) /\ Len(data) \in Nat
        BY <2>2
      <4> HIDE DEF first, data
      <4> QED
        BY <3>1, <4>1, PiecesAre, PiecesCover
    <3>3. \A i \in DOMAIN todo' : todo'[i] = PieceAt(first, data, n - Len(todo') + i)
      <4> HIDE DEF n
      <4>1. \A i \in DOMAIN todo' : n - Len(todo') + i = i /\ todo'[i] = PieceAt(first, data, i)
        BY <3>2
      <4> QED
        BY <4>1
    <3>4. TodoInv'
      BY <1>1, <2>2, <3>2, <3>3 DEF TodoInv
    <3>5. model' = [qemu EXCEPT !.mem = mem]
      <4>1. model' = [model EXCEPT !.mem = [a \in DOMAIN @ |->
                        IF a \in first .. (first + Len(data) - 1)
                        THEN data[a - first + 1] ELSE @[a]]]
        BY <2>2 DEF Begin
      <4>2. DOMAIN qemu.mem = A /\ D = first .. (first + Len(data) - 1) /\ model = qemu
        BY <1>2, <1>6, <2>2
      <4> HIDE DEF D, A, first, data
      <4>3. model' = [qemu EXCEPT !.mem = [a \in DOMAIN qemu.mem |->
                        IF a \in D THEN data[a - first + 1] ELSE qemu.mem[a]]]
        BY <1>6, <4>1, <4>2
      <4>4. mem = [a \in DOMAIN qemu.mem |-> IF a \in D THEN data[a - first + 1] ELSE qemu.mem[a]]
        BY <4>2
      <4> QED
        BY <4>3, <4>4
    <3>6. \A a \in D : a - first + 1 \in 1 .. Len(data)
      BY <2>2
    <3>7. mem \in [A -> Contents]
      <4>1. \A a \in D : data[a - first + 1] \in Contents
        BY <2>2, <3>6
      <4> HIDE DEF D, A
      <4> QED
        BY <1>6, <4>1 DEF A
    <3>8. \A a \in A : mem[a] = IF a \in D THEN data[a - first + 1] ELSE qemu.mem[a]
      OBVIOUS
    <3> HIDE DEF mem
    <3>9. /\ model' = [dut |-> qemu.dut, other |-> qemu.other, steps |-> qemu.steps, mem |-> mem]
          /\ model' \in Machines
      BY <1>6, <3>5, <3>7 DEF Machines
    <3>10. Written(Left)' = first
      <4>1. Written(Left)' = first + (n - n) * MTU
        BY <1>1, <1>5, <3>2 DEF Written
      <4>2. (n - n) * MTU = 0
        <5> HIDE DEF n
        <5>1. n - n = 0 /\ MTU \in Nat
          BY <3>2, GdbAssumption
        <5> QED
          BY <5>1
      <4> QED
        BY <2>2, <4>1, <4>2
    <3>11. \A a \in A :
             IF a \in D THEN model'.mem[a] = data[a - first + 1] /\ ~(a < first)
             ELSE qemu'.mem[a] = model'.mem[a]
      <4>1. \A a \in D : ~(a < first)
        BY <2>2
      <4> HIDE DEF D, A
      <4> QED
        BY <1>1, <3>8, <3>9, <4>1
    <3>12. Behind(Left)'
      <4>1. /\ model'.dut = qemu'.dut /\ model'.other = qemu'.other /\ model'.steps = qemu'.steps
            /\ \A a \in 0 .. (MemSize - 1) :
                 IF a \in call'.addr .. (call'.addr + Len(call'.data) - 1)
                 THEN /\ model'.mem[a] = call'.data[a - call'.addr + 1]
                      /\ a < Written(Left)' => qemu'.mem[a] = model'.mem[a]
                 ELSE qemu'.mem[a] = model'.mem[a]
        <5>1. call'.addr = first /\ call'.data = data /\ A = 0 .. (MemSize - 1)
                /\ D = first .. (first + Len(data) - 1)
          BY <1>1, <2>2
        <5>2. model'.dut = qemu'.dut /\ model'.other = qemu'.other /\ model'.steps = qemu'.steps
          BY <1>1, <3>9
        <5> HIDE DEF first, data, A, D
        <5> QED
          BY <3>10, <3>11, <5>1, <5>2
      <4>2. call'.name = "memcpy"
        BY <1>1, <2>2
      <4> QED
        BY <4>1, <4>2 DEF Behind
    <3> QED
      BY <3>4, <3>9, <3>12
  <2>3. CASE x.name = "to_ref" /\ x.dut \in Contents
    <3> DEFINE g == [c |-> "g"]
               h == [c |-> "G", dut |-> x.dut]
    <3>1. todo' = <<g, h>>
      BY <1>1, <2>3 DEF CommandsOf
    <3>2. g \in Commands /\ h \in Commands
      BY <2>3 DEF Commands
    <3>3. TodoInv'
      <4>1. todo' \in Seq(Commands)
        <5> HIDE DEF g, h
        <5> QED
          BY <3>1, <3>2
      <4> QED
        BY <1>1, <2>3, <3>1, <4>1 DEF TodoInv
    <3>4. Left' = 2
      <4> HIDE DEF g, h
      <4> QED
        BY <1>5, <3>1
    <3>5. model' = [qemu EXCEPT !.dut = x.dut]
      BY <1>2, <2>3 DEF Begin
    <3>6. /\ model' = [dut |-> x.dut, other |-> qemu.other, steps |-> qemu.steps, mem |-> qemu.mem]
          /\ model' \in Machines
      BY <1>6, <2>3, <3>5 DEF Machines
    <3>7. Behind(Left)'
      BY <1>1, <2>3, <3>4, <3>6 DEF Behind
    <3> QED
      BY <3>3, <3>6, <3>7
  <2>4. CASE x.name = "to_dut"
    <3> DEFINE g == [c |-> "g"]
    <3>1. todo' = <<g>>
      BY <1>1, <2>4 DEF CommandsOf
    <3>2. g \in Commands
      BY DEF Commands
    <3>3. TodoInv'
      <4>1. todo' \in Seq(Commands)
        <5> HIDE DEF g
        <5> QED
          BY <3>1, <3>2
      <4> QED
        BY <1>1, <2>4, <3>1, <4>1 DEF TodoInv
    <3>4. model' = model
      BY <2>4 DEF Begin
    <3>5. Behind(Left)' /\ model' \in Machines
      BY <1>1, <1>2, <2>4, <3>4 DEF Behind, GdbInv, GdbTypeOK
    <3> QED
      BY <3>3, <3>5
  <2> QED
    BY <2>1, <2>2, <2>3, <2>4, GdbAssumption
<1> QED
  BY <1>1, <1>4, <1>7 DEF GdbInv, GdbTypeOK, LinkInv

LEMMA GdbStarts ==
  ASSUME GdbInit
  PROVE  GdbInv
<1>1. PICK v \in Contents :
        /\ qemu = Machine(v, v, 0, [a \in 0 .. (MemSize - 1) |-> v])
        /\ qemu_r = [dut |-> v, other |-> v]
  BY DEF GdbInit, GdbState
<1>2. /\ call = NoCall /\ todo = <<>> /\ client = [at |-> "idle", payload |-> NoCommand]
      /\ model = qemu /\ toClient = <<>> /\ toStub = <<Ack>>
      /\ stub = [at |-> "ready", payload |-> NoCommand, last |-> NoCommand]
  BY DEF GdbInit, GdbState
<1>3. GdbTypeOK
  <2>1. qemu \in Machines
    BY <1>1 DEF Machine, Machines, StepsMod
  <2> QED
    BY <1>1, <1>2, <2>1 DEF GdbTypeOK
<1>4. LinkInv
  BY <1>2 DEF LinkInv, Resting
<1>5. TodoInv /\ Behind(Left)
  BY <1>2 DEF TodoInv, Behind, NoCall
<1> QED
  BY <1>3, <1>4, <1>5 DEF GdbInv

LEMMA GdbStutters ==
  ASSUME GdbInv, UNCHANGED gdbVars
  PROVE  GdbInv'
<1>1. UNCHANGED <<call, todo, client, qemu_r, toStub, toClient, qemu, stub, damage, model>>
  BY DEF gdbVars
<1>2. Left' = Left
  BY <1>1 DEF Left, Done
<1>3. Cmd' = Cmd /\ Rep' = Rep
  BY <1>1, <1>2, OnlyBytesMove
<1>4. Garbled(Rep)' = Garbled(Rep)
  BY <1>3 DEF Garbled
<1>5. LinkInv'
  <2>1. Resting => Resting'
    BY <1>1 DEF Resting
  <2>2. Sending => Sending'
    BY <1>1, <1>3 DEF Sending, OnTheWay
  <2>3. Refused => Refused'
    BY <1>1 DEF Refused
  <2>4. Resending => Resending'
    BY <1>1 DEF Resending
  <2>5. Replying => Replying'
    BY <1>1, <1>3, <1>4 DEF Replying, OnTheWayBack
  <2>6. Asking => Asking'
    BY <1>1, <1>3 DEF Asking
  <2> QED
    BY <2>1, <2>2, <2>3, <2>4, <2>5, <2>6 DEF GdbInv, LinkInv
<1> QED
  BY <1>1, <1>2, <1>5, OnlyBytesMove DEF GdbInv, GdbTypeOK

LEMMA GdbInvariant == GdbSpec => []GdbInv
<1>1. GdbInit => GdbInv
  BY GdbStarts
<1>2. GdbInv /\ [GdbNext]_gdbVars => GdbInv'
  BY Begins, Sends, Awaits, ReceivesByte, ReceivesEnd, Returns, StubSteps, Damages, GdbStutters
     DEF GdbNext, Client
<1> QED
  BY <1>1, <1>2, PTL DEF GdbSpec

\* Whatever packets are damaged and sent again, each command of a call of
\* difftest.h is executed by QEMU once: when the call has returned, QEMU is in
\* the state that the calls so far lead to, no byte is left for the next call to
\* misread, and the registers returned are those QEMU has.
THEOREM CallsTakeEffect == GdbSpec => []CallsTakeEffectOnce
<1>1. GdbInv => CallsTakeEffectOnce
  <2> SUFFICES ASSUME GdbInv PROVE CallsTakeEffectOnce
    OBVIOUS
  <2>1. ASSUME call = NoCall PROVE qemu = model /\ toClient = <<>>
    <3>1. call.name = "none" /\ todo = <<>> /\ qemu = model
      BY <2>1 DEF GdbInv, TodoInv, Behind, NoCall
    <3>2. Resting
      BY <3>1 DEF GdbInv, LinkInv, Sending, Refused, Resending, Replying, Asking
    <3> QED
      BY <3>1, <3>2 DEF Resting
  <2>2. RegistersAreCurrent
    BY DEF RegistersAreCurrent, GdbInv, TodoInv, RegsOf
  <2> QED
    BY <2>1, <2>2 DEF CallsTakeEffectOnce
<1> QED
  BY <1>1, GdbInvariant, PTL
=============================================================================
