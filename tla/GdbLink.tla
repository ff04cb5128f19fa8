------------------------------ MODULE GdbLink ------------------------------
(***************************************************************************)
(* The reference side of the differential test that runs QEMU              *)
(* (nemu/tools/qemu-diff): the calls of difftest.h are turned into GDB     *)
(* remote commands, which gdb_send and gdb_recv exchange with QEMU's stub  *)
(* over two byte streams, with checksums and acknowledgements.             *)
(*                                                                         *)
(* A packet is three bytes here: the start, one byte for all of the        *)
(* payload, and the end with the checksum, which says whether the payload  *)
(* was damaged on the way.  Acknowledgements are not damaged.              *)
(***************************************************************************)
EXTENDS Integers, Sequences

CONSTANTS
  Contents,      \* what a register or a word of memory may hold
  MemSize,     \* words of QEMU's memory
  MTU,         \* the most one command writes to memory
  Calls,       \* the calls NEMU makes
  MaxDamage, MaxCalls    \* bounds

ASSUME GdbAssumption ==
  /\ \A v \in Contents : \E w \in Contents : w # v
  /\ MemSize \in Nat /\ MTU \in Nat \ {0} /\ MaxDamage \in Nat /\ MaxCalls \in Nat
  /\ \A x \in Calls :
       \/ x.name = "exec"   /\ x.n \in Nat
       \/ x.name = "memcpy" /\ x.addr \in Nat /\ x.data \in Seq(Contents)
       \/ x.name = "to_ref" /\ x.dut \in Contents
       \/ x.name = "to_dut"

VARIABLES
  call,        \* the call of difftest.h in progress
  todo,        \* the commands it has still to issue
  client,      \* the place in gdb_send and gdb_recv
  qemu_r,      \* the registers gdb_getregs has put into the caller's variable
  toStub, toClient,      \* bytes under way
  qemu,        \* the state of QEMU: registers and memory
  stub,        \* QEMU's stub: what it has read of a packet, the last reply
  damage,      \* packets damaged so far
  calls, model \* history: number of calls, the state QEMU should be in

gdbVars == <<call, todo, client, qemu_r, toStub, toClient, qemu, stub, damage, calls, model>>

\* Register values: the ones the differential test copies, the ones it leaves
\* alone, and the number of instructions executed modulo a small number.
Machine(dut, other, steps, mem) == [dut |-> dut, other |-> other, steps |-> steps, mem |-> mem]
StepsMod == 4

Start      == [byte |-> "$"]
Ack        == [byte |-> "+"]
Nack       == [byte |-> "-"]
Payload(p) == [byte |-> "payload", is |-> p]
End(ok)    == [byte |-> "#", ok |-> ok]
Packet(p)  == <<Start, Payload(p), End(TRUE)>>

NoCommand == [c |-> "none"]
NoCall    == [name |-> "none"]

GdbState ==
  /\ call = NoCall /\ todo = <<>> /\ damage = 0
  /\ client = [at |-> "idle", payload |-> NoCommand]
  /\ \E v \in Contents :
       /\ qemu = Machine(v, v, 0, [a \in 0 .. (MemSize - 1) |-> v])
       /\ qemu_r = [dut |-> v, other |-> v]
  /\ model = qemu
  /\ toClient = <<>>
  /\ stub = [at |-> "ready", payload |-> NoCommand, last |-> NoCommand]
\* gdb_begin acknowledges any earlier input.
GdbInit == calls = 0 /\ toStub = <<Ack>> /\ GdbState

(***************************************************************************)
(* The calls.                                                              *)
(***************************************************************************)
\* Mutant: the address does not advance with the data.
Pieces_SameAddress(addr, data) ==
  LET n == IF Len(data) = 0 THEN 1 ELSE (Len(data) + MTU - 1) \div MTU
  IN  [k \in 1 .. n |->
        [c |-> "M", addr |-> addr,
         data |-> SubSeq(data, (k - 1) * MTU + 1, IF k = n THEN Len(data) ELSE k * MTU)]]

\* gdb_memcpy_to_qemu: pieces of MTU while there is more than that, then the rest.
Pieces(addr, data) ==
  LET n == IF Len(data) = 0 THEN 1 ELSE (Len(data) + MTU - 1) \div MTU
  IN  [k \in 1 .. n |->
        [c |-> "M", addr |-> addr + (k - 1) * MTU,
         data |-> SubSeq(data, (k - 1) * MTU + 1, IF k = n THEN Len(data) ELSE k * MTU)]]

CommandsOf(x) ==
  CASE x.name = "exec"   -> [i \in 1 .. x.n |-> [c |-> "vCont"]]
    [] x.name = "memcpy" -> Pieces(x.addr, x.data)
    [] x.name = "to_ref" -> <<[c |-> "g"], [c |-> "G", dut |-> x.dut]>>
    [] x.name = "to_dut" -> <<[c |-> "g"]>>

Begin(x) ==
  /\ call = NoCall /\ calls < MaxCalls
  /\ call' = x /\ todo' = CommandsOf(x) /\ calls' = calls + 1
  /\ model' = CASE x.name = "exec"   -> [model EXCEPT !.steps = (@ + x.n) % StepsMod]
                [] x.name = "memcpy" ->
                     [model EXCEPT !.mem = [a \in DOMAIN @ |->
                        IF a \in x.addr .. (x.addr + Len(x.data) - 1)
                        THEN x.data[a - x.addr + 1] ELSE @[a]]]
                [] x.name = "to_ref" -> [model EXCEPT !.dut = x.dut]
                [] x.name = "to_dut" -> model
  /\ UNCHANGED <<client, qemu_r, toStub, toClient, qemu, stub, damage>>

Return ==
  /\ call # NoCall /\ todo = <<>> /\ client.at = "idle"
  /\ call' = NoCall
  /\ UNCHANGED <<todo, client, qemu_r, toStub, toClient, qemu, stub, damage, calls, model>>

(***************************************************************************)
(* gdb_send and gdb_recv, in the mode with acknowledgements.               *)
(***************************************************************************)
\* difftest_regcpy overwrites part of what gdb_getregs brought and sends all.
Filled(cmd) == IF cmd.c = "G" THEN [c |-> "G", regs |-> [qemu_r EXCEPT !.dut = cmd.dut]] ELSE cmd

send_packet ==
  /\ client.at \in {"idle", "resend"} /\ todo # <<>>
  /\ toStub' = toStub \o Packet(Filled(Head(todo)))
  /\ client' = [client EXCEPT !.at = "ack"]
  /\ UNCHANGED <<call, todo, qemu_r, toClient, qemu, stub, damage, calls, model>>

\* Mutant: any byte is an acknowledgement.
await_ack_Any ==
  /\ client.at = "ack" /\ toClient # <<>>
  /\ toClient' = Tail(toClient)
  /\ client' = [client EXCEPT !.at = "seek"]
  /\ UNCHANGED <<call, todo, qemu_r, toStub, qemu, stub, damage, calls, model>>

\* One byte is read; whatever is not a '+' is taken for a refusal.
await_ack ==
  /\ client.at = "ack" /\ toClient # <<>>
  /\ toClient' = Tail(toClient)
  /\ client' = [client EXCEPT !.at = IF Head(toClient) = Ack THEN "seek" ELSE "resend"]
  /\ UNCHANGED <<call, todo, qemu_r, toStub, qemu, stub, damage, calls, model>>

\* recv_packet: skip to the start of a packet, and start over at another one.
recv_byte ==
  /\ client.at \in {"seek", "packet"} /\ toClient # <<>> /\ Head(toClient).byte # "#"
  /\ toClient' = Tail(toClient)
  /\ client' = CASE Head(toClient).byte = "$" -> [at |-> "packet", payload |-> NoCommand]
                 [] Head(toClient).byte = "payload" /\ client.at = "packet" ->
                      [client EXCEPT !.payload = Head(toClient).is]
                 [] OTHER -> client
  /\ UNCHANGED <<call, todo, qemu_r, toStub, qemu, stub, damage, calls, model>>

\* The end of a packet: accepted or refused by its checksum.
\* Mutant: the checksum is not compared.
Accepts_All(end) == TRUE
Accepts(end) == end.ok

recv_end ==
  /\ client.at \in {"seek", "packet"} /\ toClient # <<>> /\ Head(toClient).byte = "#"
  /\ toClient' = Tail(toClient)
  /\ \/ /\ client.at = "seek"
        /\ UNCHANGED <<client, toStub, todo, qemu_r>>
     \/ /\ client.at = "packet" /\ Accepts(Head(toClient))
        /\ toStub' = Append(toStub, Ack)
        /\ client' = [client EXCEPT !.at = "idle"]
        /\ todo' = Tail(todo)
        /\ qemu_r' = IF Head(todo).c = "g" THEN client.payload.regs ELSE qemu_r
     \/ /\ client.at = "packet" /\ ~Accepts(Head(toClient))
        /\ toStub' = Append(toStub, Nack)
        /\ client' = [client EXCEPT !.at = "seek"]
        /\ UNCHANGED <<todo, qemu_r>>
  /\ UNCHANGED <<call, qemu, stub, damage, calls, model>>

(***************************************************************************)
(* External: the stub of QEMU, and the link.                               *)
(***************************************************************************)
Executed(cmd) ==
  CASE cmd.c = "vCont" -> [qemu EXCEPT !.steps = (@ + 1) % StepsMod]
    [] cmd.c = "M"     -> [qemu EXCEPT !.mem = [a \in DOMAIN @ |->
                             IF a \in cmd.addr .. (cmd.addr + Len(cmd.data) - 1)
                             THEN cmd.data[a - cmd.addr + 1] ELSE @[a]]]
    [] cmd.c = "G"     -> [qemu EXCEPT !.dut = cmd.regs.dut, !.other = cmd.regs.other]
    [] OTHER           -> qemu
Reply(cmd) ==
  IF cmd.c = "g" THEN [c |-> "regs", regs |-> [dut |-> qemu.dut, other |-> qemu.other]]
  ELSE [c |-> "OK"]

\* A refused reply is sent again; the start of a command abandons the reply.
StubReads ==
  /\ toStub # <<>>
  /\ toStub' = Tail(toStub)
  /\ LET b == Head(toStub)
     IN  \/ /\ b = Nack /\ stub.last # NoCommand
            /\ toClient' = toClient \o Packet(stub.last)
            /\ UNCHANGED <<qemu, stub>>
         \/ /\ b = Ack \/ (b = Nack /\ stub.last = NoCommand)
            /\ stub' = [stub EXCEPT !.last = NoCommand]
            /\ UNCHANGED <<qemu, toClient>>
         \/ /\ b = Start
            /\ stub' = [at |-> "packet", payload |-> NoCommand, last |-> NoCommand]
            /\ UNCHANGED <<qemu, toClient>>
         \/ /\ b.byte = "payload"
            /\ stub' = [stub EXCEPT !.payload = b.is]
            /\ UNCHANGED <<qemu, toClient>>
         \/ /\ b.byte = "#" /\ ~b.ok
            /\ toClient' = Append(toClient, Nack)
            /\ stub' = [stub EXCEPT !.at = "ready"]
            /\ UNCHANGED qemu
         \/ /\ b.byte = "#" /\ b.ok
            /\ qemu' = Executed(stub.payload)
            /\ toClient' = Append(toClient, Ack) \o Packet(Reply(stub.payload))
            /\ stub' = [at |-> "ready", payload |-> NoCommand, last |-> Reply(stub.payload)]
  /\ UNCHANGED <<call, todo, client, qemu_r, damage, calls, model>>

\* A packet is damaged: its checksum no longer fits.  If a reply with registers
\* is still under way, it now holds another value.
Garbled(p) ==
  IF p.c = "regs" THEN [p EXCEPT !.regs.other = CHOOSE v \in Contents : v # @] ELSE p
Damaged(s, i) ==
  [j \in DOMAIN s |->
     IF j = i THEN End(FALSE)
     ELSE IF j = i - 1 /\ s[j].byte = "payload" THEN Payload(Garbled(s[j].is))
     ELSE s[j]]
Damage ==
  /\ damage < MaxDamage
  /\ damage' = damage + 1
  /\ \/ /\ \E i \in DOMAIN toStub : toStub[i] = End(TRUE) /\ toStub' = Damaged(toStub, i)
        /\ UNCHANGED toClient
     \/ /\ \E i \in DOMAIN toClient : toClient[i] = End(TRUE) /\ toClient' = Damaged(toClient, i)
        /\ UNCHANGED toStub
  /\ UNCHANGED <<call, todo, client, qemu_r, qemu, stub, calls, model>>

Client  == send_packet \/ await_ack \/ recv_byte \/ recv_end \/ Return
GdbNext == (\E x \in Calls : Begin(x)) \/ Client \/ StubReads \/ Damage

\* Both ends run, and bytes arrive.
GdbFairness == WF_gdbVars(Client) /\ WF_gdbVars(StubReads)
GdbSpec == GdbInit /\ [][GdbNext]_gdbVars /\ GdbFairness

----------------------------------------------------------------------------
(* What the calls of difftest.h promise over the link. *)

\* A call that returns registers returns those of QEMU at that time.
RegistersAreCurrent ==
  (call.name = "to_dut" /\ todo = <<>>) => qemu_r = [dut |-> qemu.dut, other |-> qemu.other]

\* When a call has returned, QEMU is in the state that the calls so far lead
\* to: every instruction was stepped once, every piece of memory and every
\* register written, whatever packets were damaged and sent again; and nothing
\* is left in the stream that a later call could mistake for its
\* acknowledgement or its reply.  Registers that are returned are current.
CallsTakeEffectOnce ==
  /\ call = NoCall => qemu = model /\ toClient = <<>>
  /\ RegistersAreCurrent

\* Every call returns, since only finitely many packets are damaged.
CallsReturn == [](call # NoCall => <>(call = NoCall))
=============================================================================
