------------------------------ MODULE NativeIo ------------------------------
(***************************************************************************)
(* Threads and processes of the abstract machine on Linux                  *)
(* (am/src/native): the event thread and the reader of the key queue       *)
(* (ioe/input.c), the audio callback and the writer of the audio pipe      *)
(* (ioe/audio.c), and the processes that mpe_init starts (mpe.c) with the  *)
(* devices they share (ioe.c).                                             *)
(*                                                                         *)
(* The three have nothing to do with each other; a behaviour is one of the *)
(* first, of the second or of the third.                                   *)
(***************************************************************************)
EXTENDS Integers, Sequences, FiniteSets

CONSTANTS
  QLEN,            \* KEY_QUEUE_LEN
  PipeSize, PIPE_BUF, StreamLen, Buffers,    \* the audio pipe, what SDL asks for, what is played
  Ncpu,
  MaxKeys, MaxBytes   \* bounds

ASSUME NativeIoAssumption ==
  /\ QLEN \in Nat \ {0} /\ PipeSize \in Nat /\ PIPE_BUF \in Nat /\ StreamLen \in Nat
  /\ Ncpu \in Nat \ {0} /\ MaxKeys \in Nat /\ MaxBytes \in Nat
  /\ \A b \in Buffers : b \in Seq(Nat)

VARIABLES
  part,       \* the part that runs
  queue, key_f, key_r, lock, event, reader, typed, got, lapped,
  pipe, count, play, write, written, played, raced, over, short,
  cpus, sync, ioe

keyVars   == <<queue, key_f, key_r, lock, event, reader, typed, got, lapped>>
audioVars == <<pipe, count, play, write, written, played, raced, over, short>>
cpuVars   == <<cpus, sync, ioe>>
ioVars    == <<part, keyVars, audioVars, cpuVars>>

(***************************************************************************)
(* Keys.  The reader is __am_input_keybrd; a key is its number.            *)
(***************************************************************************)
\* Mutant: the index wraps around one slot late.
Advance_Late(i) == (i + 1) % (QLEN + 1)
Advance(i) == (i + 1) % QLEN

LockFree == lock = "none"

event_key ==
  /\ event = "wait" /\ Len(typed) < MaxKeys
  /\ event' = "lock"
  /\ UNCHANGED <<queue, key_f, key_r, lock, reader, typed, got, lapped>>
event_lock ==
  /\ event = "lock" /\ LockFree
  /\ event' = "write" /\ lock' = "event"
  /\ UNCHANGED <<queue, key_f, key_r, reader, typed, got, lapped>>
event_write ==
  /\ event = "write"
  /\ queue' = [queue EXCEPT ![key_r] = Len(typed) + 1]
  /\ event' = "advance"
  /\ UNCHANGED <<key_f, key_r, lock, reader, typed, got, lapped>>
\* There is no test for a full queue.
event_advance ==
  /\ event = "advance"
  /\ key_r' = Advance(key_r)
  /\ event' = "unlock"
  /\ typed' = Append(typed, Len(typed) + 1)
  /\ lapped' = (lapped \/ key_r' = key_f)
  /\ UNCHANGED <<queue, key_f, lock, reader, got>>
event_unlock ==
  /\ event = "unlock"
  /\ lock' = "none" /\ event' = "wait"
  /\ UNCHANGED <<queue, key_f, key_r, reader, typed, got, lapped>>

reader_lock ==
  /\ reader = "idle" /\ LockFree
  /\ lock' = "reader" /\ reader' = "test"
  /\ UNCHANGED <<queue, key_f, key_r, event, typed, got, lapped>>
reader_take ==
  /\ reader = "test" /\ key_f # key_r
  /\ got' = Append(got, queue[key_f]) /\ key_f' = Advance(key_f)
  /\ reader' = "unlock"
  /\ UNCHANGED <<queue, key_r, lock, event, typed, lapped>>
reader_none ==
  /\ reader = "test" /\ key_f = key_r
  /\ reader' = "unlock"
  /\ UNCHANGED <<queue, key_f, key_r, lock, event, typed, got, lapped>>
reader_unlock ==
  /\ reader = "unlock"
  /\ lock' = "none" /\ reader' = "idle"
  /\ UNCHANGED <<queue, key_f, key_r, event, typed, got, lapped>>

KeyInit ==
  /\ queue = [i \in 0 .. (QLEN - 1) |-> 0] /\ key_f = 0 /\ key_r = 0 /\ lock = "none"
  /\ event = "wait" /\ reader = "idle" /\ typed = <<>> /\ got = <<>> /\ lapped = FALSE
KeyNext ==
  \/ event_key \/ event_lock \/ event_write \/ event_advance \/ event_unlock
  \/ reader_lock \/ reader_take \/ reader_none \/ reader_unlock

InQueue == [i \in 1 .. ((key_r - key_f) % QLEN) |-> queue[(key_f + i - 1) % QLEN]]

\* Until the event thread laps the reader, the guest gets the keys in the order
\* in which they were typed, none twice and none left out, although both sides
\* change the queue.  (A lap makes the queue look empty.)
NativeKeys == (lock = "none" /\ ~lapped) => typed = got \o InQueue

(***************************************************************************)
(* Audio.  count is a plain volatile int: both sides load it, and store it *)
(* later.  The writer is a program that asks for the status first, and     *)
(* writes when its buffer fits.                                            *)
(***************************************************************************)
AudioInit ==
  /\ pipe = <<>> /\ count = 0 /\ written = <<>> /\ played = <<>>
  /\ play = [at |-> "idle", nread |-> 0, b |-> 0, tmp |-> 0, stream |-> <<>>]
  /\ write = [at |-> "idle", buf |-> <<>>, nwrite |-> 0, n |-> 0, tmp |-> 0]
  /\ raced = FALSE /\ over = FALSE /\ short = FALSE

\* The callback of SDL.
\* Mutant: it always asks for a whole stream.
audio_play_Whole ==
  /\ play.at = "idle"
  /\ play' = [play EXCEPT !.at = "read", !.b = 0, !.stream = <<>>, !.nread = StreamLen]
  /\ UNCHANGED <<pipe, count, write, written, played, raced, over, short>>
audio_play ==
  /\ play.at = "idle"
  /\ play' = [play EXCEPT !.at = IF count < StreamLen THEN "ask" ELSE "read",
                          !.b = 0, !.stream = <<>>, !.nread = StreamLen]
  /\ UNCHANGED <<pipe, count, write, written, played, raced, over, short>>

\* count is loaded once more, and may have grown beyond the stream by then.
play_ask ==
  /\ play.at = "ask"
  /\ play' = [play EXCEPT !.at = "read", !.nread = count]
  /\ over' = (over \/ count > StreamLen)
  /\ UNCHANGED <<pipe, count, write, written, played, raced, short>>

\* Each read asks for nread bytes and stores them at the start of the stream.
play_read ==
  /\ play.at = "read" /\ play.b < play.nread /\ pipe # <<>>
  /\ LET n == IF Len(pipe) < play.nread THEN Len(pipe) ELSE play.nread
     IN  /\ pipe' = SubSeq(pipe, n + 1, Len(pipe))
         /\ play' = [play EXCEPT !.b = @ + n,
                                 !.stream = SubSeq(pipe, 1, n) \o SubSeq(@, n + 1, Len(@))]
         /\ short' = (short \/ n < play.nread)
  /\ UNCHANGED <<count, write, written, played, raced, over>>
play_load ==
  /\ play.at = "read" /\ play.b >= play.nread
  /\ play' = [play EXCEPT !.at = "store", !.tmp = count]
  /\ UNCHANGED <<pipe, count, write, written, played, raced, over, short>>
\* What is stored behind the end of the stream is not played.
InSound(stream) == IF Len(stream) < StreamLen THEN Len(stream) ELSE StreamLen
play_store ==
  /\ play.at = "store"
  /\ count' = play.tmp - play.nread
  /\ raced' = (raced \/ play.tmp # count)
  /\ played' = played \o SubSeq(play.stream, 1, InSound(play.stream))
  /\ play' = [play EXCEPT !.at = "idle"]
  /\ UNCHANGED <<pipe, write, written, over, short>>

Fits(b) == Len(b) <= PipeSize - count

audio_write(b) ==
  /\ write.at = "idle" /\ Len(written) < MaxBytes /\ Fits(b)
  /\ write' = [write EXCEPT !.at = "write", !.buf = b, !.nwrite = 0]
  /\ written' = written \o b
  /\ UNCHANGED <<pipe, count, play, played, raced, over, short>>

\* write(2) on a full pipe fails; a long one may be cut short.
PipeTakes(len) ==
  LET free == PipeSize - Len(pipe)
  IN  IF len <= free THEN len ELSE IF len <= PIPE_BUF THEN 0 ELSE free
write_pipe ==
  /\ write.at = "write" /\ write.nwrite < Len(write.buf)
  /\ LET n == PipeTakes(Len(write.buf))
     IN  /\ n > 0
         /\ pipe' = pipe \o SubSeq(write.buf, 1, n)
         /\ write' = [write EXCEPT !.at = "load", !.n = n]
         /\ short' = (short \/ n < Len(write.buf))
  /\ UNCHANGED <<count, play, written, played, raced, over>>
write_load ==
  /\ write.at = "load"
  /\ write' = [write EXCEPT !.at = "store", !.tmp = count]
  /\ UNCHANGED <<pipe, count, play, written, played, raced, over, short>>
write_store ==
  /\ write.at = "store"
  /\ count' = write.tmp + write.n
  /\ raced' = (raced \/ write.tmp # count)
  /\ write' = [write EXCEPT !.at = "write", !.nwrite = @ + write.n]
  /\ UNCHANGED <<pipe, play, written, played, over, short>>
write_return ==
  /\ write.at = "write" /\ write.nwrite >= Len(write.buf)
  /\ write' = [write EXCEPT !.at = "idle"]
  /\ UNCHANGED <<pipe, count, play, written, played, raced, over, short>>

AudioNext ==
  \/ audio_play \/ play_ask \/ play_read \/ play_load \/ play_store
  \/ \E b \in Buffers : audio_write(b)
  \/ write_pipe \/ write_load \/ write_store \/ write_return

\* As long as no two updates of count have overlapped, no read and no write of a
\* program that asks for the free space first is cut short, and count is what the
\* pipe holds.  And whatever overlaps, no byte is lost or played twice until a read
\* or write is cut short or the callback asks for more than SDL does, which it can
\* when count grows between its test and its use.
AudioExact ==
  LET idle == play.at = "idle" /\ write.at = "idle" IN
  /\ ~raced => ~short /\ (idle => count = Len(pipe))
  /\ ~short /\ ~over /\ idle => played \o pipe = written

(***************************************************************************)
(* Processors.  Processor 0 runs main, then mpe_init; the others are       *)
(* processes that wait for a byte each.                                    *)
(***************************************************************************)
Others == 1 .. (Ncpu - 1)
CpuInit ==
  /\ cpus = [i \in 0 .. (Ncpu - 1) |-> IF i = 0 THEN "main" ELSE "none"]
  /\ sync = 0
  /\ ioe = [has |-> FALSE, done |-> FALSE, inits |-> 0, early |-> FALSE]

ioe_init ==
  /\ cpus[0] = "main" /\ ~ioe.done
  /\ ioe' = [ioe EXCEPT !.has = TRUE]
  /\ UNCHANGED <<cpus, sync>>

\* do_io: the first access sets the devices up.
Initialised(x) == [x EXCEPT !.done = TRUE, !.inits = @ + 1]
do_io(i) ==
  /\ cpus[i] \in {"main", "entry"}
  /\ ioe.has
  /\ ioe' = IF ioe.done THEN ioe
            ELSE [Initialised(ioe) EXCEPT !.early = cpus[i] = "main"]
  /\ UNCHANGED <<cpus, sync>>

mpe_fork(i) ==
  /\ cpus[0] = "main" \/ cpus[0] = "fork"
  /\ i \in Others /\ cpus[i] = "none" /\ \A j \in 1 .. (i - 1) : cpus[j] # "none"
  /\ cpus' = [cpus EXCEPT ![0] = "fork", ![i] = "read"]
  /\ UNCHANGED <<sync, ioe>>
\* Mutant: the bytes are written before the devices are set up.
mpe_ioe_Late ==
  /\ cpus[0] = "fork" /\ \A i \in Others : cpus[i] # "none"
  /\ cpus' = [cpus EXCEPT ![0] = "entry"]
  /\ sync' = Ncpu - 1
  /\ UNCHANGED ioe
mpe_ioe ==
  /\ cpus[0] = "fork" /\ \A i \in Others : cpus[i] # "none"
  /\ ioe' = IF ioe.has THEN Initialised(ioe) ELSE ioe
  /\ cpus' = [cpus EXCEPT ![0] = "write"]
  /\ UNCHANGED sync
mpe_write ==
  /\ cpus[0] = "write"
  /\ sync' = Ncpu - 1
  /\ cpus' = [cpus EXCEPT ![0] = "entry"]
  /\ UNCHANGED ioe
child_read(i) ==
  /\ i \in Others /\ cpus[i] = "read" /\ sync > 0
  /\ sync' = sync - 1
  /\ cpus' = [cpus EXCEPT ![i] = "entry"]
  /\ UNCHANGED ioe
\* __am_exit_platform: one processor stops all of them.
halt(i) ==
  /\ cpus[i] = "entry"
  /\ cpus' = [j \in DOMAIN cpus |-> "halted"]
  /\ UNCHANGED <<sync, ioe>>

CpuNext ==
  \/ ioe_init \/ mpe_ioe \/ mpe_write
  \/ \E i \in DOMAIN cpus : do_io(i) \/ mpe_fork(i) \/ child_read(i) \/ halt(i)

\* No processor enters the program before the devices are set up, they are set
\* up once, and every processor gets its byte.  (A program that uses a device
\* between ioe_init and mpe_init has them set up twice.)
StartsOnce ==
  /\ ioe.has /\ ~ioe.early => ioe.inits <= 1
  /\ \A i \in DOMAIN cpus : cpus[i] = "entry" => (ioe.has => ioe.done)
  /\ cpus[0] = "entry" => sync = Cardinality({ i \in Others : cpus[i] = "read" })

(***************************************************************************)
IoState == KeyInit /\ AudioInit /\ CpuInit
IoInit  == part \in {"keys", "audio", "processors"} /\ IoState
IoNext ==
  /\ \/ part = "keys"       /\ KeyNext   /\ UNCHANGED <<audioVars, cpuVars>>
     \/ part = "audio"      /\ AudioNext /\ UNCHANGED <<keyVars, cpuVars>>
     \/ part = "processors" /\ CpuNext   /\ UNCHANGED <<keyVars, audioVars>>
  /\ UNCHANGED part
IoSpec == IoInit /\ [][IoNext]_ioVars
=============================================================================
