--------------------------- MODULE LegacyTransfer ---------------------------
(***************************************************************************)
(* The first-generation transfer of core/rgtp_core.c: a session exposes a  *)
(* file and waits (rgtp_session_expose_file, rgtp_session_wait_complete,   *)
(* rgtp_poll), a client pulls it (rgtp_pull_start, rgtp_pull_next,         *)
(* rgtp_puller_poll, in the loop of rgtp_client_pull_to_file or in one of  *)
(* the application's like it).  Both loop over a non-blocking socket; a    *)
(* timeout since the call began ends them.                                 *)
(*                                                                         *)
(* Datagrams are lost, repeated and swapped, at most MaxNetFaults times,   *)
(* and lost whenever a socket already holds SOCKET_QUEUE of them.          *)
(***************************************************************************)
EXTENDS Integers, Sequences, SequencesExt, FiniteSets

CONSTANTS
  FileSizes, CHUNK_BYTES,   \* bytes of the file, bytes per chunk (1450 by default)
  Rates,                    \* config.exposure_rate
  MIN_RATE,                 \* floor of the adaptive rate (10)
  REQUESTS,                 \* requests sent in one burst (5)
  POLL_EVERY,               \* iterations between two requests of the loop (10)
  TimeoutsSet,              \* whether config.timeout_ms > 0; else the loops wait for ever
  SOCKET_QUEUE,             \* datagrams a socket holds
  FLOAT_BITS,               \* significant bits of a float (24)
  MaxPressure, MaxPulls, MaxNetFaults   \* bounds

VARIABLES
  legacyHost,       \* byte order, the id that is pulled, whether a timeout is set
  session,          \* rgtp_session_t with its active surface
  client,           \* rgtp_client_t with its active surface
  toSession, toClient,   \* datagrams queued at the two sockets
  netFaults, clean  \* faults so far; whether the client's data is one clean stream

legacyVars == <<legacyHost, session, client, toSession, toClient, netFaults, clean>>

Smallest(a, b) == IF a < b THEN a ELSE b

\* The id next_random gave the exposure; two bytes stand for sixteen.
ExposureId == <<1, 2>>

\* rgtp_client_pull_to_file always draws an id of its own, which is no exposure's.  An
\* application that loops over rgtp_pull_next itself gives rgtp_pull_start the id it was told.
OwnId == <<3, 4>>
PulledIds == {OwnId, ExposureId}

NoSurface == [total |-> 0, bytes |-> 0]

LegacyInit ==
  /\ legacyHost \in [order : {"little", "big"}, id : PulledIds, timeout : TimeoutsSet]
  /\ session = [pc |-> "idle", is_exposing |-> FALSE, file |-> 0, surface |-> NoSurface,
                exposure_rate |-> 0, adaptive_mode |-> FALSE, pull_pressure |-> 0,
                late |-> FALSE]
  /\ client = [pc |-> "idle", is_connected |-> FALSE, active |-> FALSE, surface |-> NoSurface,
               written |-> <<>>, counter |-> 0, late |-> FALSE, done |-> FALSE,
               pulls |-> 0]
  /\ toSession = <<>> /\ toClient = <<>>
  /\ netFaults = 0 /\ clean = TRUE

FileChunks(size) == (size + CHUNK_BYTES - 1) \div CHUNK_BYTES

FileChunkLen(size, i) == IF (i + 1) * CHUNK_BYTES <= size THEN CHUNK_BYTES ELSE size - i * CHUNK_BYTES

\* sendto: what the receiver's queue cannot hold is gone.
Queued(queue, packets) ==
  LET all == queue \o packets IN SubSeq(all, 1, Smallest(Len(all), SOCKET_QUEUE))

\* (time(NULL) - start_time) * 1000 > config.timeout_ms
Expired(c) == legacyHost.timeout /\ c.late

\* The distance between the floats around n, for an n that has more than FLOAT_BITS bits.
FloatStep(n) ==
  CHOOSE s \in {2^k : k \in 1 .. n} : n \div s \in 2^(FLOAT_BITS - 1) .. 2^FLOAT_BITS - 1

\* (float)n: to the nearest of FLOAT_BITS significant bits, a tie to the even one.
Float(n) ==
  IF n < 2^FLOAT_BITS THEN n
  ELSE LET step == FloatStep(n)
           low == n \div step
           rest == 2 * (n % step)
       IN  step * (IF rest > step \/ (rest = step /\ low % 2 = 1) THEN low + 1 ELSE low)

\* rgtp_progress(s) >= 1: both counts are floats before they are divided, and a quotient of
\* two floats is 1 or more exactly when the first is not the smaller.
ProgressDone(surface) == surface.total > 0 /\ Float(surface.bytes) >= Float(surface.total)

-----------------------------------------------------------------------------
(* The exposing session                                                    *)

\* rgtp_session_expose_file on a file that opens and is not empty.  One file per session:
\* a second call would drop the first surface.
SessionExpose(size, rate, adaptive) ==
  /\ session.pc = "idle"
  /\ ~session.is_exposing
  /\ session' = [session EXCEPT !.is_exposing = TRUE, !.file = size,
                   !.surface = [total |-> size, bytes |-> 0], !.exposure_rate = rate,
                   !.adaptive_mode = adaptive]
  /\ UNCHANGED <<legacyHost, client, toSession, toClient, netFaults, clean>>

SessionWait ==
  /\ session.pc = "idle"
  /\ session.is_exposing
  /\ session' = [session EXCEPT !.pc = "poll", !.late = FALSE]
  /\ UNCHANGED <<legacyHost, client, toSession, toClient, netFaults, clean>>

\* calculate_adaptive_rate, capped at the chunk count.  Nothing adds to chunks_sent, so its
\* loss term is never taken; rtt_ms is set only by the answer to a datagram in the form of a
\* manifest, which no puller sends.
ChunksToSend(pressure) ==
  LET count == FileChunks(session.file)
      target == (session.exposure_rate * (10 + pressure)) \div 10
      adapted == IF Smallest(target, count) < MIN_RATE THEN MIN_RATE ELSE Smallest(target, count)
  IN Smallest(count, IF session.adaptive_mode THEN adapted ELSE session.exposure_rate)


Reply(count) ==
  <<[kind |-> "manifest", total |-> session.file]>>
    \o [i \in 1 .. count |-> [kind |-> "chunk", index |-> i - 1,
                              len |-> FileChunkLen(session.file, i - 1)]]

\* The id in a request is the memory of the client's two words; be64toh reads it back.
Be64toh(bytes) == bytes
InMemory(id) == IF legacyHost.order = "big" THEN id ELSE Reverse(id)

\* rgtp_poll, one datagram: a request for this exposure gets the manifest and the chunks.
\* bytes_sent is kept up to total_size, all that rgtp_progress asks of it.
PollRequest ==
  LET pressure == Smallest(session.pull_pressure + 1, MaxPressure)
      count == ChunksToSend(pressure)
      queue == toClient \o Reply(count)
  IN
  /\ session.pc = "poll"
  /\ toSession # <<>>
  /\ toSession' = Tail(toSession)
  /\ IF Be64toh(Head(toSession)) = ExposureId
     THEN /\ session' = [session EXCEPT !.pull_pressure = pressure,
                           !.surface.bytes = Smallest(session.surface.total, session.surface.bytes
                             + Smallest(session.file, count * CHUNK_BYTES))]
          /\ toClient' = Queued(toClient, Reply(count))
          /\ clean' = (clean /\ Len(queue) <= SOCKET_QUEUE /\ count = FileChunks(session.file))
     ELSE UNCHANGED <<session, toClient, clean>>
  /\ UNCHANGED <<legacyHost, client, netFaults>>

\* rgtp_poll finds nothing: rgtp_session_wait_complete looks at progress and timeout.
WaitChecks ==
  /\ session.pc = "poll"
  /\ toSession = <<>>
  /\ session' = IF ProgressDone(session.surface) \/ Expired(session)
                THEN [session EXCEPT !.pc = "idle"] ELSE session
  /\ UNCHANGED <<legacyHost, client, toSession, toClient, netFaults, clean>>

SessionStep == PollRequest \/ WaitChecks

SessionDestroy ==
  /\ session.pc = "idle"
  /\ session' = [session EXCEPT !.pc = "destroyed", !.is_exposing = FALSE, !.surface = NoSurface]
  /\ UNCHANGED <<legacyHost, client, toSession, toClient, netFaults, clean>>

-----------------------------------------------------------------------------
(* The pulling client                                                      *)

Request == InMemory(legacyHost.id)

\* is_connected is set by a pull and never cleared.
MayPull == client.pc = "idle" /\ ~client.is_connected

\* rgtp_pull_start sends its burst, then the file or the buffer may be missing; else a
\* second burst goes out and the loop begins.
ClientPull(resources) ==
  LET burst == [i \in 1 .. (IF resources THEN 2 * REQUESTS ELSE REQUESTS) |-> Request] IN
  /\ MayPull
  /\ client.pulls < MaxPulls
  /\ toSession' = IF session.pc = "destroyed" THEN <<>> ELSE Queued(toSession, burst)
  /\ client' = [client EXCEPT !.is_connected = TRUE, !.pulls = client.pulls + 1,
                  !.pc = IF resources THEN "pulling" ELSE "idle",
                  !.active = resources, !.surface = NoSurface, !.written = <<>>, !.late = FALSE,
                  !.done = FALSE]
  /\ UNCHANGED <<legacyHost, session, toClient, netFaults, clean>>

\* Inside rgtp_pull_next: the manifest is noted and the next datagram is read.
PullManifest ==
  /\ client.pc = "pulling"
  /\ toClient # <<>>
  /\ Head(toClient).kind = "manifest"
  /\ client' = [client EXCEPT !.surface.total = Head(toClient).total]
  /\ toClient' = Tail(toClient)
  /\ UNCHANGED <<legacyHost, session, toSession, netFaults, clean>>

\* The rest of an iteration: complete, out of time, or on, with a request now and then.
LoopTail(c) ==
  LET counter == (c.counter + 1) % POLL_EVERY IN
  IF ProgressDone(c.surface) \/ Expired(c)
  THEN /\ client' = [c EXCEPT !.pc = "idle", !.done = ProgressDone(c.surface)]
       /\ UNCHANGED toSession
  ELSE /\ client' = [c EXCEPT !.counter = counter]
       /\ toSession' = IF counter = 0 /\ session.pc # "destroyed"
                       THEN Queued(toSession, <<Request>>) ELSE toSession

\* rgtp_pull_next returns a chunk, which goes to the end of the file.
PullChunk ==
  /\ client.pc = "pulling"
  /\ toClient # <<>>
  /\ Head(toClient).kind = "chunk"
  /\ toClient' = Tail(toClient)
  /\ LoopTail([client EXCEPT !.written = Append(client.written, Head(toClient).index),
                             !.surface.bytes = client.surface.bytes + Head(toClient).len])
  /\ UNCHANGED <<legacyHost, session, netFaults, clean>>

PullNothing ==
  /\ client.pc = "pulling"
  /\ toClient = <<>>
  /\ LoopTail(client)
  /\ UNCHANGED <<legacyHost, session, toClient, netFaults, clean>>

ClientStep == PullManifest \/ PullChunk \/ PullNothing

ClientDestroy ==
  /\ client.pc = "idle"
  /\ client' = [client EXCEPT !.pc = "destroyed", !.active = FALSE]
  /\ UNCHANGED <<legacyHost, session, toSession, toClient, netFaults, clean>>

-----------------------------------------------------------------------------
(* The network and the timeouts                                            *)

NetFault ==
  /\ netFaults < MaxNetFaults
  /\ toClient # <<>>
  /\ netFaults' = netFaults + 1
  /\ clean' = FALSE
  /\ \/ toClient' = Tail(toClient)
     \/ toClient' = Queued(<<Head(toClient)>>, toClient)
     \/ Len(toClient) > 1 /\ toClient' = <<toClient[2], toClient[1]>> \o SubSeq(toClient, 3, Len(toClient))
  /\ UNCHANGED <<legacyHost, session, client, toSession>>

\* The timeout of a call runs out.
SessionLate ==
  /\ legacyHost.timeout /\ session.pc = "poll" /\ ~session.late
  /\ session' = [session EXCEPT !.late = TRUE]
  /\ UNCHANGED <<legacyHost, client, toSession, toClient, netFaults, clean>>

ClientLate ==
  /\ legacyHost.timeout /\ client.pc = "pulling" /\ ~client.late
  /\ client' = [client EXCEPT !.late = TRUE]
  /\ UNCHANGED <<legacyHost, session, toSession, toClient, netFaults, clean>>

LegacyNext ==
  \/ \E size \in FileSizes, rate \in Rates, adaptive \in BOOLEAN : SessionExpose(size, rate, adaptive)
  \/ SessionWait \/ SessionStep \/ SessionDestroy
  \/ \E resources \in BOOLEAN : ClientPull(resources)
  \/ ClientStep \/ ClientDestroy
  \/ NetFault \/ SessionLate \/ ClientLate

LegacyFairness ==
  /\ WF_legacyVars(SessionStep) /\ WF_legacyVars(SessionLate)
  /\ WF_legacyVars(ClientStep) /\ WF_legacyVars(ClientLate)

LegacySpec == LegacyInit /\ [][LegacyNext]_legacyVars /\ LegacyFairness

LegacyTypeOK ==
  /\ session.pc \in {"idle", "poll", "destroyed"}
  /\ client.pc \in {"idle", "pulling", "destroyed"}
  /\ Len(toSession) <= SOCKET_QUEUE /\ Len(toClient) <= SOCKET_QUEUE

-----------------------------------------------------------------------------
(* Properties                                                              *)


\* With a timeout configured, rgtp_session_wait_complete and rgtp_client_pull_to_file
\* return, whatever the network does.
LegacyCallsReturn ==
  /\ (session.pc = "poll" /\ legacyHost.timeout) ~> (session.pc = "idle")
  /\ (client.pc = "pulling" /\ legacyHost.timeout) ~> (client.pc = "idle")
=============================================================================
