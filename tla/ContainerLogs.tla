---------------------------- MODULE ContainerLogs ----------------------------
(***************************************************************************)
(* remotelogs: docker logs of one container over an open SSH connection.   *)
(* The two streams are copied by two goroutines, each in a buffer that     *)
(* keeps its last MaxLogBytes bytes.  A byte is its position in the        *)
(* stream, so a buffer's content says which bytes were kept.               *)
(***************************************************************************)
EXTENDS Naturals, Sequences

CONSTANTS
    MaxLogBytes,    \* the limit of one stream
    MaxChunk,       \* the largest Write: io.Copy has a buffer of 32 KiB
    MaxStream       \* bound: how much a container has logged in one stream

ASSUME LogLimits == MaxLogBytes \in Nat /\ MaxChunk \in Nat /\ MaxStream \in Nat
ASSUME ChunkFits == MaxChunk < MaxLogBytes

VARIABLES
    docker,         \* what docker logs meets on the host
    withStderr,     \* Params.IncludeStderr
    logs            \* the collection: where it is, its buffers, its answer

logVars == <<docker, withStderr, logs>>

Streams == {"stdout", "stderr"}

\* Complaint: how docker logs ends that cannot start; on stderr, in words the
\* collector knows.
Complaint == {"no-such-container", "permission-denied", "daemon-down"}
DockerState == {"ok", "no-cli"} \cup Complaint

-----------------------------------------------------------------------------
(* The tail buffer. *)

NewTailWriter == [buf |-> <<>>, total |-> 0, truncated |-> FALSE]

\* Bytes a+1 .. b of a stream.
Bytes(a, b) == [i \in 1..(b - a) |-> a + i]

\* The last k elements of a sequence.
LastOf(s, k) == [i \in 1..k |-> s[Len(s) - k + i]]

\* Variant of Write: what is kept of the old content is its front.
WriteKeepingHead(w, n) ==
    LET kept == IF Len(w.buf) + n > MaxLogBytes THEN SubSeq(w.buf, 1, MaxLogBytes - n) ELSE w.buf
    IN [buf |-> kept \o Bytes(w.total, w.total + n), total |-> w.total + n,
        truncated |-> w.truncated \/ Len(w.buf) + n > MaxLogBytes]

\* tailWriter.Write of the next n bytes: a chunk that fills the buffer replaces
\* it, one that does not fit beside the content pushes the oldest bytes out.
Write(w, n) ==
    LET chunk == Bytes(w.total, w.total + n)
        After(buf, cut) == [buf |-> buf, total |-> w.total + n, truncated |-> w.truncated \/ cut]
    IN IF n = 0 THEN w
       ELSE IF n >= MaxLogBytes THEN After(LastOf(chunk, MaxLogBytes), TRUE)
       ELSE IF Len(w.buf) + n > MaxLogBytes
            THEN After(LastOf(w.buf, MaxLogBytes - n) \o chunk, TRUE)
       ELSE After(w.buf \o chunk, FALSE)

-----------------------------------------------------------------------------
(* The collection. *)

NoLogs == [pc |-> "probe", said |-> "nothing", answer |-> "none",
           out |-> [s \in Streams |-> NewTailWriter]]

LogsInit ==
    /\ docker \in DockerState
    /\ withStderr \in BOOLEAN
    /\ logs = NoLogs

LogsAt(pc) == logs.pc = pc
LogsEnd(answer) == logs' = [logs EXCEPT !.pc = "done", !.answer = answer]

\* runProbeDocker: a lost session and a cancelled request read like no docker.
LogsProbe ==
    /\ LogsAt("probe")
    /\ UNCHANGED <<docker, withStderr>>
    /\ \/ docker # "no-cli" /\ logs' = [logs EXCEPT !.pc = "start"]
       \/ LogsEnd("cli-not-found")

\* runDockerLogs opens its session and starts the command.  If it cannot, for
\* the request was cancelled or the connection is gone, it returns no buffers,
\* and Collect takes the content of one: a panic that ends the handler.
LogsStart ==
    /\ LogsAt("start")
    /\ UNCHANGED <<docker, withStderr>>
    /\ \/ logs' = [logs EXCEPT !.pc = "stream"]
       \/ logs' = [logs EXCEPT !.pc = "panicked"]

\* One chunk of a stream arrives; without IncludeStderr the other stream is
\* discarded.
LogsChunk(s, n) ==
    /\ LogsAt("stream") /\ docker = "ok"
    /\ s = "stdout" \/ withStderr
    /\ logs.out[s].total + n <= MaxStream
    /\ logs' = [logs EXCEPT !.out[s] = Write(@, n)]
    /\ UNCHANGED <<docker, withStderr>>

\* The container itself logs one of the texts the collector looks for.
LogsQuote(text) ==
    /\ LogsAt("stream") /\ docker = "ok" /\ withStderr /\ logs.said = "nothing"
    /\ logs' = [logs EXCEPT !.said = text]
    /\ UNCHANGED <<docker, withStderr>>

\* docker logs cannot start: it says why on stderr and exits with an error.
LogsComplain ==
    /\ LogsAt("stream") /\ docker \in Complaint
    /\ logs' = [logs EXCEPT !.pc = "ended", !.said = IF withStderr THEN docker ELSE @]
    /\ UNCHANGED <<docker, withStderr>>

\* The command ends without an error ...
LogsExit ==
    /\ LogsAt("stream") /\ docker = "ok"
    /\ LogsEnd("available")
    /\ UNCHANGED <<docker, withStderr>>

\* ... or with one: another exit code, or the connection is lost.
LogsBreak ==
    /\ LogsAt("stream")
    /\ logs' = [logs EXCEPT !.pc = "ended"]
    /\ UNCHANGED <<docker, withStderr>>

\* The error of the command is judged by what stderr says.
LogsJudge ==
    /\ LogsAt("ended")
    /\ LogsEnd(IF logs.said \in Complaint THEN logs.said ELSE "exited-with-error")
    /\ UNCHANGED <<docker, withStderr>>

LogsNext ==
    \/ LogsProbe \/ LogsStart \/ LogsComplain \/ LogsExit \/ LogsBreak \/ LogsJudge
    \/ \E s \in Streams, n \in 0..MaxChunk : LogsChunk(s, n)
    \/ \E text \in Complaint : LogsQuote(text)

-----------------------------------------------------------------------------
(* Properties *)

TailWriterOK(w) ==
    /\ w.total \in Nat
    /\ w.truncated \in BOOLEAN
    /\ w.buf \in Seq(1..w.total)
    /\ Len(w.buf) <= MaxLogBytes

LogsTypeOK ==
    /\ docker \in DockerState
    /\ withStderr \in BOOLEAN
    /\ logs.pc \in {"probe", "start", "stream", "ended", "panicked", "done"}
    /\ logs.said \in Complaint \cup {"nothing"}
    /\ logs.answer \in Complaint \cup {"none", "available", "cli-not-found", "exited-with-error"}
    /\ \A s \in Streams : TailWriterOK(logs.out[s])

\* However a stream is cut into chunks, the answer holds exactly its last
\* MaxLogBytes bytes, in order, and says that something is missing exactly
\* when it is (tailWriter.Write; Result: "TruncatedStdout: true if
\* BytesStdout > MaxLogBytes").
TailExact ==
    \A s \in Streams :
        LET w == logs.out[s]
            first == IF w.total > MaxLogBytes THEN w.total - MaxLogBytes ELSE 0
        IN /\ w.buf = Bytes(first, w.total)
           /\ w.truncated <=> w.total > MaxLogBytes

\* "Never returns an error, all problems are put in Result" (Collect): the
\* handler survives whatever happens to the connection.
AlwaysAnswers == logs.pc # "panicked"
=============================================================================
