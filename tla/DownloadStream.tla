---- MODULE DownloadStream ----
(***************************************************************************)
(* A download in the browser without the file in memory: the page reads    *)
(* the response and hands chunks to a service worker over a message        *)
(* channel, the worker offers them as a stream under a URL of its own, and *)
(* a hidden frame makes the browser save what it finds there.              *)
(*                                                                         *)
(* The stream takes one chunk ahead of its reader (the default of          *)
(* ReadableStream): it pulls when it is empty and no pull is pending.      *)
(* Messages of a channel arrive in order; what is on the way to a port     *)
(* that is closed is lost.                                                 *)
(***************************************************************************)
EXTENDS Naturals, Sequences

CONSTANTS Chunks   \* pieces the response is read in

\* What a suite states as its ASSUME.
Assumptions == Chunks \in Nat

VARIABLES
  page,      \* downloadStream: "waiting" for its promise; its outcome
  reading,   \* a pull waits for reader.read()
  sent,      \* chunks read from the response
  toWorker, toPage,   \* messages on their way
  (* the worker *)
  port,      \* its end of the channel
  offered,   \* the id is in transfers
  timer,     \* the timeout is armed
  stream, queue, pulling,   \* the stream, its chunks, and whether pull's promise is pending
  terminated,   \* the browser has stopped the worker
  (* the browser *)
  frame,     \* the request of the frame and the download it becomes
  saved      \* chunks taken from the stream

pageVars   == <<page, reading, sent>>
workerVars == <<port, offered, timer, stream, queue, pulling, terminated>>
frameVars  == <<frame, saved>>
vars == <<pageVars, toWorker, toPage, workerVars, frameVars>>

Told(t)  == [type |-> t, chunk |-> 0]
Chunk(k) == [type |-> "chunk", chunk |-> k]
Message  == [type : {"download", "chunk", "error", "done"}, chunk : 0..Chunks]

TypeOK ==
  /\ page \in {"starting", "waiting", "done", "failed", "cancelled", "closed"}
  /\ reading \in BOOLEAN /\ sent \in 0..Chunks
  /\ toWorker \in Seq(Message) /\ Len(toWorker) <= 3
  /\ toPage \in Seq({"ready", "pull", "finished", "cancel"}) /\ Len(toPage) <= 3
  /\ port \in {"none", "open", "closed"} /\ offered \in BOOLEAN /\ timer \in BOOLEAN
  /\ stream \in {"none", "readable", "closed", "errored"}
  /\ queue \in Seq(1..Chunks) /\ Len(queue) <= 1
  /\ pulling \in BOOLEAN /\ terminated \in BOOLEAN
  /\ frame \in {"none", "asked", "saving", "expired", "complete", "broken", "quit"}
  /\ saved \in Seq(1..Chunks) /\ Len(saved) <= Chunks

Init ==
  /\ page = "starting" /\ reading = FALSE /\ sent = 0
  /\ toWorker = <<>> /\ toPage = <<>>
  /\ port = "none" /\ offered = FALSE /\ timer = FALSE
  /\ stream = "none" /\ queue = <<>> /\ pulling = FALSE /\ terminated = FALSE
  /\ frame = "none" /\ saved = <<>>

ToWorker(m) == toWorker' = IF port = "closed" THEN <<>> ELSE Append(toWorker, m)
ToPage(m)   == toPage' = IF page = "waiting" THEN Append(toPage, m) ELSE <<>>

-----------------------------------------------------------------------------
(* downloadStream *)

\* The worker is there, the response has come, and the port goes to the worker.
Begin ==
  /\ page = "starting" /\ page' = "waiting"
  /\ ToWorker(Told("download"))
  /\ UNCHANGED <<reading, sent, toPage, workerVars, frameVars>>

\* No worker, no response, an error of the server, or a cancellation by the user.
BeginFails ==
  /\ page = "starting" /\ page' \in {"failed", "cancelled"}
  /\ UNCHANGED <<reading, sent, toWorker, toPage, workerVars, frameVars>>

\* finish: the promise is settled, the port closed and the response given up.
Settle(outcome) ==
  /\ page' = outcome /\ reading' = FALSE /\ toPage' = <<>>

Abort ==
  /\ page = "waiting"
  /\ Settle("cancelled") /\ ToWorker(Told("error"))
  /\ UNCHANGED <<sent, workerVars, frameVars>>

\* The user closes the page: nobody is told.
ClosePage ==
  /\ page \in {"starting", "waiting"}
  /\ Settle("closed")
  /\ frame' = IF frame = "asked" THEN "none" ELSE frame
  /\ UNCHANGED <<sent, toWorker, workerVars, saved>>

Ready ==
  /\ toPage # <<>> /\ Head(toPage) = "ready"
  /\ frame' = "asked" /\ toPage' = Tail(toPage)
  /\ UNCHANGED <<pageVars, toWorker, workerVars, saved>>

Pulled ==
  /\ toPage # <<>> /\ Head(toPage) = "pull"
  /\ reading' = TRUE /\ toPage' = Tail(toPage)
  /\ UNCHANGED <<page, sent, toWorker, workerVars, frameVars>>

\* reader.read(): the next chunk, or the end of the response.
Read ==
  /\ reading /\ reading' = FALSE
  /\ IF sent < Chunks
     THEN sent' = sent + 1 /\ ToWorker(Chunk(sent'))
     ELSE sent' = sent /\ ToWorker(Told("done"))
  /\ UNCHANGED <<page, toPage, workerVars, frameVars>>

\* The connection breaks before all that Content-Length announced has come.
ReadFails ==
  /\ reading
  /\ Settle("failed") /\ ToWorker(Told("error"))
  /\ UNCHANGED <<sent, workerVars, frameVars>>

Finished ==
  /\ toPage # <<>> /\ Head(toPage) = "finished"
  /\ Settle("done")
  /\ UNCHANGED <<sent, toWorker, workerVars, frameVars>>

Cancelled ==
  /\ toPage # <<>> /\ Head(toPage) = "cancel"
  /\ Settle("cancelled")
  /\ UNCHANGED <<sent, toWorker, workerVars, frameVars>>

\* A second after the end of the promise.
RemoveFrame ==
  /\ page \notin {"starting", "waiting"} /\ frame = "asked"
  /\ frame' = "none"
  /\ UNCHANGED <<pageVars, toWorker, toPage, workerVars, saved>>

-----------------------------------------------------------------------------
(* transfer-worker.js *)

\* The message event.  The new stream pulls at once, before any other event.
Offer ==
  /\ toWorker # <<>> /\ Head(toWorker).type = "download" /\ toWorker' = Tail(toWorker)
  /\ port' = "open" /\ offered' = TRUE /\ timer' = TRUE
  /\ stream' = "readable" /\ pulling' = TRUE
  /\ toPage' = IF page = "waiting" THEN toPage \o <<"ready", "pull">> ELSE <<>>
  /\ UNCHANGED <<pageVars, queue, terminated, frameVars>>

\* Mutant: the worker asks for more before the browser has taken what it has.
EnqueueAhead ==
  /\ port = "open" /\ toWorker # <<>> /\ Head(toWorker).type = "chunk"
  /\ queue' = Append(queue, Head(toWorker).chunk) /\ toWorker' = Tail(toWorker)
  /\ ToPage("pull")
  /\ UNCHANGED <<pageVars, port, offered, timer, stream, pulling, terminated, frameVars>>

Enqueue ==
  /\ port = "open" /\ toWorker # <<>> /\ Head(toWorker).type = "chunk"
  /\ queue' = Append(queue, Head(toWorker).chunk) /\ toWorker' = Tail(toWorker)
  /\ pulling' = FALSE /\ timer' = TRUE
  /\ UNCHANGED <<pageVars, toPage, port, offered, stream, terminated, frameVars>>

\* cleanup and port.close().
Cleanup ==
  /\ offered' = FALSE /\ timer' = FALSE /\ pulling' = FALSE
  /\ port' = "closed" /\ toWorker' = <<>>

Done ==
  /\ port = "open" /\ toWorker # <<>> /\ Head(toWorker).type = "done"
  /\ stream' = "closed" /\ Cleanup /\ ToPage("finished")
  /\ UNCHANGED <<pageVars, queue, terminated, frameVars>>

\* controller.error drops what the browser has not taken.
Interrupted ==
  /\ port = "open" /\ toWorker # <<>> /\ Head(toWorker).type = "error"
  /\ stream' = "errored" /\ queue' = <<>> /\ Cleanup
  /\ UNCHANGED <<pageVars, toPage, terminated, frameVars>>

\* Mutant: the page is not told.
TimeOutSilent ==
  /\ timer
  /\ stream' = "errored" /\ queue' = <<>> /\ Cleanup
  /\ UNCHANGED <<pageVars, toPage, terminated, frameVars>>

\* Half a minute without a pull or a message.
TimeOut ==
  /\ timer
  /\ stream' = "errored" /\ queue' = <<>> /\ Cleanup /\ ToPage("cancel")
  /\ UNCHANGED <<pageVars, terminated, frameVars>>

\* The fetch event of the frame.
Fetch ==
  /\ frame = "asked"
  /\ frame' = IF offered THEN "saving" ELSE "expired"
  /\ offered' = FALSE
  /\ UNCHANGED <<pageVars, toWorker, toPage, port, timer, stream, queue, pulling, terminated,
                 saved>>

-----------------------------------------------------------------------------
(* The browser *)

\* It takes a chunk, and the stream pulls the next.
Take ==
  /\ frame = "saving" /\ queue # <<>>
  /\ saved' = Append(saved, Head(queue)) /\ queue' = Tail(queue)
  /\ IF stream = "readable" /\ ~pulling
     THEN pulling' = TRUE /\ timer' = TRUE /\ ToPage("pull")
     ELSE UNCHANGED <<pulling, timer, toPage>>
  /\ UNCHANGED <<pageVars, toWorker, port, offered, stream, terminated, frame>>

\* It sees the end of the stream.
End ==
  /\ frame = "saving" /\ queue = <<>> /\ stream \in {"closed", "errored"}
  /\ frame' = IF stream = "closed" THEN "complete" ELSE "broken"
  /\ UNCHANGED <<pageVars, toWorker, toPage, workerVars, saved>>

\* The user cancels it in the browser's list of downloads.
Quit ==
  /\ frame = "saving" /\ frame' = "quit"
  /\ queue' = <<>>
  /\ IF stream = "readable"
     THEN stream' = "errored" /\ Cleanup /\ ToPage("cancel")
     ELSE UNCHANGED <<stream, offered, timer, pulling, port, toWorker, toPage>>
  /\ UNCHANGED <<pageVars, terminated, saved>>

\* It stops the worker, which it may do to save resources.
Terminate ==
  /\ port = "open" /\ terminated' = TRUE
  /\ stream' = "errored" /\ queue' = <<>> /\ Cleanup
  /\ UNCHANGED <<pageVars, toPage, frameVars>>

-----------------------------------------------------------------------------
Page   == Ready \/ Pulled \/ Read \/ Finished \/ Cancelled
Worker == Offer \/ Enqueue \/ Done \/ Interrupted

Next ==
  \/ Begin \/ BeginFails \/ Abort \/ ClosePage \/ Page \/ ReadFails \/ RemoveFrame
  \/ Worker \/ TimeOut \/ Fetch
  \/ Take \/ End \/ Quit \/ Terminate

Spec == Init /\ [][Next]_vars

\* Messages are delivered, the timer runs out, and the browser goes through with the
\* request it was given and sees the end of a stream.  Nobody has to read: neither
\* the server has to send nor the browser to take anything.
Fairness ==
  /\ WF_vars(Ready \/ Pulled \/ Finished \/ Cancelled)
  /\ WF_vars(Worker) /\ WF_vars(TimeOut) /\ WF_vars(Fetch) /\ WF_vars(End)

-----------------------------------------------------------------------------
(* Correctness *)

\* When the page says that a download is done, the browser has been given the whole
\* file, in order (docs/VERIFICATION.md: "byte for byte the same").
DoneIsWhole ==
  page = "done" =>
    /\ frame \in {"saving", "complete", "quit"}
    /\ saved = [i \in 1..Chunks |-> i]

\* A download ends on both sides, whoever gives it up and even if nothing more comes
\* or is taken; only a worker that the browser stops leaves the page waiting.
DownloadEnds ==
  page = "waiting" ~>
    \/ terminated
    \/ page # "waiting" /\ frame \notin {"asked", "saving"}
====
