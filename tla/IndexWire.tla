------------------------------- MODULE IndexWire -------------------------------
(***************************************************************************)
(* The one named pipe between the app and the elevated index helper: the   *)
(* app's PipeServer (bb-shell/src/pipe.rs), a single instance that hosts   *)
(* one connection after another, and the bytes in flight on the newest     *)
(* connection.  A stream held by either side is the number of the          *)
(* connection it was opened on; a stream whose number is not the newest, or *)
(* whose end has been hung up, reads end-of-stream and swallows writes.    *)
(***************************************************************************)
EXTENDS Naturals, Sequences

CONSTANTS MaxConns,     \* bound: connections made over one behaviour
          MaxUnread,    \* bound: messages the pipe buffers before a write blocks
          Policies,     \* change-log policies; OffPolicy is a helper's own default
          OffPolicy,
          AppVersion    \* the protocol version this app speaks

ASSUME WireAssumption == MaxConns \in Nat \ {0} /\ MaxUnread \in Nat \ {0}
                         /\ OffPolicy \in Policies

VARIABLES
    conn,        \* the newest connection, 0 before the first
    listening,   \* the server: "idle", "pending" (a connect is posted),
                 \* "signalled" (a helper took it), "connected"
    peer,        \* the process id at the helper's end of conn
    appEnd,      \* the app's end of conn has not been hung up
    helperEnd,   \* the helper's end of conn is open
    toApp,       \* written by the helper, unread by the app
    toHelper,    \* written by the app, still in the kernel's buffer
    inbox        \* read by the helper's LineReader, not handled yet

wireVars == <<conn, listening, peer, appEnd, helperEnd, toApp, toHelper, inbox>>

Msg(verb, arg) == [verb |-> verb, arg |-> arg]

WireInit ==
    /\ conn = 0
    /\ listening = "idle"
    /\ peer = 0
    /\ appEnd = FALSE
    /\ helperEnd = FALSE
    /\ toApp = <<>>
    /\ toHelper = <<>>
    /\ inbox = <<>>

\* A stream both ends of which are still up.
Open(s) == s # 0 /\ s = conn /\ appEnd /\ helperEnd

\* What the helper's end still holds once the app has hung up: an orderly
\* disconnect of a pipe discards what its client has not read.
HungUp == /\ appEnd' = FALSE
          /\ toHelper' = <<>>

\* PipeSession::close on a session of this connection; closing a stale one, or
\* one already closed, does nothing.
CloseStream(s) ==
    IF s = conn /\ s # 0 /\ appEnd
    THEN HungUp /\ UNCHANGED <<conn, listening, peer, helperEnd, toApp, inbox>>
    ELSE UNCHANGED wireVars

\* A write by the app.  A helper parked in its read (parked) is handed the bytes
\* at once; otherwise they wait in the buffer.
Delivered(s, msgs, parked) ==
    IF ~Open(s) THEN UNCHANGED <<toHelper, inbox>>
    ELSE IF parked /\ inbox = <<>> /\ toHelper = <<>>
         THEN inbox' = msgs /\ UNCHANGED toHelper
         ELSE /\ Len(toHelper) < MaxUnread
              /\ toHelper' = toHelper \o msgs /\ UNCHANGED inbox

AppWrite(s, msgs, parked) ==
    /\ Delivered(s, msgs, parked)
    /\ UNCHANGED <<conn, listening, peer, appEnd, helperEnd, toApp>>

\* PipeServer::accept with no connect posted: whoever held the pipe last is let
\* go, then a connect is posted.  A connect left over from an earlier accept that
\* timed out is waited on instead.
PostConnect ==
    IF listening \in {"pending", "signalled"}
    THEN UNCHANGED wireVars
    ELSE /\ listening' = "pending"
         /\ HungUp
         /\ UNCHANGED <<conn, peer, helperEnd, toApp, inbox>>

\* PipeServer::accept after the connect signalled, for a peer that passes the check.
TakeConnection == /\ listening = "signalled"
                  /\ listening' = "connected"
                  /\ UNCHANGED <<conn, peer, appEnd, helperEnd, toApp, toHelper, inbox>>

\* ... and for one that does not: it is hung up on.
RefuseConnection == /\ listening = "signalled"
                    /\ listening' = "idle"
                    /\ HungUp
                    /\ UNCHANGED <<conn, peer, helperEnd, toApp, inbox>>

\* PipeClient::connect by helper process h.
HelperConnect(h) ==
    /\ listening = "pending"
    /\ conn < MaxConns
    /\ conn' = conn + 1
    /\ listening' = "signalled"
    /\ peer' = h
    /\ appEnd' = TRUE
    /\ helperEnd' = TRUE
    /\ toApp' = <<>>
    /\ toHelper' = <<>>
    /\ inbox' = <<>>

\* The helper drops its end after a last word: what it wrote can still be read, what was
\* sent to it is gone.
HelperHangUp(last) ==
    /\ toApp' = IF appEnd THEN toApp \o last ELSE toApp
    /\ helperEnd' = FALSE
    /\ toHelper' = <<>>
    /\ inbox' = <<>>
    /\ UNCHANGED <<conn, listening, peer, appEnd>>

\* The helper's reader takes what the buffer holds.
HelperFill == /\ helperEnd /\ inbox = <<>> /\ toHelper # <<>>
              /\ inbox' = toHelper
              /\ toHelper' = <<>>
              /\ UNCHANGED <<conn, listening, peer, appEnd, helperEnd, toApp>>
================================================================================
