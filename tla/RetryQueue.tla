------------------------------- MODULE RetryQueue ------------------------------
(***************************************************************************)
(* The gateway hook (gateway_dispatch.c) and its cache queue               *)
(* (cache_queue.c).  The hook sends a message on to the servers behind the *)
(* gateway; when they refuse it for the moment it is saved in a file, and  *)
(* the thread of the cache queue tries again on every pass over the        *)
(* directory, until the message is delivered or bounced.                   *)
(*                                                                         *)
(* The first word of a file counts the attempts; it is 0 while the file is *)
(* being written.                                                          *)
(***************************************************************************)
EXTENDS Transporter

CONSTANTS
  NoFile,
  Retries,   \* g_retrying_times
  MaxMessID  \* bound: IDs of files in a behaviour

\* What a file holds: a message and the number of attempts.
File == [msg : Msg, times : 0..Retries]

ASSUME RetryQueueAssumption ==
  /\ Retries \in Nat \ {0} /\ MaxMessID \in Nat
  /\ NoFile \notin File

VARIABLES
  files,      \* files[i]: the file with ID i
  g_mess_id,
  writing,    \* writing[t]: the ID of the file that thread t writes, or 0
  cpc,        \* where the cache queue thread is
  todo,       \* the IDs that its pass over the directory has still to come to
  cfile,      \* the file it looks at
  cwhole,     \* the file was complete when stat gave its size; then: cmsg is whole
  cmsg,       \* the message it has read from it
  delivered,  \* mails that a server has acknowledged
  bounced,    \* mails that a bounce has been queued for
  given_up,   \* mails that the code gives up: see GiveUp
  mangled     \* mails that have been read cut and are done with as if they were not

cacheVars   == <<cpc, todo, cfile, cwhole, cmsg>>
outcomeVars == <<delivered, bounced, given_up, mangled>>
retryVars   == <<files, g_mess_id, writing, cacheVars, outcomeVars>>

IDs == 1..MaxMessID
FileIDs == {i \in IDs : files[i] # NoFile}
Complete == {i \in FileIDs : files[i].times > 0}

RetryTypeOK ==
  /\ files \in [IDs -> File \cup {NoFile}]
  /\ g_mess_id \in 0..MaxMessID
  /\ writing \in [Thread -> 0..MaxMessID]
  /\ cpc \in {"rest", "next", "read", "dispatch", "remove", "bounce", "signal"}
  /\ todo \subseteq IDs /\ cfile \in 0..MaxMessID
  /\ cwhole \in BOOLEAN
  /\ cmsg \in Msg \cup {NoMsg}
  /\ delivered \subseteq Mail /\ bounced \subseteq Mail /\ given_up \subseteq Mail
  /\ mangled \subseteq Mail

RetryInit ==
  /\ files = [i \in IDs |-> NoFile]
  /\ g_mess_id = 0
  /\ writing = [t \in Thread |-> 0]
  /\ cpc = "rest" /\ todo = {} /\ cfile = 0 /\ cwhole = FALSE /\ cmsg = NoMsg
  /\ delivered = {} /\ bounced = {} /\ given_up = {} /\ mangled = {}

\* cache_queue_run finds the greatest ID in the directory; files stay as they
\* are, complete or not.
RetryRestart ==
  /\ g_mess_id' \in {n \in FileIDs \cup {0} : \A i \in FileIDs : i <= n}
  /\ writing' = [t \in Thread |-> 0]
  /\ cpc' = "rest" /\ todo' = {} /\ cfile' = 0 /\ cwhole' = FALSE /\ cmsg' = NoMsg
  /\ UNCHANGED <<files, outcomeVars>>

MailIn(msg) == IF msg.bounce THEN {} ELSE {msg.mail}

\* A message that is neither delivered nor bounced nor kept, as the code has it:
\* bounces are never bounced, the bounce policy may be against it, there may be no
\* context for the bounce, a file that cannot be written is only logged, and a
\* message that no hook takes is saved for the administrator.
GiveUp(msg) ==
  given_up' = given_up \cup MailIn(msg) /\ UNCHANGED <<delivered, bounced, mangled>>

Deliver(msg) ==
  delivered' = delivered \cup MailIn(msg) /\ UNCHANGED <<bounced, given_up, mangled>>

Mangle(msg) ==
  mangled' = mangled \cup MailIn(msg) /\ UNCHANGED <<delivered, bounced, given_up>>

\* need_bounce is FALSE in a bounce.
Bounce(msg) ==
  /\ ~msg.bounce
  /\ Enqueue([mail |-> msg.mail, bounce |-> TRUE])
  /\ bounced' = bounced \cup {msg.mail}
  /\ UNCHANGED <<delivered, given_up, mangled>>

-----------------------------------------------------------------------------
(* gateway_dispatch_hook, in a thread of the transporter.                  *)

\* smtp_dispatch_process: SMTP_DISPATCH_OK.
HookDelivers(t) ==
  /\ pc[t] = "hook"
  /\ Deliver(item[t])
  /\ Goto(t, "put")
  /\ UNCHANGED <<sourceVars, poolVars, item, cannot_served_times, contextVars,
                 unheard, files, g_mess_id, writing, cacheVars>>

\* SMTP_DISPATCH_TEMP_ERROR: cache_queue_put.  The server may have the mail all the
\* same, when it is its reply to the final dot that was lost: it gets it again.
HookDefers(t) ==
  /\ pc[t] = "hook"
  /\ Goto(t, "open")
  /\ UNCHANGED <<sourceVars, poolVars, item, cannot_served_times, contextVars,
                 unheard, retryVars>>

\* SMTP_DISPATCH_NO_USER, SMTP_DISPATCH_PERMANENT_ERROR.
HookBounces(t) ==
  /\ pc[t] = "hook"
  /\ Bounce(item[t])
  /\ Goto(t, "signal")
  /\ UNCHANGED <<sourceVars, poolVars, item, cannot_served_times, unheard, files,
                 g_mess_id, writing, cacheVars>>

HookGivesUp(t) ==
  /\ pc[t] = "hook"
  /\ GiveUp(item[t])
  /\ Goto(t, "put")
  /\ UNCHANGED <<sourceVars, poolVars, item, cannot_served_times, contextVars,
                 unheard, files, g_mess_id, writing, cacheVars>>

HookSignal(t) ==
  /\ pc[t] = "signal"
  /\ WakeOne({t}, "put")
  /\ UNCHANGED <<sourceVars, poolVars, item, cannot_served_times, contextVars,
                 retryVars>>

\* The file is made, with 0 attempts; part of the mail may be in it.
OpenFile(t) ==
  /\ pc[t] = "open"
  /\ g_mess_id < MaxMessID
  /\ g_mess_id' = g_mess_id + 1
  /\ files' = [files EXCEPT
                 ![g_mess_id'] = [msg |-> item[t], times |-> 0]]
  /\ writing' = [writing EXCEPT ![t] = g_mess_id']
  /\ Goto(t, "write")
  /\ UNCHANGED <<sourceVars, poolVars, item, cannot_served_times, contextVars,
                 unheard, cacheVars, outcomeVars>>

\* Mutant: the 0 is never overwritten.
LeaveZero(t) ==
  /\ pc[t] = "write"
  /\ writing' = [writing EXCEPT ![t] = 0]
  /\ Goto(t, "put")
  /\ UNCHANGED <<sourceVars, poolVars, item, cannot_served_times, contextVars,
                 unheard, files, g_mess_id, cacheVars, outcomeVars>>

\* The rest is written, and last of all the 1 over the 0.
CommitFile(t) ==
  /\ pc[t] = "write"
  /\ files' = [files EXCEPT ![writing[t]].times = 1]
  /\ writing' = [writing EXCEPT ![t] = 0]
  /\ Goto(t, "put")
  /\ UNCHANGED <<sourceVars, poolVars, item, cannot_served_times, contextVars,
                 unheard, g_mess_id, cacheVars, outcomeVars>>

\* The file cannot be made, or a write fails and it is removed, or even stays: the
\* hook logs that and takes the mail for handled.
SaveFails(t) ==
  /\ pc[t] \in {"open", "write"}
  /\ files' \in {files,
                 [i \in IDs |-> IF i = writing[t] THEN NoFile ELSE files[i]]}
  /\ writing' = [writing EXCEPT ![t] = 0]
  /\ GiveUp(item[t])
  /\ Goto(t, "put")
  /\ UNCHANGED <<sourceVars, poolVars, item, cannot_served_times, contextVars,
                 unheard, g_mess_id, cacheVars>>

Hook(t) ==
  \/ HookDelivers(t) \/ HookDefers(t) \/ HookBounces(t) \/ HookGivesUp(t)
  \/ HookSignal(t)
  \/ OpenFile(t) \/ CommitFile(t) \/ SaveFails(t)

-----------------------------------------------------------------------------
(* The thread of the cache queue.                                          *)

CacheGoto(s) == cpc' = s

StartPass ==
  /\ cpc = "rest"
  /\ todo' = FileIDs
  /\ CacheGoto("next")
  /\ UNCHANGED <<transVars, files, g_mess_id, writing, cfile, cwhole, cmsg,
                 outcomeVars>>

EndPass ==
  /\ cpc = "next" /\ todo = {}
  /\ CacheGoto("rest")
  /\ UNCHANGED <<transVars, files, g_mess_id, writing, todo, cfile, cwhole, cmsg,
                 outcomeVars>>

\* readdir, stat and open; the directory has no order.
StatFile(i) ==
  /\ cpc = "next" /\ i \in todo
  /\ todo' = todo \ {i}
  /\ IF files[i] = NoFile
     THEN UNCHANGED <<cpc, cfile, cwhole>>
     ELSE CacheGoto("read") /\ cfile' = i /\ cwhole' = (i \in Complete)
  /\ UNCHANGED <<transVars, files, g_mess_id, writing, cmsg, outcomeVars>>

Skip == CacheGoto("next") /\ cfile' = 0 /\ cwhole' = FALSE

\* As many bytes are read as stat has said, and all that follows is taken from
\* them: a file finished since then is read cut, unless only the 1 was missing.
ReadSize == cwhole' \in {TRUE, cwhole}

ReadFile ==
  /\ cpc = "read"
  /\ cfile \in Complete
  /\ cmsg' = files[cfile].msg
  /\ ReadSize
  /\ CacheGoto("dispatch")
  /\ UNCHANGED <<transVars, files, g_mess_id, writing, todo, cfile, outcomeVars>>

\* 0 attempts; or open, a read, malloc or mail_retrieve fails, as it may on a file
\* that is cut, but need not.
SkipFile ==
  /\ cpc = "read"
  /\ Skip
  /\ UNCHANGED <<transVars, files, g_mess_id, writing, todo, cmsg, outcomeVars>>

CacheDelivers ==
  /\ cpc = "dispatch"
  /\ IF cwhole THEN Deliver(cmsg) ELSE Mangle(cmsg)
  /\ CacheGoto("remove")
  /\ UNCHANGED <<transVars, files, g_mess_id, writing, todo, cfile, cwhole, cmsg>>

\* Mutant: the limit is not looked at.
NoLimit == TRUE

TriesLeft == files[cfile].times < Retries

\* A temporary error: one more attempt is counted, at most Retries, unless the
\* write of the count fails, which is only logged.
CacheDefers ==
  /\ cpc = "dispatch"
  /\ TriesLeft
  /\ files' \in {files,
       [files EXCEPT ![cfile].times = IF @ < Retries THEN @ + 1 ELSE @]}
  /\ cmsg' = NoMsg
  /\ Skip
  /\ UNCHANGED <<transVars, g_mess_id, writing, todo, outcomeVars>>

\* A permanent error, or one time too many: the file is removed, and then bounced.
CacheRefused ==
  /\ cpc = "dispatch"
  /\ files' = [files EXCEPT ![cfile] = NoFile]
  /\ IF cwhole THEN UNCHANGED outcomeVars ELSE Mangle(cmsg)
  /\ CacheGoto("bounce")
  /\ UNCHANGED <<transVars, g_mess_id, writing, todo, cfile, cwhole, cmsg>>

\* Mutant: the file of a message that is delivered stays.
RemoveNothing == UNCHANGED files

RemoveFile == files' = [files EXCEPT ![cfile] = NoFile]

CacheRemoves ==
  /\ cpc = "remove"
  /\ RemoveFile
  /\ cmsg' = NoMsg
  /\ Skip
  /\ UNCHANGED <<transVars, g_mess_id, writing, todo, outcomeVars>>

\* remove() fails, which nobody looks at: the file stays, and what is to follow
\* follows all the same.
RemoveFails ==
  /\ \/ cpc = "remove" /\ cmsg' = NoMsg /\ Skip
     \/ cpc = "dispatch" /\ CacheGoto("bounce") /\ UNCHANGED <<cfile, cwhole, cmsg>>
  /\ UNCHANGED <<transVars, files, g_mess_id, writing, todo, outcomeVars>>

\* need_bounce of a message read cut is whatever was in the memory.
BounceCut(msg) ==
  Enqueue([mail |-> msg.mail, bounce |-> TRUE]) /\ UNCHANGED outcomeVars

CacheBounces ==
  /\ cpc = "bounce"
  /\ IF cwhole THEN Bounce(cmsg) ELSE BounceCut(cmsg)
  /\ CacheGoto("signal")
  /\ UNCHANGED <<sourceVars, poolVars, threadVars, unheard, files, g_mess_id,
                 writing, todo, cfile, cwhole, cmsg>>

CacheGivesUp ==
  /\ cpc = "bounce"
  /\ IF cwhole THEN GiveUp(cmsg) ELSE UNCHANGED outcomeVars
  /\ cmsg' = NoMsg
  /\ Skip
  /\ UNCHANGED <<transVars, files, g_mess_id, writing, todo>>

CacheSignal ==
  /\ cpc = "signal"
  /\ WakeOne({}, "get")
  /\ cmsg' = NoMsg
  /\ Skip
  /\ UNCHANGED <<sourceVars, poolVars, item, cannot_served_times, contextVars,
                 files, g_mess_id, writing, todo, outcomeVars>>

CacheThread ==
  \/ StartPass \/ EndPass
  \/ \E i \in IDs : StatFile(i)
  \/ ReadFile \/ SkipFile
  \/ CacheDelivers \/ CacheDefers \/ CacheRefused \/ CacheRemoves
  \/ CacheBounces \/ CacheGivesUp \/ CacheSignal
=============================================================================
