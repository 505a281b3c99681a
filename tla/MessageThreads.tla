----------------------------- MODULE MessageThreads -----------------------------
(***************************************************************************)
(* Message threads: after a completed reply a session's next request names *)
(* that reply and carries only the messages after it; the provider has the *)
(* rest.  What it has is what an earlier request told it, while the host   *)
(* may have edited, undone or compacted its conversation since, or asked   *)
(* twice for the same turn and kept the other reply.                       *)
(*                                                                         *)
(* One session of one account.  A message is what its digest tells apart:  *)
(* a reply the host stored with other cache marks, tool spellings or       *)
(* trailing blanks is the same message.  Settings, credentials and the age *)
(* of a reply decide only whether a thread may be continued: that is free. *)
(***************************************************************************)
EXTENDS Naturals, Sequences, FiniteSets

CONSTANTS
  ThreadRequests, \* requests of the session
  Words, Replies, \* what users and the model say
  MaxTalk,        \* bounds of a run: messages of a conversation, and edits
  MaxEdits

ASSUME ThreadsAssumption ==
  /\ Words \cap Replies = {}
  /\ MaxTalk \in Nat /\ MaxEdits \in Nat

VARIABLES
  talk,      \* the conversation as the host has it
  edits,     \* how often the host changed what was said
  tracked,   \* the session's request, and what its reply leaves to continue from
  stateless, \* whether the account is served without threads until a restart
  asked,     \* each request
  told,      \* what the provider knows of each request's reply: the conversation up to it
  mistold    \* requests the provider took for another conversation

threadVars == <<talk, edits, tracked, stateless, asked, told, mistold>>

Nothing == <<>>
NoRequest == 0
NoAnchor == [of |-> NoRequest, messages |-> Nothing, reply |-> "none"]
Untracked == [request |-> NoRequest, anchor |-> NoAnchor]
Unasked == [at |-> "new", messages |-> Nothing, thread |-> "create", from |-> NoRequest, observed |-> FALSE]

ThreadsInit ==
  /\ talk = Nothing /\ edits = 0
  /\ tracked = Untracked /\ stateless = FALSE
  /\ asked = [r \in ThreadRequests |-> Unasked]
  /\ told = [r \in ThreadRequests |-> Nothing]
  /\ mistold = {}

\* What a request does when it fails: its session has nothing to continue
\* from, unless another request has begun since.
AfterFailure(r) == IF tracked.request = r THEN Untracked ELSE tracked

---------------------------------------------------------------------------
(* The host.                                                               *)

WaitsForReply == talk # Nothing /\ talk[Len(talk)] \in Words

Say(word) ==
  /\ ~WaitsForReply /\ Len(talk) < MaxTalk
  /\ talk' = Append(talk, word)
  /\ UNCHANGED <<edits, tracked, stateless, asked, told, mistold>>

\* The host undoes its last message, compacts, or edits what was said.
EditTalk ==
  /\ talk # Nothing /\ edits < MaxEdits /\ edits' = edits + 1
  /\ \/ talk' = SubSeq(talk, 1, Len(talk) - 1)
     \/ Len(talk) > 2 /\ talk' = SubSeq(talk, 3, Len(talk))
     \/ \E i \in DOMAIN talk, m \in Words \cup Replies :
          (m \in Words <=> talk[i] \in Words) /\ talk' = [talk EXCEPT ![i] = m]
  /\ UNCHANGED <<tracked, stateless, asked, told, mistold>>

---------------------------------------------------------------------------
(* Requests.                                                               *)

\* Mutant: the reply is enough.
SameReplyOnly(anchor, messages) == messages[Len(anchor.messages) + 1] = anchor.reply

\* What was asked, and the reply to it, are as they were.
SameTalk(anchor, messages) ==
  /\ SubSeq(messages, 1, Len(anchor.messages)) = anchor.messages
  /\ messages[Len(anchor.messages) + 1] = anchor.reply

\* The thread may be continued: only the user has spoken since.
MayContinue(anchor, messages) ==
  /\ anchor.of # NoRequest
  /\ Len(messages) >= Len(anchor.messages) + 2
  /\ \A i \in Len(anchor.messages) + 2 .. Len(messages) : messages[i] \notin Replies
  /\ SameTalk(anchor, messages)

\* The request takes the session over, and what the last reply left with it.
\* Aged replies, other settings or another credential are not continued.
Ask(r) ==
  /\ asked[r].at = "new" /\ WaitsForReply
  /\ LET q == [Unasked EXCEPT !.at = "sent", !.messages = talk]
     IN  \/ /\ ~stateless /\ MayContinue(tracked.anchor, talk)
            /\ asked' = [asked EXCEPT ![r] = [q EXCEPT !.thread = "continue", !.from = tracked.anchor.of]]
            /\ tracked' = [Untracked EXCEPT !.request = r]
         \/ /\ ~stateless
            /\ asked' = [asked EXCEPT ![r] = q]
            /\ tracked' = [Untracked EXCEPT !.request = r]
         \/ /\ stateless
            /\ asked' = [asked EXCEPT ![r] = [q EXCEPT !.thread = "none"]]
            /\ tracked' = Untracked
  /\ UNCHANGED <<talk, edits, stateless, told, mistold>>

\* The messages a request carries, and what the provider makes of them.
Delta(q) == SubSeq(q.messages, Len(told[q.from]) + 1, Len(q.messages))
Sent(q) == IF q.thread = "continue" THEN Delta(q) ELSE q.messages
Understood(q, sent) == IF q.thread = "continue" THEN told[q.from] \o sent ELSE sent

\* The provider begins to answer.  Nothing is observed for an account that
\* turned stateless meanwhile.
Accept(r) ==
  /\ asked[r].at = "sent"
  /\ LET q == asked[r]
         observed == ~stateless /\ q.thread # "none"
     IN  /\ asked' = [asked EXCEPT ![r].at = "answering", ![r].observed = observed]
         /\ tracked' = IF observed THEN tracked ELSE AfterFailure(r)
         /\ mistold' = IF Understood(q, Sent(q)) = q.messages THEN mistold ELSE mistold \cup {r}
  /\ UNCHANGED <<talk, edits, stateless, told>>

\* The provider refuses to continue the thread.  A host whose policy resends
\* nothing answers with the refusal; else the session starts over with this
\* request, whichever one has it now.
RejectContinue(r) ==
  /\ asked[r].at = "sent" /\ asked[r].thread = "continue"
  /\ \/ /\ asked' = [asked EXCEPT ![r].at = "done"] /\ tracked' = AfterFailure(r)
     \/ /\ stateless
        /\ asked' = [asked EXCEPT ![r].thread = "none"]
        /\ tracked' = AfterFailure(r)
     \/ /\ ~stateless
        /\ asked' = [asked EXCEPT ![r].thread = "create", ![r].from = NoRequest]
        /\ tracked' = [Untracked EXCEPT !.request = r]
  /\ UNCHANGED <<talk, edits, stateless, told, mistold>>

\* It refuses to make one: the account is served without from here on.
RejectCreate(r) ==
  /\ asked[r].at = "sent" /\ asked[r].thread = "create"
  /\ stateless' = TRUE /\ tracked' = AfterFailure(r)
  /\ \/ asked' = [asked EXCEPT ![r].thread = "none"]
     \/ asked' = [asked EXCEPT ![r].at = "done"]
  /\ UNCHANGED <<talk, edits, told, mistold>>

\* Any other failure, also of the stream: it breaks, is cancelled, refused,
\* served by another model or not understood.
Fail(r) ==
  /\ asked[r].at \in {"sent", "answering"}
  /\ asked' = [asked EXCEPT ![r].at = "done"] /\ tracked' = AfterFailure(r)
  /\ UNCHANGED <<talk, edits, stateless, told, mistold>>

\* The reply is complete.  It can be continued from if no other request began
\* since.  The host stores it if its conversation still waits for it.
Complete(r, reply) ==
  /\ asked[r].at = "answering"
  /\ LET q == asked[r]
     IN  /\ told' = [told EXCEPT ![r] = Append(Understood(q, Sent(q)), reply)]
         /\ tracked' = IF q.observed /\ tracked = [Untracked EXCEPT !.request = r]
                       THEN [tracked EXCEPT !.anchor = [of |-> r, messages |-> q.messages, reply |-> reply]]
                       ELSE tracked
         /\ talk' = IF talk = q.messages THEN Append(talk, reply) ELSE talk
  /\ asked' = [asked EXCEPT ![r].at = "done"]
  /\ UNCHANGED <<edits, stateless, mistold>>

\* The session is deleted, or pushed out by others.
Forget ==
  /\ tracked # Untracked /\ tracked' = Untracked
  /\ UNCHANGED <<talk, edits, stateless, asked, told, mistold>>

---------------------------------------------------------------------------

ThreadsNext ==
  \/ \E word \in Words : Say(word)
  \/ EditTalk \/ Forget
  \/ \E r \in ThreadRequests :
       \/ Ask(r) \/ Accept(r) \/ RejectContinue(r) \/ RejectCreate(r) \/ Fail(r)
       \/ \E reply \in Replies : Complete(r, reply)

ThreadsSpec == ThreadsInit /\ [][ThreadsNext]_threadVars

---------------------------------------------------------------------------
(* Properties.                                                             *)

\* The conversation a continued thread amounts to at the provider is the one
\* the host asked about, word for word, whatever was edited since and
\* whichever of two replies to one turn the host kept.
ThreadTellsTheTalk == mistold = {}
=============================================================================
