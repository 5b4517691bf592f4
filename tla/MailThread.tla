---------------------------- MODULE MailThread ----------------------------
(***************************************************************************)
(* The modal of the mail page (frontend/src/routes/Mail.tsx): the thread   *)
(* of a message, opened from a row or from the address, and the actions on *)
(* it, each a chain of awaits over the message that was open when it began.*)
(* The refresh of the table that ends an action is MailMarks' business.    *)
(***************************************************************************)
EXTENDS Naturals, FiniteSets

CONSTANTS Messages,     \* every message is a thread of its own
          None          \* the absence of a value

\* What the constants are to be; an instance for TLC assumes it.
Assumptions ==
  /\ None \notin Messages

VARIABLES
  read,       \* read[m]: the flag of m in the table
  link,       \* the message named by the address, or None
  linked,     \* the message the address has opened already, or None
  open,       \* the message in the modal and its flag (threadFor), or None
  thread,     \* the message whose thread was fetched last (threadItems), or None
  asks,       \* the messages whose thread is being fetched
  action,     \* the action in flight, or None
  crossed     \* history: the modal changed hands while an answer was due

vars == <<read, link, linked, open, thread, asks, action, crossed>>

Marks == {"unread", "read"}
Kinds == Marks \cup {"archive", "reply"}

(* An answer about another message is still due when m takes the modal.    *)
Due(m) == asks \ {m} # {} \/ (action # None /\ action.msg # m)

Opened_Fault(m) ==
  /\ open' = [msg |-> m, flag |-> read[m]]
  /\ asks' = asks \cup {m}
  /\ crossed' = (crossed \/ Due(m))
  /\ UNCHANGED <<read, link, action, thread>>

(* openThread up to its await.                                             *)
Opened(m) ==
  /\ open' = [msg |-> m, flag |-> read[m]]
  /\ thread' = None
  /\ asks' = asks \cup {m}
  /\ crossed' = (crossed \/ Due(m))
  /\ UNCHANGED <<read, link, action>>

OpenRow(m) ==
  /\ open = None
  /\ Opened(m)
  /\ UNCHANGED linked

(* The table has come to hold the message of the address: open it once.    *)
OpenLink ==
  /\ link # None /\ linked # link
  /\ linked' = link
  /\ Opened(link)

Close ==
  /\ open # None
  /\ open' = None
  /\ UNCHANGED <<read, link, linked, thread, asks, action, crossed>>

Navigate(m) ==
  /\ link' = m
  /\ linked' = IF m = None THEN None ELSE linked
  /\ UNCHANGED <<read, open, thread, asks, action, crossed>>

(* The answer is shown whatever is open by then; a failure shows nothing.  *)
ThreadSettles(m) ==
  /\ m \in asks
  /\ asks' = asks \ {m}
  /\ thread' \in {m, thread}
  /\ UNCHANGED <<read, link, linked, open, action, crossed>>

(***************************************************************************)
(* runMailAction.                                                          *)
(***************************************************************************)
Offered(kind) == kind \notin Marks \/ kind # open.flag

Act(kind) ==
  /\ open # None
  /\ action = None
  /\ Offered(kind)
  /\ action' = [kind |-> kind, msg |-> open.msg, at |-> "write"]
  /\ UNCHANGED <<read, link, linked, open, thread, asks, crossed>>

Acting(stage) == action # None /\ action.at = stage

(* The modal once the write has answered.                                  *)
OpenAfter ==
  CASE action.kind \in Marks -> [msg |-> action.msg, flag |-> action.kind]
    [] action.kind = "archive" -> None
    [] OTHER -> open

WriteAnswers ==
  /\ Acting("write")
  /\ open' = OpenAfter
  /\ thread' = IF action.kind = "archive" THEN None ELSE thread
  /\ action' = [action EXCEPT !.at = IF action.kind = "reply" THEN "thread" ELSE "refresh"]
  /\ UNCHANGED <<read, link, linked, asks, crossed>>

ReplyShows ==
  /\ Acting("thread")
  /\ thread' = action.msg
  /\ action' = [action EXCEPT !.at = "refresh"]
  /\ UNCHANGED <<read, link, linked, open, asks, crossed>>

(* The table has been read again, and may show the mark or not yet.        *)
RefreshSettles ==
  /\ Acting("refresh")
  /\ action' = None
  /\ read' \in {read, IF action.kind \in Marks
                      THEN [read EXCEPT ![action.msg] = action.kind] ELSE read}
  /\ UNCHANGED <<link, linked, open, thread, asks, crossed>>

ActionFails ==
  /\ Acting("write") \/ Acting("thread")
  /\ action' = None
  /\ UNCHANGED <<read, link, linked, open, thread, asks, crossed>>

Init ==
  /\ read = [m \in Messages |-> "unread"]
  /\ link \in Messages \cup {None} /\ linked = None
  /\ open = None /\ thread = None /\ asks = {}
  /\ action = None /\ crossed = FALSE

Next ==
  \/ \E m \in Messages : OpenRow(m) \/ ThreadSettles(m)
  \/ \E m \in Messages \cup {None} : Navigate(m)
  \/ \E kind \in Kinds : Act(kind)
  \/ OpenLink \/ Close
  \/ WriteAnswers \/ ReplyShows \/ RefreshSettles \/ ActionFails

Spec == Init /\ [][Next]_vars

(***************************************************************************)
(* Properties.                                                             *)
(***************************************************************************)
TypeOK ==
  /\ read \in [Messages -> Marks]
  /\ {link, linked, thread} \subseteq Messages \cup {None}
  /\ open = None \/ open \in [msg : Messages, flag : Marks]
  /\ asks \subseteq Messages
  /\ action = None \/ action \in [kind : Kinds, msg : Messages, at : {"write", "thread", "refresh"}]
  /\ crossed \in BOOLEAN

(* The thread in the modal is the thread of the message in the modal, and  *)
(* no answered action brings another message back, as long as nobody took  *)
(* the modal while an answer about another message was due: openThread and *)
(* runMailAction write what they closed over and compare nothing.          *)
ThreadBelongs ==
  ~crossed /\ open # None /\ thread # None => thread = open.msg

(* What every step keeps: while nobody took the modal over, what is due,   *)
(* what acts and what is shown are about one message.                      *)
AboutOneMessage ==
  ~crossed =>
    /\ \A m \in asks : /\ open # None => open.msg = m
                       /\ action # None => action.msg = m
                       /\ \A n \in asks : n = m
    /\ action # None /\ open # None => action.msg = open.msg
    /\ thread # None => /\ open # None => thread = open.msg
                        /\ action # None => thread = action.msg

IInv == TypeOK /\ AboutOneMessage
=============================================================================
