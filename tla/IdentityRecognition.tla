-------------------------- MODULE IdentityRecognition --------------------------
(***************************************************************************)
(* The identity recognition of an ARMORE node (id_recog.bro): from the     *)
(* functions of a request and its response it concludes what the two hosts *)
(* are.  Bro's intelligence framework compares the pair of functions with  *)
(* a list and answers with an event.                                       *)
(***************************************************************************)
EXTENDS Sequences, SequencesExt, Functions

CONSTANTS
  Identities, \* known pairs of functions: [protocol, ask, answer, requestor, responder],
              \* the last two what the hosts are, or ""
  NoFunction  \* of an item without one

VARIABLES
  id_req_table, \* req_table: latest request of each connection
  identity_map  \* identities recognized, by host

idVars == << id_req_table, identity_map >>

IdInit ==
  /\ id_req_table = [x \in {} |-> 0]
  /\ identity_map = [x \in {} |-> {}]

Asking(item) == item.func # NoFunction /\ ~item.is_response

RequestOf(item) ==
  [requestor |-> item.sender, responder |-> item.receiver,
   protocol |-> item.protocol, req_func |-> item.func]

Replying(item) ==
  /\ item.func # NoFunction /\ item.is_response
  /\ item.link \in DOMAIN id_req_table
  /\ LET r == id_req_table[item.link]
     IN  /\ r.requestor = item.receiver /\ r.responder = item.sender
         /\ r.protocol = item.protocol

\* What the list has about the functions of a request and its response
Known(item) ==
  {i \in Identities : /\ i.protocol = item.protocol /\ i.answer = item.func
                      /\ i.ask = id_req_table[item.link].req_func}

\* The event Intel::match, raised if the list has the pair.
Matches(item) ==
  IF Replying(item) /\ Known(item) # {}
  THEN << [type |-> "match", link |-> item.link, found |-> Known(item)] >> ELSE << >>

\* The handler of item_gen
RememberRequest(item) ==
  /\ id_req_table' = [x \in DOMAIN id_req_table \cup (IF Asking(item) THEN {item.link} ELSE {}) |->
                        IF Asking(item) /\ x = item.link THEN RequestOf(item)
                                                        ELSE id_req_table[x]]
  /\ UNCHANGED identity_map

\* Faulty variant: the hosts are taken for each other.
Recognized_Swapped(r, found) ==
  {<< r.responder, i.requestor >> : i \in found} \cup {<< r.requestor, i.responder >> : i \in found}

Recognized(r, found) ==
  {<< r.requestor, i.requestor >> : i \in found} \cup {<< r.responder, i.responder >> : i \in found}

\* The handler of Intel::match looks the hosts up again.
AddIdentities(link, found) ==
  /\ LET new == {hi \in Recognized(id_req_table[link], found) : hi[2] # ""}
     IN  identity_map' =
           [h \in DOMAIN identity_map \cup {hi[1] : hi \in new} |->
              (IF h \in DOMAIN identity_map THEN identity_map[h] ELSE {})
              \cup {hi[2] : hi \in {x \in new : x[1] = h}}]
  /\ UNCHANGED id_req_table

=============================================================================
