------------------------------- MODULE MCPages -------------------------------
(***************************************************************************)
(* Instance for TLC of the modules about the pages of the dashboard, where *)
(* answers come in any order while the user goes on.  They share no state, *)
(* so a behaviour is one of one of them: part says which, and what the     *)
(* others start with is fixed.                                             *)
(***************************************************************************)
EXTENDS ChatRooms, WebhooksPage, QrPolling, TypingPresence, EventFeed, TLC

VARIABLE part

pagesVars ==
  <<part, roomsVars, webPageVars, qrVars, typingVars, feedVars>>

PagesInit ==
  /\ part \in {"page", "webhooks", "qr", "typing", "feed"}
  /\ RoomsInit
  /\ WebPageInit
  /\ QrInit
  /\ TypingInit
  /\ FeedInit

PagesNext ==
  \/ /\ part = "page" /\ RoomsNext
     /\ UNCHANGED <<part, webPageVars, qrVars, typingVars, feedVars>>
  \/ /\ part = "webhooks" /\ WebPageNext
     /\ UNCHANGED <<part, roomsVars, qrVars, typingVars, feedVars>>
  \/ /\ part = "qr" /\ QrNext
     /\ UNCHANGED <<part, roomsVars, webPageVars, typingVars, feedVars>>
  \/ /\ part = "typing" /\ TypingNext
     /\ UNCHANGED <<part, roomsVars, webPageVars, qrVars, feedVars>>
  \/ /\ part = "feed" /\ FeedNext
     /\ UNCHANGED <<part, roomsVars, webPageVars, qrVars, typingVars>>

PagesSpec == PagesInit /\ [][PagesNext]_pagesVars

\* The modules share their model values.
Symmetric == Permutations(Chat) \union Permutations(Slot)

\* Every variable of the modules has its type.
PagesTypesOK ==
  /\ RoomsTypeOK /\ WebPageTypeOK /\ QrTypeOK /\ TypingTypeOK /\ FeedTypeOK
=============================================================================
