---------------------------- MODULE VideoCatalogue ----------------------------
(***************************************************************************)
(* What the upload promises, with no file, no transaction and no index in  *)
(* sight: requests offer contents, the catalogue holds at most one video   *)
(* of a content, and a request is refused as a duplicate only where it     *)
(* would have been one (or where its camera is gone: the code gives both   *)
(* the same answer).                                                       *)
(***************************************************************************)
CONSTANTS Requests,   \* uploads; the video of an upload bears its name
          Content,    \* what each uploads
          Named       \* those that name the camera

VARIABLES held,       \* uploads whose video is in the catalogue
          outcome,    \* what has become of each upload
          camera      \* the camera is registered

catalogueVars == <<held, outcome, camera>>

CatalogueInit == /\ held = {}
                 /\ outcome = [r \in Requests |-> "open"]
                 /\ camera = TRUE

Turns(r, from, to) == outcome[r] \in from /\ outcome' = [outcome EXCEPT ![r] = to]

Held(r) == \E s \in held : Content[s] = Content[r]

Accept(r) == /\ Turns(r, {"open"}, "accepted")
             /\ ~Held(r)
             /\ held' = held \cup {r}
             /\ UNCHANGED camera

Confirm(r) == Turns(r, {"accepted"}, "created") /\ UNCHANGED <<held, camera>>

Refuse(r) == /\ Turns(r, {"open"}, "duplicate")
             /\ Held(r) \/ (r \in Named /\ ~camera)
             /\ UNCHANGED <<held, camera>>

\* An error, even one after the video was accepted.
GiveUp(r) == Turns(r, {"open", "accepted"}, "failed") /\ UNCHANGED <<held, camera>>

Discard(r) == /\ r \in held
              /\ held' = held \ {r}
              /\ UNCHANGED <<outcome, camera>>

RemoveCamera == camera /\ camera' = FALSE /\ UNCHANGED <<held, outcome>>

CatalogueNext == \/ \E r \in Requests : Accept(r) \/ Confirm(r) \/ Refuse(r) \/ GiveUp(r) \/ Discard(r)
                 \/ RemoveCamera

CatalogueSpec == CatalogueInit /\ [][CatalogueNext]_catalogueVars

===============================================================================
