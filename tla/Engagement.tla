----------------------------- MODULE Engagement -----------------------------
(***************************************************************************)
(* ReviewsService and NewsletterService: two services that look first and  *)
(* write later, for one booking and for one address.  Each request is a    *)
(* worker; a statement on the database is a step.                          *)
(***************************************************************************)
EXTENDS Naturals, FiniteSets

CONSTANTS Requests,    \* requests in flight at once
          Links,       \* the confirmation tokens
          NoLink

VARIABLES
  booking,     \* status of the booking
  reviews,     \* number of Review rows of the booking
  subscriber,  \* the NewsletterSubscriber row: status and token
  mailed,      \* the tokens that were sent to the address
  unsent,      \* the tokens whose letter failed
  expired,     \* the tokens older than 48 hours
  request      \* request[w]: what request w does, and the token it holds

engagementVars == <<booking, reviews, subscriber, mailed, unsent, expired, request>>

Row(status, token) == [status |-> status, token |-> token]
Request(pc, token) == [pc |-> pc, token |-> token]
Idle == Request("idle", NoLink)

Init ==
  /\ booking = "CONFIRMED" /\ reviews = 0
  /\ subscriber = Row("ABSENT", NoLink)
  /\ mailed = {} /\ unsent = {} /\ expired = {}
  /\ request = [w \in Requests |-> Idle]

At(w, pc) == request[w].pc = pc
Do(w, r) == request' = [request EXCEPT ![w] = r]
Letters == <<subscriber, mailed, unsent, expired>>
Votes == <<booking, reviews>>

-----------------------------------------------------------------------------
\* createReview: the booking is completed, then it has no review, then the insertion,
\* which fails when the unique booking id is taken.
CheckBooking(w) ==
  /\ At(w, "idle") /\ booking = "COMPLETED"
  /\ Do(w, Request("existing", NoLink))
  /\ UNCHANGED <<Votes, Letters>>

CheckExisting(w) ==
  /\ At(w, "existing")
  /\ Do(w, IF reviews > 0 THEN Idle ELSE Request("review", NoLink))
  /\ UNCHANGED <<Votes, Letters>>

CreateReview(w) ==
  /\ At(w, "review")
  /\ reviews' = IF reviews > 0 THEN reviews ELSE 1
  /\ Do(w, Idle)
  /\ UNCHANGED <<booking, Letters>>

\* The booking is completed, by BookingService.
Complete ==
  /\ booking = "CONFIRMED" /\ booking' = "COMPLETED"
  /\ UNCHANGED <<reviews, Letters, request>>

-----------------------------------------------------------------------------
\* subscribe: an active address is left alone.
FindSubscriber(w) ==
  /\ At(w, "idle")
  /\ subscriber.status # "ACTIVE"
  /\ Do(w, Request(IF subscriber.status = "ABSENT" THEN "create" ELSE "renew", NoLink))
  /\ UNCHANGED <<Votes, Letters>>

Fresh == {l \in Links : l \notin mailed \cup unsent \cup {subscriber.token}
                        /\ \A w \in Requests : request[w].token # l}

\* The insertion of an address that is there by now fails, and so does the request.
CreateSubscriber(w) ==
  /\ At(w, "create")
  /\ IF subscriber.status # "ABSENT" THEN Do(w, Idle) /\ UNCHANGED Letters
     ELSE \E l \in Fresh :
            /\ subscriber' = Row("PENDING", l)
            /\ Do(w, Request("mail", l))
            /\ UNCHANGED <<mailed, unsent, expired>>
  /\ UNCHANGED Votes

\* Mutant: the letter names the token of before.
RenewMailOld(w) ==
  /\ At(w, "renew")
  /\ \E l \in Fresh : subscriber' = Row("PENDING", l)
  /\ Do(w, Request("mail", subscriber.token))
  /\ UNCHANGED <<mailed, unsent, expired, Votes>>

\* An update by id: a new token, whatever the status has become.
RenewSubscriber(w) ==
  /\ At(w, "renew")
  /\ \E l \in Fresh :
       /\ subscriber' = Row("PENDING", l)
       /\ Do(w, Request("mail", l))
  /\ UNCHANGED <<mailed, unsent, expired, Votes>>

\* sendEmail swallows a letter that fails: the request answers confirmation_sent.
Mail(w) ==
  /\ At(w, "mail")
  /\ \/ mailed' = mailed \cup {request[w].token} /\ UNCHANGED unsent
     \/ unsent' = unsent \cup {request[w].token} /\ UNCHANGED mailed
  /\ Do(w, Idle)
  /\ UNCHANGED <<subscriber, expired, Votes>>

\* confirm: the link finds its row while it is the last one and is not too old ...
FollowLink(w) ==
  /\ At(w, "idle")
  /\ subscriber.token \in mailed \ expired /\ subscriber.status # "ACTIVE"
  /\ Do(w, Request("confirm", subscriber.token))
  /\ UNCHANGED <<subscriber, mailed, unsent, expired, Votes>>

\* ... and an update by id makes the address active.
Confirm(w) ==
  /\ At(w, "confirm")
  /\ subscriber' = Row("ACTIVE", subscriber.token)
  /\ Do(w, Idle)
  /\ UNCHANGED <<mailed, unsent, expired, Votes>>

\* unsubscribe: the address with its last token, which came with a letter ...
Leave(w) ==
  /\ At(w, "idle")
  /\ subscriber.token \in mailed
  /\ Do(w, Request("leave", subscriber.token))
  /\ UNCHANGED <<subscriber, mailed, unsent, expired, Votes>>

\* ... and an update by id.
Unsubscribe(w) ==
  /\ At(w, "leave")
  /\ subscriber' = Row("UNSUBSCRIBED", subscriber.token)
  /\ Do(w, Idle)
  /\ UNCHANGED <<mailed, unsent, expired, Votes>>

Expire ==
  /\ \E l \in mailed \ expired : expired' = expired \cup {l}
  /\ UNCHANGED <<subscriber, mailed, unsent, Votes, request>>

Next ==
  \/ \E w \in Requests :
       \/ CheckBooking(w) \/ CheckExisting(w) \/ CreateReview(w)
       \/ FindSubscriber(w) \/ CreateSubscriber(w) \/ RenewSubscriber(w) \/ Mail(w)
       \/ FollowLink(w) \/ Confirm(w) \/ Leave(w) \/ Unsubscribe(w)
  \/ Complete \/ Expire

-----------------------------------------------------------------------------
\* Once the requests of an address are answered, a letter was written for the token its
\* row has, however many subscriptions ran at once: it was sent, or it failed and was
\* swallowed.  No row waits for a token that only a letter of another token could confirm.
PendingCanConfirm ==
  subscriber.status = "PENDING" /\ (\A w \in Requests : At(w, "idle"))
    => subscriber.token \in mailed \cup unsent

=============================================================================
