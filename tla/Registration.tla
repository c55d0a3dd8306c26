---------------------------- MODULE Registration ----------------------------
(***************************************************************************)
(* AuthService.register and KycService, statement by statement: accounts,  *)
(* the identity files that multer writes to disk before a handler starts,  *)
(* and the CIN and the phone number that two accounts must not share.      *)
(* Each request is a worker.  A file stands for the two sides of a card,   *)
(* a CIN for its hash.                                                     *)
(***************************************************************************)
EXTENDS Naturals, FiniteSets

CONSTANTS People, Phones, Cins, Files,  \* accounts, phone numbers, card numbers, uploads
          Null,                         \* a column that is null, a field that is not sent
          Requests                      \* requests in flight at once

VARIABLES
  account,    \* the User and ProProfile rows
  disk,       \* the files in the private directory
  uploaded,   \* the files ever uploaded
  form,       \* form[w]: what request w does, and for whom
  overlapped  \* history: the CINs that two requests have been checking at once

registrationVars == <<account, disk, uploaded, form, overlapped>>

Account(phone, cin, file, kyc) == [phone |-> phone, cin |-> cin, file |-> file, kyc |-> kyc]
NoAccount == Account(Null, Null, Null, "NONE")

Form(pc, who, phone, cin, file) ==
  [pc |-> pc, who |-> who, phone |-> phone, cin |-> cin, file |-> file]
Idle == Form("idle", Null, Null, Null, Null)

\* A professional of before the identity check has submitted nothing.
Init ==
  /\ \/ account = [p \in People |-> NoAccount]
     \/ \E p \in People, n \in Phones :
          account = [q \in People |->
                       IF q = p THEN Account(n, Null, Null, "NOT_SUBMITTED") ELSE NoAccount]
  /\ disk = {} /\ uploaded = {}
  /\ form = [w \in Requests |-> Idle]
  /\ overlapped = {}

At(w, pc) == form[w].pc = pc
Goto(w, pc) == form' = [form EXCEPT ![w].pc = pc]
Finish(w) == form' = [form EXCEPT ![w] = Idle]
Keep(old, sent) == IF sent = Null THEN old ELSE sent

PhoneTaken(n) == \E p \in People : account[p].phone = n
CinTaken(c, but) == \E p \in People \ {but} : account[p].cin = c

\* A request arrives and its file is written; a resubmission may send no file.
Upload(w, pc, who, phone, cin, file) ==
  /\ At(w, "idle")
  /\ file = Null \/ file \notin uploaded
  /\ disk' = disk \cup ({file} \ {Null})
  /\ uploaded' = uploaded \cup ({file} \ {Null})
  /\ form' = [form EXCEPT ![w] = Form(pc, who, phone, cin, file)]
  /\ UNCHANGED <<account, overlapped>>

Reads == UNCHANGED <<account, disk, uploaded>>

-----------------------------------------------------------------------------
\* register: findUnique of the phone; the file of a refused request stays.
CheckPhone(w) ==
  /\ At(w, "phone")
  /\ IF PhoneTaken(form[w].phone) THEN Finish(w) ELSE Goto(w, "cin")
  /\ Reads /\ UNCHANGED overlapped

\* Mutant: nobody looks for the CIN.
CheckCinNever(w) ==
  /\ At(w, "cin")
  /\ Goto(w, IF form[w].who = Null THEN "insert" ELSE "update")
  /\ Reads /\ UNCHANGED overlapped

Writing(w) == form[w].pc \in {"insert", "update"}

\* findFirst of the CIN, which no constraint backs: register, submit and resubmit.
CheckCin(w) ==
  LET c == form[w].cin
      mine == IF form[w].who = Null THEN Null ELSE account[form[w].who].cin
  IN  /\ At(w, "cin")
      /\ IF c # Null /\ c # mine /\ CinTaken(c, form[w].who) THEN Finish(w)
         ELSE Goto(w, IF form[w].who = Null THEN "insert" ELSE "update")
      /\ overlapped' = overlapped \cup
           {d \in {c} \ {Null} : \E v \in Requests \ {w} : Writing(v) /\ form[v].cin = d}
      /\ Reads

\* The transaction inserts user and profile, unless the phone is taken by now: the
\* catch then deletes the file.
Insert(w) ==
  /\ At(w, "insert")
  /\ IF PhoneTaken(form[w].phone)
     THEN disk' = disk \ {form[w].file} /\ Finish(w) /\ UNCHANGED account
     ELSE /\ \E p \in People :
               /\ account[p] = NoAccount
               /\ account' = [account EXCEPT ![p] =
                    Account(form[w].phone, form[w].cin, form[w].file, "PENDING")]
          /\ Goto(w, "login") /\ UNCHANGED disk
  /\ UNCHANGED <<uploaded, overlapped>>

\* Mutant: a failure of the automatic login reaches the catch.
AutoLoginAwaited(w) ==
  /\ At(w, "login")
  /\ disk' \in {disk, disk \ {form[w].file}}
  /\ Finish(w)
  /\ UNCHANGED <<account, uploaded, overlapped>>

\* return this.loginAfterRegister(user): its failure passes by the catch.
AutoLogin(w) ==
  /\ At(w, "login")
  /\ Finish(w)
  /\ Reads /\ UNCHANGED overlapped

-----------------------------------------------------------------------------
\* submitKyc and resubmitKyc: the status, then the CIN, then an update by user id.
CheckStatus(w) ==
  /\ form[w].pc \in {"submit", "resubmit"}
  /\ LET allowed == IF At(w, "submit") THEN "NOT_SUBMITTED" ELSE "REJECTED"
     IN  IF account[form[w].who].kyc = allowed THEN Goto(w, "cin") ELSE Finish(w)
  /\ Reads /\ UNCHANGED overlapped

\* Mutant: what the professional does not send again is cleared.
UpdateAll(w) ==
  /\ At(w, "update")
  /\ account' = [account EXCEPT ![form[w].who] =
       Account(@.phone, form[w].cin, form[w].file, "PENDING")]
  /\ Finish(w)
  /\ UNCHANGED <<disk, uploaded, overlapped>>

Update(w) ==
  /\ At(w, "update")
  /\ account' = [account EXCEPT ![form[w].who] =
       Account(@.phone, Keep(@.cin, form[w].cin), Keep(@.file, form[w].file), "PENDING")]
  /\ Finish(w)
  /\ UNCHANGED <<disk, uploaded, overlapped>>

\* The administrator decides outside the application.
Review(p) ==
  /\ account[p].kyc = "PENDING"
  /\ \E verdict \in {"APPROVED", "REJECTED"} :
       account' = [account EXCEPT ![p] = Account(@.phone, @.cin, @.file, verdict)]
  /\ UNCHANGED <<disk, uploaded, form, overlapped>>

Next ==
  \/ \E w \in Requests :
       \/ \E n \in Phones, c \in Cins, f \in Files : Upload(w, "phone", Null, n, c, f)
       \/ \E p \in {q \in People : account[q] # NoAccount} :
            \/ \E c \in Cins, f \in Files : Upload(w, "submit", p, Null, c, f)
            \/ \E c \in Cins \cup {Null}, f \in Files \cup {Null} : Upload(w, "resubmit", p, Null, c, f)
       \/ CheckPhone(w) \/ CheckCin(w) \/ Insert(w) \/ AutoLogin(w) \/ CheckStatus(w) \/ Update(w)
  \/ \E p \in People : Review(p)

-----------------------------------------------------------------------------
\* Two accounts share a CIN only when their requests were checking it at the same
\* time: the search misses nothing else, whatever was rejected or resubmitted before.
CinSharedOnlyByOverlap ==
  \A p, q \in People :
    p # q /\ account[p].cin # Null /\ account[p].cin = account[q].cin
      => account[p].cin \in overlapped

\* The files of a dossier are on disk: the rollback of a registration never deletes
\* the files of an account that was committed.
DossierOnDisk == \A p \in People : account[p].file # Null => account[p].file \in disk

\* A dossier under review or decided has a card number and its pictures, also when a
\* rejected professional sends a part of it again.
DossierComplete ==
  \A p \in People :
    account[p].kyc \in {"PENDING", "APPROVED", "REJECTED"}
      => account[p].cin # Null /\ account[p].file # Null

=============================================================================
