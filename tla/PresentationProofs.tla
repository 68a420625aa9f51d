-------------------------- MODULE PresentationProofs --------------------------
(***************************************************************************)
(* Proofs about Presentation, for any number of sessions, tabs, cards and  *)
(* clicks, any validity and any skew of the clocks.                        *)
(***************************************************************************)
EXTENDS Presentation, TLAPS

USE NoneAssumption, ClockAssumption
USE DEF server, browser, popup

Jobs == [pc : Places, card : Card \cup {"none"},
         session : Session \cup {"none"}, proof : SUBSET Made,
         tab : Tab \cup {"none"}]

(* From the click until there is an answer or an end.                      *)
Under(j) ==
  j.pc \in {"sent", "made", "posting", "accepted", "refused"} \cup SettingUp

(* Its only proof is of its card.                                          *)
OneProof(j) == \A p \in j.proof : p.card = j.card /\ \A q \in j.proof : p = q

(* What a disclosure is for was on display when the user clicked.          *)
JobInv ==
  /\ job \in [Click -> Jobs]
  /\ \A d \in Click :
       /\ OneProof(job[d])
       /\ Under(job[d]) => /\ job[d].card \in Card
                           /\ job[d].session \in Session
                           /\ <<job[d].card, job[d].session>> \in consented

(* What a step does to a disclosure that it does not start.                *)
Kept(d) ==
  /\ job'[d].card = job[d].card
  /\ (job'[d].pc = "idle") <=> (job[d].pc = "idle")
  /\ OneProof(job'[d])
  /\ Under(job'[d]) => Under(job[d]) /\ job'[d].session = job[d].session
  /\ job[d].pc # "accepted" /\ job'[d].pc = "accepted" => VerifyAccepts(d)
  /\ job[d].pc # "refused" /\ job'[d].pc = "refused" => VerifyRefuses(d)
  /\ job[d].pc # "linked" /\ job'[d].pc = "linked" => VerifyLinks(d)

(* A disclosure that a step starts.                                        *)
Started(d) ==
  /\ job[d].pc = "idle"
  /\ \E c \in Card :
       /\ status[c] = "DISCLOSABLE"
       /\ job'[d].pc = "sent" /\ job'[d].card = c
       /\ job'[d].session = params[c] /\ job'[d].proof = {}
       /\ status' = [status EXCEPT ![c] = "SHOWPROOF_PENDING"]
       /\ consented' = consented \cup {<<c, s>> : s \in labels[c]}

-------------------------------------------------------------------------------
(***************************************************************************)
(* Disclosures: what each step makes of them                               *)
(***************************************************************************)

LEMMA NoJobType ==
  /\ NoJob \in Jobs
  /\ NoJob.pc = "idle" /\ NoJob.card = "none" /\ NoJob.session = "none"
  /\ NoJob.proof = {} /\ NoJob.tab = "none"
  BY DEF NoJob, Jobs, Places

LEMMA EndType ==
  ASSUME NEW j \in Jobs, NEW pc \in Places
  PROVE  /\ End(j, pc) \in Jobs
         /\ End(j, pc).pc = pc /\ End(j, pc).card = j.card
         /\ End(j, pc).proof = {}
  BY NoJobType DEF End, Jobs

(* Only where a document is changes when it is left.                       *)
LEMMA LeaveType ==
  ASSUME NEW j \in [Click -> Jobs], NEW t \in Tab
  PROVE  /\ Leave(j, t) \in [Click -> Jobs]
         /\ \A d \in Click :
              /\ Leave(j, t)[d].pc = j[d].pc
              /\ Leave(j, t)[d].card = j[d].card
              /\ Leave(j, t)[d].session = j[d].session
              /\ Leave(j, t)[d].proof = j[d].proof
  <1> DEFINE L == Leave(j, t)
  <1>1. ASSUME NEW d \in Click
        PROVE  /\ L[d] \in Jobs
               /\ L[d].pc = j[d].pc /\ L[d].card = j[d].card
               /\ L[d].session = j[d].session /\ L[d].proof = j[d].proof
    <2>1. j[d] \in Jobs
      OBVIOUS
    <2>2. L[d] = IF j[d].tab = t THEN [j[d] EXCEPT !.tab = "none"] ELSE j[d]
      BY DEF Leave
    <2>3. ASSUME NEW x \in Jobs
          PROVE  /\ [x EXCEPT !.tab = "none"] \in Jobs
                 /\ [x EXCEPT !.tab = "none"].pc = x.pc
                 /\ [x EXCEPT !.tab = "none"].card = x.card
                 /\ [x EXCEPT !.tab = "none"].session = x.session
                 /\ [x EXCEPT !.tab = "none"].proof = x.proof
      BY DEF Jobs
    <2>4. QED
      BY <2>1, <2>2, <2>3
  <1>2. L = [d \in Click |-> L[d]]
    BY DEF Leave
  <1> HIDE DEF L
  <1>3. L \in [Click -> Jobs]
    BY <1>1, <1>2
  <1>4. QED
    BY <1>1, <1>3 DEF L

(* A disclosure whose card, place, session and proof stay as they are.     *)
LEMMA SameKept ==
  ASSUME NEW d \in Click, OneProof(job[d]),
         job'[d].card = job[d].card, job'[d].pc = job[d].pc,
         job'[d].session = job[d].session, job'[d].proof = job[d].proof
  PROVE  Kept(d)
  BY DEF Kept, OneProof, Under, SettingUp

LEMMA LeaveKept ==
  ASSUME JobInv, NEW t \in Tab, job' = Leave(job, t)
  PROVE  job' \in [Click -> Jobs] /\ \A d \in Click : Kept(d)
  BY LeaveType, SameKept DEF JobInv

(* A disclosure that ends, while the others stay.                          *)
LEMMA EndKept ==
  ASSUME JobInv, NEW d \in Click, NEW pc \in {"over", "thrown"},
         job[d].pc # "idle", Finish(d, pc)
  PROVE  job' \in [Click -> Jobs] /\ \A e \in Click : Kept(e)
  <1>1. pc \in Places /\ job \in [Click -> Jobs]
    BY DEF Places, JobInv
  <1>2. job' = [job EXCEPT ![d] = End(job[d], pc)]
    BY DEF Finish
  <1>3. job' \in [Click -> Jobs]
    BY <1>1, <1>2, EndType
  <1>4. Kept(d)
    <2>1. job'[d].pc = pc /\ job'[d].card = job[d].card /\ job'[d].proof = {}
      BY <1>1, <1>2, EndType
    <2>2. QED
      BY <2>1 DEF Kept, OneProof, Under, SettingUp
  <1>5. ASSUME NEW e \in Click, e # d PROVE Kept(e)
    BY <1>1, <1>2, <1>5, SameKept DEF JobInv
  <1>6. QED
    BY <1>3, <1>4, <1>5

(* A disclosure that moves on, with its card and session.                  *)
LEMMA MoveKept ==
  ASSUME JobInv, NEW d \in Click, NEW j \in Jobs,
         job' = [job EXCEPT ![d] = j],
         j.card = job[d].card, j.session = job[d].session, OneProof(j),
         Under(job[d]), Under(j),
         job[d].pc # "accepted" /\ j.pc = "accepted" => VerifyAccepts(d),
         job[d].pc # "refused" /\ j.pc = "refused" => VerifyRefuses(d),
         job[d].pc # "linked" /\ j.pc = "linked" => VerifyLinks(d)
  PROVE  job' \in [Click -> Jobs] /\ \A e \in Click : Kept(e)
  <1>1. job \in [Click -> Jobs] /\ job' \in [Click -> Jobs] /\ job'[d] = j
    BY DEF JobInv
  <1>2. Kept(d)
    BY <1>1 DEF Kept, Under, SettingUp
  <1>3. ASSUME NEW e \in Click, e # d PROVE Kept(e)
    BY <1>1, <1>3, SameKept DEF JobInv
  <1>4. QED
    BY <1>1, <1>2, <1>3

LEMMA TickKept ==
  ASSUME JobInv, Tick
  PROVE  job' \in [Click -> Jobs] /\ \A d \in Click : Kept(d)
  <1> DEFINE Older(P) == {[p EXCEPT !.since = @ + 1] : p \in P}
  <1>1. ASSUME NEW d \in Click
        PROVE  /\ job'[d] \in Jobs
               /\ job'[d].pc = job[d].pc /\ job'[d].card = job[d].card
               /\ job'[d].session = job[d].session
               /\ job'[d].proof = Older(job[d].proof)
    <2>1. \A p \in job[d].proof : p \in Made /\ p.since < MaxAge
      BY DEF JobInv, Jobs, Tick
    <2>2. \A p \in job[d].proof : [p EXCEPT !.since = @ + 1] \in Made
      BY <2>1 DEF Made
    <2>3. Older(job[d].proof) \in SUBSET Made
      BY <2>2
    <2>4. job'[d] = [job[d] EXCEPT !.proof = Older(job[d].proof)]
      BY DEF Tick
    <2> HIDE DEF Older
    <2>5. job[d] \in Jobs
      BY DEF JobInv
    <2>6. QED
      BY <2>3, <2>4, <2>5 DEF Jobs
  <1>2. job' = [d \in Click |-> job'[d]]
    BY DEF Tick
  <1>3. job' \in [Click -> Jobs]
    BY <1>1, <1>2
  <1>4. ASSUME NEW d \in Click PROVE Kept(d)
    <2>1. \A p \in job[d].proof : [p EXCEPT !.since = @ + 1].card = p.card
      BY DEF JobInv, Jobs, Made
    <2>2. OneProof(job[d])
      BY DEF JobInv
    <2>3. OneProof(job'[d])
      <3>1. ASSUME NEW p \in job'[d].proof
            PROVE  \E o \in job[d].proof : p = [o EXCEPT !.since = @ + 1]
        BY <1>1
      <3>2. ASSUME NEW p \in job'[d].proof, NEW q \in job'[d].proof
            PROVE  p.card = job'[d].card /\ p = q
        <4>1. PICK o \in job[d].proof : p = [o EXCEPT !.since = @ + 1]
          BY <3>1
        <4>2. PICK n \in job[d].proof : q = [n EXCEPT !.since = @ + 1]
          BY <3>1
        <4>3. o = n /\ o.card = job[d].card
          BY <2>2 DEF OneProof
        <4>4. QED
          BY <1>1, <2>1, <4>1, <4>2, <4>3
      <3>3. QED
        BY <3>2 DEF OneProof
    <2>4. QED
      BY <1>1, <2>3 DEF Kept, Under
  <1>5. QED
    BY <1>3, <1>4

LEMMA MidnightKept ==
  ASSUME JobInv, Midnight
  PROVE  job' \in [Click -> Jobs] /\ \A d \in Click : Kept(d)
  <1>1. PICK same \in SUBSET Click :
          job' = [d \in Click |->
                    [job[d] EXCEPT
                       !.proof = {[p EXCEPT !.alike = \/ d \in same
                                                      \/ p.card \notin Aged]
                                    : p \in @}]]
    BY DEF Midnight
  <1> DEFINE Count(d, p) == [p EXCEPT !.alike = \/ d \in same
                                                \/ p.card \notin Aged]
             Counted(d, P) == {Count(d, p) : p \in P}
  <1>2. ASSUME NEW d \in Click, NEW p \in Made
        PROVE  Count(d, p) \in Made /\ Count(d, p).card = p.card
    <2>1. ASSUME NEW b \in BOOLEAN
          PROVE  [p EXCEPT !.alike = b] \in Made
                 /\ [p EXCEPT !.alike = b].card = p.card
      BY DEF Made
    <2>2. (d \in same \/ p.card \notin Aged) \in BOOLEAN
      OBVIOUS
    <2>3. QED
      BY <2>1, <2>2
  <1>3. ASSUME NEW d \in Click
        PROVE  /\ job[d].proof \in SUBSET Made
               /\ job'[d] \in Jobs
               /\ job'[d].pc = job[d].pc /\ job'[d].card = job[d].card
               /\ job'[d].session = job[d].session
               /\ job'[d].proof = Counted(d, job[d].proof)
    <2>1. job'[d] = [job[d] EXCEPT !.proof = Counted(d, job[d].proof)]
      BY <1>1
    <2>2. job[d] \in Jobs /\ job[d].proof \in SUBSET Made
      BY DEF JobInv, Jobs
    <2> HIDE DEF Count
    <2>3. Counted(d, job[d].proof) \in SUBSET Made
      BY <1>2, <2>2
    <2> HIDE DEF Counted
    <2>4. QED
      BY <2>1, <2>2, <2>3 DEF Jobs
  <1>4. job' = [d \in Click |-> job'[d]]
    BY <1>1
  <1> HIDE DEF Count
  <1>5. job' \in [Click -> Jobs]
    BY <1>3, <1>4
  <1>6. ASSUME NEW d \in Click PROVE Kept(d)
    <2>1. OneProof(job[d])
      BY DEF JobInv
    <2>2. ASSUME NEW p \in job'[d].proof, NEW q \in job'[d].proof
          PROVE  p.card = job'[d].card /\ p = q
      <3>1. PICK o \in job[d].proof : p = Count(d, o)
        BY <1>3
      <3>2. PICK n \in job[d].proof : q = Count(d, n)
        BY <1>3
      <3>3. o = n /\ o.card = job[d].card /\ o \in Made
        BY <1>3, <2>1 DEF OneProof
      <3>4. QED
        BY <1>2, <1>3, <3>1, <3>2, <3>3
    <2>3. OneProof(job'[d])
      BY <2>2 DEF OneProof
    <2>4. QED
      BY <1>3, <2>3 DEF Kept, Under
  <1>7. QED
    BY <1>5, <1>6

(* A disclosure that moves on without an answer.                           *)
LEMMA GotoKept ==
  ASSUME JobInv, NEW d \in Click, NEW pc \in {"made"} \cup SettingUp,
         Under(job[d]), Goto(d, pc), pc = "linked" => VerifyLinks(d)
  PROVE  job' \in [Click -> Jobs] /\ \A e \in Click : Kept(e)
  <1> DEFINE j == [job[d] EXCEPT !.pc = pc]
  <1>1. job \in [Click -> Jobs] /\ OneProof(job[d])
    BY DEF JobInv
  <1>2. job' = [job EXCEPT ![d] = j]
    BY <1>1 DEF Goto
  <1>3. /\ j \in Jobs /\ j.pc = pc /\ j.card = job[d].card
        /\ j.session = job[d].session /\ j.proof = job[d].proof
    BY <1>1 DEF Jobs, Places, SettingUp
  <1> HIDE DEF j
  <1>4. OneProof(j) /\ Under(j) /\ j.pc \notin {"accepted", "refused"}
    BY <1>1, <1>3 DEF OneProof, Under, SettingUp
  <1>5. QED
    BY <1>2, <1>3, <1>4, MoveKept

LEMMA DiscloseStarts ==
  ASSUME TypeOK, JobInv, NEW d \in Click, Disclose(d)
  PROVE  /\ job' \in [Click -> Jobs]
         /\ \A e \in Click : IF e = d THEN Started(e) ELSE Kept(e)
  <1>1. PICK c \in Card :
          /\ status[c] = "DISCLOSABLE"
          /\ job' = [job EXCEPT ![d] = [NoJob EXCEPT !.pc = "sent", !.card = c,
                                                     !.session = params[c]]]
          /\ status' = [status EXCEPT ![c] = "SHOWPROOF_PENDING"]
          /\ consented' = consented \cup {<<c, s>> : s \in labels[c]}
    BY DEF Disclose, KeptRequest
  <1>2. params[c] \in Session \cup {"none"} /\ job \in [Click -> Jobs]
    BY DEF TypeOK, JobInv
  <1> DEFINE r == [NoJob EXCEPT !.pc = "sent", !.card = c,
                                !.session = params[c]]
  <1>3. /\ r \in Jobs
        /\ r.pc = "sent" /\ r.card = c /\ r.session = params[c]
        /\ r.proof = {}
    BY <1>2, NoJobType DEF Jobs, Places
  <1>4. job' = [job EXCEPT ![d] = r]
    BY <1>1
  <1> HIDE DEF r
  <1>5. job' \in [Click -> Jobs] /\ job'[d] = r
    BY <1>2, <1>3, <1>4
  <1>6. Started(d)
    BY <1>1, <1>3, <1>5 DEF Started, Disclose
  <1>7. ASSUME NEW e \in Click, e # d PROVE Kept(e)
    BY <1>2, <1>4, <1>7, SameKept DEF JobInv
  <1>8. QED
    BY <1>5, <1>6, <1>7

LEMMA HandleKept ==
  ASSUME JobInv, NEW d \in Click, HandleDisclose(d)
  PROVE  job' \in [Click -> Jobs] /\ \A e \in Click : Kept(e)
  <1>1. /\ job \in [Click -> Jobs] /\ job[d].pc = "sent"
        /\ job[d].card \in Card /\ OneProof(job[d])
    BY DEF JobInv, HandleDisclose, Under
  <1>2. CASE MakeProof(d)
    <2>0. PICK alike \in BOOLEAN :
            job' = [job EXCEPT ![d].pc = "made",
                               ![d].proof = {[card |-> job[d].card, since |-> 0,
                                              alike |-> alike]}]
      BY <1>2 DEF MakeProof
    <2> DEFINE P == {[card |-> job[d].card, since |-> 0, alike |-> alike]}
               j == [job[d] EXCEPT !.pc = "made", !.proof = P]
    <2>1. P \in SUBSET Made /\ \A p \in P : p.card = job[d].card
      BY <1>1 DEF Made
    <2>2. \A p, q \in P : p = q
      OBVIOUS
    <2>3. job' = [job EXCEPT ![d] = j]
      BY <1>1, <2>0
    <2> HIDE DEF P
    <2>4. /\ j \in Jobs /\ j.pc = "made" /\ j.card = job[d].card
          /\ j.session = job[d].session /\ j.proof = P
      BY <1>1, <2>1 DEF Jobs, Places
    <2> HIDE DEF j
    <2>5. OneProof(j) /\ Under(j) /\ Under(job[d])
      BY <1>1, <2>1, <2>2, <2>4 DEF OneProof, Under
    <2>6. QED
      BY <1>1, <2>3, <2>4, <2>5, MoveKept
  <1>3. CASE Goto(d, "made")
    BY <1>1, <1>3, GotoKept DEF Under
  <1>4. CASE Finish(d, "thrown") \/ Finish(d, "over")
    BY <1>1, <1>4, EndKept
  <1>5. QED
    BY <1>2, <1>3, <1>4 DEF HandleDisclose

LEMMA SendKept ==
  ASSUME TypeOK, JobInv, NEW d \in Click, SendProof(d)
  PROVE  job' \in [Click -> Jobs] /\ \A e \in Click : Kept(e)
  <1>1. /\ job \in [Click -> Jobs] /\ job[d].pc = "made"
        /\ active \in Tab /\ OneProof(job[d])
    BY DEF JobInv, TypeOK, SendProof
  <1>2. CASE job' = [job EXCEPT ![d].pc = "posting", ![d].tab = active]
    <2> DEFINE j == [job[d] EXCEPT !.pc = "posting", !.tab = active]
    <2>1. job' = [job EXCEPT ![d] = j]
      BY <1>1, <1>2
    <2>2. /\ j \in Jobs /\ j.pc = "posting" /\ j.card = job[d].card
          /\ j.session = job[d].session /\ j.proof = job[d].proof
      BY <1>1 DEF Jobs, Places
    <2> HIDE DEF j
    <2>3. OneProof(j) /\ Under(j) /\ Under(job[d])
      BY <1>1, <2>2 DEF OneProof, Under
    <2>4. QED
      BY <1>1, <2>1, <2>2, <2>3, MoveKept
  <1>3. CASE Finish(d, "over")
    BY <1>1, <1>3, EndKept
  <1>4. QED
    BY <1>2, <1>3 DEF SendProof

(* The places of a call of /verify, at the verifier or before it.          *)
LEMMA Posted ==
  ASSUME NEW d \in Click, VerifyAccepts(d) \/ VerifyRefuses(d)
  PROVE  job[d].pc \in {"posting"} \cup SettingUp
  BY DEF VerifyAccepts, VerifyRefuses, Refusable, AtProof, SettingUp

LEMMA VerifyKept ==
  ASSUME JobInv, NEW d \in Click, VerifyAccepts(d) \/ VerifyRefuses(d)
  PROVE  job' \in [Click -> Jobs] /\ \A e \in Click : Kept(e)
  <1> DEFINE pc == IF VerifyAccepts(d) THEN "accepted" ELSE "refused"
             j == [job[d] EXCEPT !.pc = pc, !.proof = {}]
  <1>1. job \in [Click -> Jobs] /\ Under(job[d])
    BY Posted DEF JobInv, Under
  <1>2. job' = [job EXCEPT ![d] = j]
    BY <1>1 DEF VerifyAccepts, VerifyRefuses
  <1>3. /\ pc \in {"accepted", "refused"}
        /\ pc = "accepted" => VerifyAccepts(d)
        /\ pc = "refused" => VerifyRefuses(d)
    OBVIOUS
  <1> HIDE DEF pc
  <1>4. /\ j \in Jobs /\ j.pc = pc /\ j.card = job[d].card
        /\ j.session = job[d].session /\ j.proof = {}
    BY <1>1, <1>3 DEF Jobs, Places
  <1> HIDE DEF j
  <1>5. OneProof(j) /\ Under(j)
    BY <1>3, <1>4 DEF OneProof, Under
  <1>6. QED
    BY <1>1, <1>2, <1>3, <1>4, <1>5, MoveKept

LEMMA SetUpKept ==
  ASSUME JobInv, NEW d \in Click,
         VerifyMisses(d) \/ VerifyMakes(d) \/ VerifyLinks(d)
  PROVE  job' \in [Click -> Jobs] /\ \A e \in Click : Kept(e)
  BY GotoKept DEF VerifyMisses, VerifyMakes, VerifyLinks, Under, SettingUp

LEMMA ShowKept ==
  ASSUME JobInv, NEW d \in Click, ShowResponse(d)
  PROVE  job' \in [Click -> Jobs] /\ \A e \in Click : Kept(e)
  <1>1. job \in [Click -> Jobs] /\ job[d].pc \in {"accepted", "refused"}
    BY DEF JobInv, ShowResponse
  <1>2. CASE job[d].tab = "none"
    BY <1>1, <1>2, EndKept DEF ShowResponse
  <1>3. CASE job[d].tab # "none"
    <2> DEFINE t == job[d].tab
               k == [job EXCEPT ![d] = End(job[d], "over")]
    <2>1. t \in Tab /\ job' = Leave(k, t)
      BY <1>1, <1>3 DEF ShowResponse, Jobs
    <2>2. /\ k \in [Click -> Jobs]
          /\ k[d].pc = "over" /\ k[d].card = job[d].card /\ k[d].proof = {}
      BY <1>1, EndType DEF Places
    <2>3. \A e \in Click \ {d} : k[e] = job[e]
      BY <1>1
    <2> HIDE DEF t, k
    <2>4. job' \in [Click -> Jobs]
      BY <2>1, <2>2, LeaveType
    <2>5. Kept(d)
      <3>1. /\ job'[d].pc = "over" /\ job'[d].card = job[d].card
            /\ job'[d].proof = {}
        BY <2>1, <2>2, LeaveType
      <3>2. QED
        BY <1>1, <3>1 DEF Kept, OneProof, Under, SettingUp
    <2>6. ASSUME NEW e \in Click, e # d PROVE Kept(e)
      <3>1. /\ job'[e].pc = job[e].pc /\ job'[e].card = job[e].card
            /\ job'[e].session = job[e].session
            /\ job'[e].proof = job[e].proof
        BY <2>1, <2>2, <2>3, <2>6, LeaveType
      <3>2. QED
        BY <3>1, SameKept DEF JobInv
    <2>7. QED
      BY <2>4, <2>5, <2>6
  <1>4. QED
    BY <1>2, <1>3

(* The disclosures in some places are over, the others stay.               *)
LEMMA StopKept ==
  ASSUME JobInv, NEW S, "idle" \notin S,
         job' = [d \in Click |-> IF job[d].pc \in S THEN End(job[d], "over")
                                                   ELSE job[d]]
  PROVE  job' \in [Click -> Jobs] /\ \A d \in Click : Kept(d)
  <1>1. ASSUME NEW d \in Click PROVE job'[d] \in Jobs /\ Kept(d)
    <2>1. job[d] \in Jobs /\ OneProof(job[d])
      BY DEF JobInv
    <2>2. CASE job[d].pc \in S
      <3>1. job'[d] = End(job[d], "over")
        BY <2>2
      <3>2. /\ job'[d] \in Jobs /\ job'[d].pc = "over"
            /\ job'[d].card = job[d].card /\ job'[d].proof = {}
        BY <2>1, <3>1, EndType DEF Places
      <3>3. QED
        BY <2>2, <3>2 DEF Kept, OneProof, Under, SettingUp
    <2>3. CASE job[d].pc \notin S
      <3>1. job'[d] = job[d]
        BY <2>3
      <3>2. QED
        BY <2>1, <3>1, SameKept
    <2>4. QED
      BY <2>2, <2>3
  <1>2. job' = [d \in Click |-> job'[d]]
    OBVIOUS
  <1>3. QED
    BY <1>1, <1>2

LEMMA JobMoves ==
  ASSUME TypeOK, JobInv, [Next]_vars
  PROVE  /\ job' \in [Click -> Jobs]
         /\ \A e \in Click : Kept(e) \/ Started(e)
  <1>1. CASE Tick \/ Midnight
    BY <1>1, TickKept, MidnightKept
  <1>2. ASSUME NEW t \in Tab, Visit(t) \/ GoAway(t)
        PROVE  job' \in [Click -> Jobs] /\ \A e \in Click : Kept(e)
    BY <1>2, LeaveKept DEF Visit, GoAway
  <1>3. ASSUME NEW d \in Click, Disclose(d)
        PROVE  /\ job' \in [Click -> Jobs]
               /\ \A e \in Click : Kept(e) \/ Started(e)
    BY <1>3, DiscloseStarts
  <1>4. ASSUME NEW d \in Click, Present(d)
        PROVE  job' \in [Click -> Jobs] /\ \A e \in Click : Kept(e)
    <2>1. CASE VerifyFails(d)
      BY <2>1, EndKept DEF VerifyFails, SettingUp
    <2>2. QED
      BY <1>4, <2>1, HandleKept, SendKept, SetUpKept, VerifyKept, ShowKept
         DEF Present
  <1>5. CASE WorkerStops \/ VerifierRestarts
    BY <1>5, StopKept DEF WorkerStops, VerifierRestarts, SettingUp
  <1>6. CASE job' = job
    BY <1>6, SameKept DEF JobInv
  <1>7. CASE \/ \E t \in Tab : Activate(t)
             \/ OpenPopup \/ ShowAnew \/ ClosePopup \/ Scan
             \/ \E c \in Card : \/ MarkPrepared(c) \/ TellPrepared(c)
                                \/ ShowPrepared(c)
             \/ \E d \in Click : DiscloseReturns(d)
             \/ UNCHANGED vars
    BY <1>6, <1>7 DEF Activate, OpenPopup, ShowAnew, ClosePopup, Scan,
         MarkPrepared, TellPrepared, ShowPrepared, DiscloseReturns, vars
  <1>8. QED
    BY <1>1, <1>2, <1>3, <1>4, <1>5, <1>7 DEF Next

-------------------------------------------------------------------------------
(***************************************************************************)
(* Type correctness                                                        *)
(***************************************************************************)

(* The steps that leave the popup's record of the cards alone.             *)
Aside == \/ Tick \/ Midnight \/ WorkerStops \/ VerifierRestarts
         \/ \E t \in Tab : Visit(t) \/ GoAway(t) \/ Activate(t)
         \/ \E c \in Card : MarkPrepared(c)
         \/ \E d \in Click : Present(d)
         \/ UNCHANGED vars

LEMMA AsideLeaves ==
  Aside => UNCHANGED <<open, status, params, labels, timer, early, wait,
                       consented>>
  BY DEF Aside, Tick, Midnight, WorkerStops, VerifierRestarts, Visit, GoAway,
         Activate, MarkPrepared, Present, HandleDisclose, SendProof,
         VerifyMisses, VerifyMakes, VerifyLinks, VerifyAccepts, VerifyRefuses,
         VerifyFails, ShowResponse, JobOnly, vars

LEMMA InitType == Init => TypeOK /\ JobInv
  <1> SUFFICES ASSUME Init PROVE TypeOK /\ JobInv
    OBVIOUS
  <1>1. Book!TypeOK
    BY DEF Init, Book!Init, Book!TypeOK, Book!Standings
  <1>2. page \in [Tab -> Page] /\ active \in Tab
    BY DEF Init, Page, Blank
  <1>3. job \in [Click -> Jobs] /\ JobInv
    <2>1. job \in [Click -> Jobs]
      BY NoJobType DEF Init
    <2>2. QED
      BY <2>1, NoJobType DEF Init, JobInv, OneProof, Under, SettingUp
  <1>4. /\ stage \in [Card -> Stages]
        /\ open \in BOOLEAN /\ scan \in BOOLEAN
        /\ wait \in [Click -> {"idle", "waiting", "detached", "over"}]
        /\ consented \subseteq Card \X Session
        /\ results \in [Session -> SUBSET Card]
        /\ folder \in [Folder -> {"none", "partial"} \cup Key]
    BY FolderAssumption DEF Init, Stages
  <1>5. /\ status \in [Card -> {"none", "PREPARING", "PREPARED",
                                "DISCLOSABLE", "SHOWPROOF_PENDING"}]
        /\ params \in [Card -> Session \cup {"none"}]
        /\ labels \in [Card -> SUBSET Session]
        /\ timer \in [Card -> BOOLEAN] /\ early \in [Card -> BOOLEAN]
        /\ \A c \in Card : status[c] = "none"
    BY DEF Init, Closed
  <1>6. QED
    BY <1>1, <1>2, <1>3, <1>4, <1>5 DEF TypeOK, Jobs

(* The verifier's side.  A session that has been issued stays so.          *)
LEMMA StandingMoves ==
  ASSUME TypeOK, [Next]_vars
  PROVE  /\ Book!TypeOK'
         /\ \A s \in Session : standing[s] # "fresh" => standing'[s] # "fresh"
  <1>0. standing \in [Session -> Book!Standings]
    BY DEF TypeOK, Book!TypeOK
  <1>1. ASSUME NEW t \in Tab, Visit(t)
        PROVE  \E s \in Session : Book!Issue(s)
    BY <1>1 DEF Visit
  <1>2. ASSUME NEW d \in Click, VerifyAccepts(d)
        PROVE  (\E s \in Session : Book!Validate(s)) \/ UNCHANGED standing
    <2>1. \/ Book!Validate(job[d].session)
          \/ UNCHANGED standing
      BY <1>2 DEF VerifyAccepts
    <2>2. CASE job[d].session \in Session
      BY <2>1, <2>2
    <2>3. CASE job[d].session \notin Session
      BY <1>0, <2>1, <2>3 DEF Book!Validate
    <2>4. QED
      BY <2>2, <2>3
  <1>3. ASSUME NEW d \in Click, VerifyRefuses(d)
        PROVE  (\E s \in Session : Book!Issue(s)) \/ UNCHANGED standing
    BY <1>3 DEF VerifyRefuses, Draw
  <1>4. CASE VerifierRestarts
    BY <1>0, <1>4 DEF VerifierRestarts, Book!Crash, Book!TypeOK,
                      Book!Standings
  <1>5. CASE \/ \E s \in Session : Book!Issue(s) \/ Book!Validate(s)
             \/ UNCHANGED standing
    BY <1>0, <1>5 DEF Book!Issue, Book!Validate, Book!TypeOK, Book!Standings
  <1>6. CASE \/ Tick \/ Midnight \/ \E t \in Tab : GoAway(t) \/ Activate(t)
             \/ OpenPopup \/ ShowAnew \/ ClosePopup \/ Scan
             \/ \E c \in Card : \/ MarkPrepared(c) \/ TellPrepared(c)
                                \/ ShowPrepared(c)
             \/ \E d \in Click : \/ Disclose(d) \/ DiscloseReturns(d)
                                 \/ HandleDisclose(d) \/ SendProof(d)
                                 \/ VerifyMisses(d) \/ VerifyMakes(d)
                                 \/ VerifyLinks(d)
                                 \/ VerifyFails(d) \/ ShowResponse(d)
             \/ WorkerStops \/ UNCHANGED vars
    BY <1>5, <1>6 DEF Tick, Midnight, GoAway, Activate, OpenPopup, ShowAnew,
         ClosePopup, Scan, MarkPrepared, TellPrepared, ShowPrepared, Disclose,
         DiscloseReturns, HandleDisclose, SendProof, VerifyMisses,
         VerifyMakes, VerifyLinks, VerifyFails, ShowResponse, JobOnly,
         WorkerStops, server, vars
  <1>7. QED
    BY <1>1, <1>2, <1>3, <1>4, <1>5, <1>6 DEF Next, Present

LEMMA ResultMoves ==
  ASSUME TypeOK, JobInv, [Next]_vars
  PROVE  /\ results' \in [Session -> SUBSET Card]
         /\ \A s \in Session : \A c \in results'[s] :
              c \in results[s] \/ <<c, s>> \in consented
  <1>1. ASSUME NEW d \in Click, VerifyAccepts(d)
        PROVE  /\ results' \in [Session -> SUBSET Card]
               /\ \A s \in Session : \A c \in results'[s] :
                    c \in results[s] \/ <<c, s>> \in consented
    <2> DEFINE R == {p.card : p \in job[d].proof}
    <2>1. results' = [results EXCEPT ![job[d].session] = R]
      BY <1>1 DEF VerifyAccepts
    <2>2. Under(job[d]) /\ OneProof(job[d])
      BY <1>1, Posted DEF JobInv, Under
    <2>3. /\ job[d].card \in Card
          /\ <<job[d].card, job[d].session>> \in consented
          /\ R \subseteq {job[d].card}
      BY <2>2 DEF JobInv, OneProof
    <2>4. results \in [Session -> SUBSET Card]
      BY DEF TypeOK
    <2> HIDE DEF R
    <2>5. QED
      BY <2>1, <2>3, <2>4
  <1>2. CASE VerifierRestarts
    BY <1>2 DEF VerifierRestarts
  <1>3. CASE UNCHANGED results
    BY <1>3 DEF TypeOK
  <1>4. CASE \/ Tick \/ Midnight
             \/ \E t \in Tab : Visit(t) \/ GoAway(t) \/ Activate(t)
             \/ OpenPopup \/ ShowAnew \/ ClosePopup \/ Scan
             \/ \E c \in Card : \/ MarkPrepared(c) \/ TellPrepared(c)
                                \/ ShowPrepared(c)
             \/ \E d \in Click : \/ Disclose(d) \/ DiscloseReturns(d)
                                 \/ HandleDisclose(d) \/ SendProof(d)
                                 \/ VerifyMisses(d) \/ VerifyMakes(d)
                                 \/ VerifyLinks(d) \/ VerifyRefuses(d)
                                 \/ VerifyFails(d) \/ ShowResponse(d)
             \/ WorkerStops \/ UNCHANGED vars
    BY <1>3, <1>4 DEF Tick, Midnight, Visit, GoAway, Activate, OpenPopup,
         ShowAnew, ClosePopup, Scan, MarkPrepared, TellPrepared, ShowPrepared,
         Disclose, DiscloseReturns, HandleDisclose, SendProof, VerifyMisses,
         VerifyMakes, VerifyLinks, VerifyRefuses, VerifyFails, ShowResponse,
         JobOnly, WorkerStops, vars
  <1>5. QED
    BY <1>1, <1>2, <1>4 DEF Next, Present

(* A page with a request is new with its session; one with a result shows  *)
(* what the user clicked for; all others are from before.                  *)
LEMMA PageMoves ==
  ASSUME TypeOK, JobInv, [Next]_vars
  PROVE  /\ page' \in [Tab -> Page] /\ active' \in Tab
         /\ \A t \in Tab :
              \/ page'[t] = page[t]
              \/ page'[t] = Blank
              \/ /\ page'[t].kind = "login"
                 /\ page'[t].session \in Session
                 /\ standing'[page'[t].session] = "open"
              \/ /\ page'[t].kind = "result"
                 /\ \E d \in Click : /\ Under(job[d])
                                     /\ page'[t].session = job[d].session
  <1>0. page \in [Tab -> Page] /\ active \in Tab
        /\ standing \in [Session -> Book!Standings]
    BY DEF TypeOK, Book!TypeOK
  <1>1. ASSUME NEW t \in Tab, Visit(t)
        PROVE  /\ page' \in [Tab -> Page] /\ active' \in Tab
               /\ \A u \in Tab :
                    \/ page'[u] = page[u]
                    \/ /\ page'[u].kind = "login"
                       /\ page'[u].session \in Session
                       /\ standing'[page'[u].session] = "open"
    <2>1. PICK s \in Session :
            /\ Book!Issue(s)
            /\ page' = [page EXCEPT ![t] = [kind |-> "login", session |-> s]]
      BY <1>1 DEF Visit
    <2>2. standing'[s] = "open"
      BY <1>0, <2>1 DEF Book!Issue
    <2>3. [kind |-> "login", session |-> s] \in Page
      BY DEF Page
    <2>4. active' = active
      BY <1>1 DEF Visit
    <2>5. QED
      BY <1>0, <2>1, <2>2, <2>3, <2>4
  <1>2. ASSUME NEW t \in Tab, GoAway(t)
        PROVE  /\ page' \in [Tab -> Page] /\ active' \in Tab
               /\ \A u \in Tab : page'[u] = page[u] \/ page'[u] = Blank
    <2>1. Blank \in Page
      BY DEF Blank, Page
    <2>2. QED
      BY <1>0, <1>2, <2>1 DEF GoAway
  <1>3. ASSUME NEW d \in Click, ShowResponse(d)
        PROVE  /\ page' \in [Tab -> Page] /\ active' \in Tab
               /\ \A u \in Tab :
                    \/ page'[u] = page[u] \/ page'[u] = Blank
                    \/ /\ page'[u].kind = "result"
                       /\ \E e \in Click : /\ Under(job[e])
                                           /\ page'[u].session = job[e].session
    <2>1. /\ Under(job[d]) /\ job[d].session \in Session
          /\ job[d].tab \in Tab \cup {"none"} /\ active' = active
      BY <1>3 DEF ShowResponse, JobInv, Under, Jobs
    <2> DEFINE r == [kind |-> "result", session |-> job[d].session]
    <2>2. r \in Page /\ r.kind = "result" /\ r.session = job[d].session
      BY <2>1 DEF Page
    <2>3. Blank \in Page
      BY DEF Blank, Page
    <2>4. \/ page' = page
          \/ page' = [page EXCEPT ![job[d].tab] = r]
          \/ page' = [page EXCEPT ![job[d].tab] = Blank]
      BY <1>3 DEF ShowResponse
    <2> HIDE DEF r
    <2>5. QED
      BY <1>0, <2>1, <2>2, <2>3, <2>4
  <1>4. ASSUME NEW t \in Tab, Activate(t)
        PROVE  page' = page /\ active' \in Tab
    BY <1>4 DEF Activate
  <1>5. CASE page' = page /\ active' \in Tab
    BY <1>0, <1>5
  <1>6. CASE \/ Tick \/ Midnight \/ OpenPopup \/ ShowAnew \/ ClosePopup \/ Scan
             \/ \E c \in Card : \/ MarkPrepared(c) \/ TellPrepared(c)
                                \/ ShowPrepared(c)
             \/ \E d \in Click : \/ Disclose(d) \/ DiscloseReturns(d)
                                 \/ HandleDisclose(d) \/ SendProof(d)
                                 \/ VerifyMisses(d) \/ VerifyMakes(d)
                                 \/ VerifyLinks(d) \/ VerifyAccepts(d)
                                 \/ VerifyRefuses(d) \/ VerifyFails(d)
             \/ WorkerStops \/ VerifierRestarts \/ UNCHANGED vars
    BY <1>0, <1>5, <1>6 DEF Tick, Midnight, OpenPopup, ShowAnew, ClosePopup,
         Scan, MarkPrepared, TellPrepared, ShowPrepared, Disclose,
         DiscloseReturns, HandleDisclose, SendProof, VerifyMisses,
         VerifyMakes, VerifyLinks, VerifyAccepts, VerifyRefuses, VerifyFails,
         JobOnly, WorkerStops, VerifierRestarts, vars
  <1>7. QED
    BY <1>1, <1>2, <1>3, <1>4, <1>5, <1>6 DEF Next, Present

Statuses == {"none", "PREPARING", "PREPARED", "DISCLOSABLE",
             "SHOWPROOF_PENDING"}

(* The part of TypeOK about the popup and the preparations.                *)
PopupType ==
  /\ stage \in [Card -> Stages]
  /\ open \in BOOLEAN /\ scan \in BOOLEAN
  /\ status \in [Card -> Statuses]
  /\ params \in [Card -> Session \cup {"none"}]
  /\ \A c \in Card : status[c] \in {"DISCLOSABLE", "SHOWPROOF_PENDING"} =>
        params[c] \in labels[c]
  /\ labels \in [Card -> SUBSET Session]
  /\ timer \in [Card -> BOOLEAN] /\ early \in [Card -> BOOLEAN]
  /\ wait \in [Click -> {"idle", "waiting", "detached", "over"}]
  /\ consented \subseteq Card \X Session

LEMMA PopupTypeNext ==
  ASSUME TypeOK, [Next]_vars
  PROVE  PopupType'
  <1>0. PopupType
    BY DEF TypeOK, PopupType, Statuses
  <1>1. ASSUME NEW t \in Tab, Visit(t) PROVE PopupType'
    BY <1>0, <1>1 DEF PopupType, Visit
  <1>2. ASSUME NEW c \in Card, MarkPrepared(c) \/ TellPrepared(c)
        PROVE  PopupType'
    BY <1>0, <1>2 DEF PopupType, MarkPrepared, TellPrepared, Stages
  <1>3. CASE OpenPopup
    <2>1. LoadCards /\ open' = TRUE /\ scan' = TRUE
          /\ UNCHANGED <<stage, wait, consented>>
      BY <1>3 DEF OpenPopup
    <2>2. QED
      BY <1>0, <2>1 DEF PopupType, LoadCards, Statuses
  <1>4. CASE ShowAnew
    <2>1. LoadCards /\ UNCHANGED <<open, scan, stage, consented>>
      BY <1>4 DEF ShowAnew
    <2>2. wait' \in [Click -> {"idle", "waiting", "detached", "over"}]
      BY <1>0, <1>4 DEF ShowAnew, PopupType
    <2>3. QED
      BY <1>0, <2>1, <2>2 DEF PopupType, LoadCards, Statuses
  <1>5. CASE ClosePopup \/ \E d \in Click : DiscloseReturns(d)
    <2>1. Close /\ UNCHANGED <<stage, consented>>
      BY <1>5 DEF ClosePopup, DiscloseReturns
    <2>2. QED
      BY <1>0, <2>1 DEF PopupType, Close, Closed, Statuses
  <1>6. ASSUME NEW c \in Card, ShowPrepared(c) PROVE PopupType'
    BY <1>0, <1>6 DEF PopupType, ShowPrepared, Statuses
  <1>7. CASE Scan
    <2>1. CASE HasRequest(page[active])
      <3>1. page[active].session \in Session
        BY <2>1 DEF HasRequest, TypeOK, Page
      <3> DEFINE s == page[active].session
      <3>2. /\ status' = [c \in Card |-> IF TakesRequest(c) THEN "DISCLOSABLE"
                                                            ELSE status[c]]
            /\ params' = [c \in Card |-> IF TakesRequest(c) THEN s
                                                            ELSE params[c]]
            /\ labels' = [c \in Card |-> IF TakesRequest(c)
                                            THEN labels[c] \cup {s}
                                            ELSE labels[c]]
            /\ scan' = FALSE
            /\ UNCHANGED <<stage, open, timer, early, wait, consented>>
        BY <1>7, <2>1 DEF Scan
      <3> HIDE DEF s
      <3>3. s \in Session
        BY <3>1 DEF s
      <3>4. /\ status' \in [Card -> Statuses]
            /\ params' \in [Card -> Session \cup {"none"}]
            /\ labels' \in [Card -> SUBSET Session]
        BY <1>0, <3>2, <3>3 DEF PopupType, Statuses
      <3>5. \A c \in Card : status'[c] \in {"DISCLOSABLE", "SHOWPROOF_PENDING"}
              => params'[c] \in labels'[c]
        BY <1>0, <3>2, <3>3 DEF PopupType
      <3>6. QED
        BY <1>0, <3>2, <3>4, <3>5 DEF PopupType
    <2>2. CASE ~HasRequest(page[active])
      BY <1>0, <1>7, <2>2 DEF PopupType, Scan
    <2>3. QED
      BY <2>1, <2>2
  <1>8. ASSUME NEW d \in Click, Disclose(d) PROVE PopupType'
    <2>1. PICK c \in Card :
            /\ status[c] = "DISCLOSABLE"
            /\ status' = [status EXCEPT ![c] = "SHOWPROOF_PENDING"]
            /\ consented' = consented \cup {<<c, s>> : s \in labels[c]}
      BY <1>8 DEF Disclose
    <2>2. /\ wait' = [wait EXCEPT ![d] = "waiting"]
          /\ UNCHANGED <<stage, open, scan, params, labels, timer, early>>
      BY <1>8 DEF Disclose
    <2>3. consented' \subseteq Card \X Session
      BY <1>0, <2>1 DEF PopupType
    <2>4. QED
      BY <1>0, <2>1, <2>2, <2>3 DEF PopupType, Statuses
  <1>9. CASE UNCHANGED <<stage, popup, wait, consented>>
    BY <1>0, <1>9 DEF PopupType
  <1>10. CASE \/ Tick \/ Midnight
              \/ \E t \in Tab : GoAway(t) \/ Activate(t)
              \/ \E d \in Click : Present(d)
              \/ WorkerStops \/ VerifierRestarts \/ UNCHANGED vars
    BY <1>9, <1>10 DEF Tick, Midnight, GoAway, Activate, Present,
         HandleDisclose, SendProof, VerifyMisses, VerifyMakes, VerifyLinks,
         VerifyAccepts, VerifyRefuses, VerifyFails, ShowResponse, JobOnly,
         WorkerStops, VerifierRestarts, vars
  <1>11. QED
    BY <1>1, <1>2, <1>3, <1>4, <1>5, <1>6, <1>7, <1>8, <1>10 DEF Next

(* Only the first link and the last file change a folder.                  *)
LEMMA FolderMoves ==
  ASSUME TypeOK, [Next]_vars
  PROVE  /\ folder' \in [Folder -> {"none", "partial"} \cup Key]
         /\ \A f \in Folder : folder[f] # "none" => folder'[f] # "none"
  <1> DEFINE Contents == {"none", "partial"} \cup Key
  <1>0. folder \in [Folder -> Contents]
    BY DEF TypeOK
  <1>1. ASSUME NEW d \in Click, VerifyMakes(d) \/ VerifyLinks(d)
        PROVE  /\ folder' \in [Folder -> Contents]
               /\ \A f \in Folder : folder[f] # "none" => folder'[f] # "none"
    <2>1. PICK x \in Contents \ {"none"} : SetFolder(d, x)
      BY <1>1, FolderAssumption DEF VerifyMakes, VerifyLinks
    <2>2. QED
      BY <1>0, <2>1 DEF SetFolder
  <1>2. CASE UNCHANGED folder
    BY <1>0, <1>2
  <1>3. CASE \/ Tick \/ Midnight
             \/ \E t \in Tab : Visit(t) \/ GoAway(t) \/ Activate(t)
             \/ OpenPopup \/ ShowAnew \/ ClosePopup \/ Scan
             \/ \E c \in Card : \/ MarkPrepared(c) \/ TellPrepared(c)
                                \/ ShowPrepared(c)
             \/ \E d \in Click : \/ Disclose(d) \/ DiscloseReturns(d)
                                 \/ HandleDisclose(d) \/ SendProof(d)
                                 \/ VerifyMisses(d) \/ VerifyAccepts(d)
                                 \/ VerifyRefuses(d)
                                 \/ VerifyFails(d) \/ ShowResponse(d)
             \/ WorkerStops \/ VerifierRestarts \/ UNCHANGED vars
    BY <1>2, <1>3 DEF Tick, Midnight, Visit, GoAway, Activate, OpenPopup,
         ShowAnew, ClosePopup, Scan, MarkPrepared, TellPrepared, ShowPrepared,
         Disclose, DiscloseReturns, HandleDisclose, SendProof, VerifyMisses,
         VerifyAccepts, VerifyRefuses, VerifyFails, ShowResponse, JobOnly,
         WorkerStops, VerifierRestarts, vars
  <1>4. QED
    BY <1>1, <1>3 DEF Next, Present

LEMMA TypeNext ==
  ASSUME TypeOK, JobInv, [Next]_vars
  PROVE  TypeOK'
  <1>1. Book!TypeOK' /\ results' \in [Session -> SUBSET Card]
    BY StandingMoves, ResultMoves
  <1>2. page' \in [Tab -> Page] /\ active' \in Tab
    BY PageMoves
  <1>3. job' \in [Click -> Jobs]
    BY JobMoves
  <1>4. PopupType'
    BY PopupTypeNext
  <1>5. folder' \in [Folder -> {"none", "partial"} \cup Key]
    BY FolderMoves
  <1>6. QED
    BY <1>1, <1>2, <1>3, <1>4, <1>5 DEF TypeOK, PopupType, Jobs, Statuses

(* A click adds to what was on display; nothing takes anything from it.    *)
LEMMA ConsentGrows ==
  ASSUME TypeOK, [Next]_vars
  PROVE  consented \subseteq consented'
  <1>1. ASSUME NEW d \in Click, Disclose(d)
        PROVE  consented \subseteq consented'
    BY <1>1 DEF Disclose
  <1>2. CASE \/ Aside \/ OpenPopup \/ ShowAnew \/ ClosePopup \/ Scan
             \/ \E c \in Card : TellPrepared(c) \/ ShowPrepared(c)
             \/ \E d \in Click : DiscloseReturns(d)
    BY <1>2, AsideLeaves DEF OpenPopup, ShowAnew, ClosePopup, Scan,
         TellPrepared, ShowPrepared, DiscloseReturns
  <1>3. QED
    BY <1>1, <1>2 DEF Next, Aside

LEMMA JobInvNext ==
  ASSUME TypeOK, JobInv, [Next]_vars
  PROVE  JobInv'
  <1>1. job' \in [Click -> Jobs]
    BY JobMoves
  <1>2. ASSUME NEW d \in Click
        PROVE  /\ OneProof(job'[d])
               /\ Under(job'[d]) =>
                    /\ job'[d].card \in Card
                    /\ job'[d].session \in Session
                    /\ <<job'[d].card, job'[d].session>> \in consented'
    <2>1. CASE Kept(d)
      BY <2>1, ConsentGrows DEF Kept, JobInv
    <2>2. CASE Started(d)
      <3>1. PICK c \in Card :
              /\ status[c] = "DISCLOSABLE"
              /\ job'[d].card = c /\ job'[d].session = params[c]
              /\ job'[d].proof = {}
              /\ consented' = consented \cup {<<c, s>> : s \in labels[c]}
        BY <2>2 DEF Started
      <3>2. params[c] \in labels[c] /\ labels[c] \subseteq Session
        BY <3>1 DEF TypeOK
      <3>3. QED
        BY <3>1, <3>2 DEF OneProof
    <2>3. QED
      BY <2>1, <2>2, JobMoves
  <1>3. QED
    BY <1>1, <1>2 DEF JobInv

TypeInv == TypeOK /\ JobInv

LEMMA TypeInvNext == TypeInv /\ [Next]_vars => TypeInv'
  BY TypeNext, JobInvNext DEF TypeInv

(* Every variable has its type, a card that can be disclosed keeps a       *)
(* request that it displays, and what a disclosure is for was displayed    *)
(* when the user clicked.                                                  *)
THEOREM TypeCorrect == Spec => []TypeInv
  <1>1. Init => TypeInv
    BY InitType DEF TypeInv
  <1>2. QED
    BY <1>1, TypeInvNext, PTL DEF Spec

-------------------------------------------------------------------------------
(***************************************************************************)
(* Results are consented to                                                *)
(***************************************************************************)

LEMMA ConsentNext ==
  ASSUME TypeInv, ResultIsConsented, [Next]_vars
  PROVE  ResultIsConsented'
  <1>0. TypeOK /\ JobInv
    BY DEF TypeInv
  <1>1. \A s \in Session : \A c \in results'[s] : <<c, s>> \in consented'
    BY <1>0, ResultMoves, ConsentGrows DEF ResultIsConsented
  <1>2. ASSUME NEW t \in Tab, page'[t].kind = "result"
        PROVE  \E c \in Card : <<c, page'[t].session>> \in consented'
    <2>1. CASE page'[t] = page[t]
      BY <1>0, <1>2, <2>1, ConsentGrows DEF ResultIsConsented
    <2>2. CASE \E d \in Click : /\ Under(job[d])
                                /\ page'[t].session = job[d].session
      BY <1>0, <2>2, ConsentGrows DEF JobInv
    <2>3. QED
      BY <1>0, <1>2, <2>1, <2>2, PageMoves DEF Blank
  <1>3. QED
    BY <1>1, <1>2 DEF ResultIsConsented

(* Whatever the tabs, the popup and the scans do, and for any number of    *)
(* them: a session's result comes from a card that displayed the request   *)
(* of that session when the user clicked Disclose.                         *)
THEOREM ResultIsConsentedCorrect == Spec => []ResultIsConsented
  <1>1. Init => ResultIsConsented
    BY DEF Init, ResultIsConsented, Blank
  <1>2. QED
    BY <1>1, TypeCorrect, ConsentNext, PTL DEF Spec

-------------------------------------------------------------------------------
(***************************************************************************)
(* The verifier's answers                                                  *)
(***************************************************************************)

LEMMA AcceptStep ==
  ASSUME TypeInv, [Next]_vars, NEW d \in Click,
         job[d].pc # "accepted", job'[d].pc = "accepted",
         NEW p \in job[d].proof
  PROVE  p.since <= Validity + (IF Skew > 0 THEN Skew ELSE 0)
  <1>1. VerifyAccepts(d)
    BY JobMoves DEF TypeInv, Kept, Started
  <1>2. PICK q \in job[d].proof : Age(q) <= Validity
    BY <1>1 DEF VerifyAccepts, Valid
  <1>3. p = q
    BY DEF TypeInv, JobInv, OneProof
  <1>4. p.since \in Nat
    BY DEF TypeInv, JobInv, Jobs, Made
  <1>5. QED
    BY <1>2, <1>3, <1>4 DEF Age

(* For any validity and skew: no proof is accepted that is older than the  *)
(* validity and what the client's clock is ahead.                          *)
THEOREM AcceptedInTimeCorrect == Spec => AcceptedInTime
  <1>1. TypeInv /\ [Next]_vars =>
          [\A d \in Click : job[d].pc # "accepted" /\ job'[d].pc = "accepted" =>
             \A p \in job[d].proof :
                p.since <= Validity + (IF Skew > 0 THEN Skew ELSE 0)]_vars
    BY AcceptStep
  <1>2. QED
    BY <1>1, TypeCorrect, PTL DEF Spec, AcceptedInTime

(* What shows a request, keeps one or answers one knows a session that has *)
(* been issued.                                                            *)
Issued(s) == s \in Session /\ standing[s] # "fresh"

IssuedInv ==
  /\ \A t \in Tab : page[t].kind = "login" => Issued(page[t].session)
  /\ \A c \in Card : \A s \in labels[c] : Issued(s)
  /\ \A d \in Click : Under(job[d]) => Issued(job[d].session)

(* A card displays what it did, or what the active page asks for.          *)
LEMMA LabelMoves ==
  ASSUME TypeOK, [Next]_vars, NEW c \in Card, NEW s \in labels'[c]
  PROVE  \/ s \in labels[c]
         \/ page[active].kind = "login" /\ s = page[active].session
  <1>1. CASE Scan
    BY <1>1 DEF Scan, HasRequest, TypeOK
  <1>2. CASE OpenPopup \/ ShowAnew
    <2>1. labels'[c] = {}
      BY <1>2 DEF OpenPopup, ShowAnew, LoadCards
    <2>2. QED
      BY <2>1
  <1>3. CASE ClosePopup \/ \E d \in Click : DiscloseReturns(d)
    <2>1. labels'[c] = {}
      BY <1>3 DEF ClosePopup, DiscloseReturns, Close, Closed
    <2>2. QED
      BY <2>1
  <1>4. CASE \/ Aside
             \/ \E b \in Card : TellPrepared(b) \/ ShowPrepared(b)
             \/ \E d \in Click : Disclose(d)
    BY <1>4, AsideLeaves DEF TellPrepared, ShowPrepared, Disclose
  <1>5. QED
    BY <1>1, <1>2, <1>3, <1>4 DEF Next, Aside

LEMMA IssuedNext ==
  ASSUME TypeInv, IssuedInv, [Next]_vars
  PROVE  IssuedInv'
  <1>0. TypeOK /\ JobInv /\ active \in Tab
    BY DEF TypeInv, TypeOK
  <1>1. ASSUME NEW s, Issued(s) PROVE Issued(s)'
    BY <1>0, <1>1, StandingMoves DEF Issued
  <1>2. ASSUME NEW t \in Tab, page'[t].kind = "login"
        PROVE  Issued(page[t].session)'
    <2>1. CASE page'[t] = page[t]
      BY <1>1, <1>2, <2>1 DEF IssuedInv
    <2>2. CASE /\ page'[t].session \in Session
               /\ standing'[page'[t].session] = "open"
      BY <2>2 DEF Issued
    <2>3. QED
      BY <1>0, <1>2, <2>1, <2>2, PageMoves DEF Blank
  <1>3. ASSUME NEW c \in Card, NEW s \in labels'[c] PROVE Issued(s)'
    BY <1>0, <1>1, <1>3, LabelMoves DEF IssuedInv
  <1>4. ASSUME NEW d \in Click, Under(job'[d])
        PROVE  Issued(job[d].session)'
    <2>1. CASE Kept(d)
      BY <1>1, <1>4, <2>1 DEF Kept, IssuedInv
    <2>2. CASE Started(d)
      <3>1. PICK c \in Card : /\ status[c] = "DISCLOSABLE"
                              /\ job'[d].session = params[c]
        BY <2>2 DEF Started
      <3>2. params[c] \in labels[c]
        BY <1>0, <3>1 DEF TypeOK
      <3>3. QED
        BY <1>1, <3>1, <3>2 DEF IssuedInv
    <2>3. QED
      BY <1>0, <2>1, <2>2, JobMoves
  <1>5. QED
    BY <1>2, <1>3, <1>4 DEF IssuedInv

(* The reasons of RefusalHasCause.                                         *)
Cause(d) ==
  \/ standing[job[d].session] = "lost"
  \/ <<job[d].card, job[d].session>> \notin Offered
  \/ job[d].pc = "making" /\ Here(job[d]) # "none"
  \/ job[d].pc = "linking"
  \/ Here(job[d]) \in {"partial"} \cup (Key \ {signer[job[d].card]})
  \/ job[d].proof = {}
  \/ \E p \in job[d].proof : p.since > Validity + Skew \/ ~p.alike

(* A call that has set up a folder finds a key there.                      *)
LinkedInv ==
  \A d \in Click : job[d].pc = "linked" => Here(job[d]) # "none"

LEMMA LinkedNext ==
  ASSUME TypeInv, LinkedInv, [Next]_vars
  PROVE  LinkedInv'
  <1>0. TypeOK /\ JobInv
    BY DEF TypeInv
  <1>1. ASSUME NEW d \in Click, job'[d].pc = "linked"
        PROVE  folder'[issuer_folder[job'[d].card]] # "none"
    <2>1. /\ Under(job'[d]) /\ Under(job[d]) /\ job'[d].card = job[d].card
          /\ job[d].pc # "linked" => VerifyLinks(d)
      BY <1>0, <1>1, JobMoves DEF Kept, Started, Under, SettingUp
    <2>2. job[d].card \in Card
      BY <1>0, <2>1 DEF JobInv
    <2>3. CASE job[d].pc = "linked"
      BY <1>0, <2>1, <2>2, <2>3, FolderMoves, FolderAssumption
         DEF LinkedInv, Here, issuer_folder_of
    <2>4. CASE VerifyLinks(d)
      BY <1>0, <2>1, <2>2, <2>4, FolderAssumption
         DEF VerifyLinks, SetFolder, issuer_folder_of, TypeOK
    <2>5. QED
      BY <2>1, <2>3, <2>4
  <1>2. QED
    BY <1>1 DEF LinkedInv, Here, issuer_folder_of

LEMMA RefuseStep ==
  ASSUME TypeInv, IssuedInv, LinkedInv, [Next]_vars, NEW d \in Click,
         job[d].pc # "refused", job'[d].pc = "refused"
  PROVE  Cause(d)
  <1>1. VerifyRefuses(d)
    BY JobMoves DEF TypeInv, Kept, Started
  <1>2. Under(job[d]) /\ job[d].card \in Card
    BY <1>1, Posted DEF Under, TypeInv, JobInv
  <1>3. Here(job[d]) \in {"none", "partial"} \cup Key
    BY <1>2, FolderAssumption DEF Here, issuer_folder_of, TypeInv, TypeOK
  <1>4. CASE job[d].pc = "posting" /\ ~Admitted(job[d])
    <2>1. CASE ~Known(job[d].session)
      <3>1. Issued(job[d].session)
        BY <1>2 DEF IssuedInv
      <3>2. QED
        BY <2>1, <3>1 DEF Cause, Issued, Known, TypeInv, TypeOK, Book!TypeOK,
                          Book!Standings
    <2>2. QED
      BY <1>4, <2>1 DEF Admitted, Supported, Cause
  <1>5. CASE AtProof(job[d]) /\ ~Valid(job[d])
    <2>1. Here(job[d]) # "none"
      BY <1>5 DEF AtProof, LinkedInv
    <2>2. CASE Here(job[d]) # signer[job[d].card]
      BY <1>3, <2>1, <2>2 DEF Cause
    <2>3. CASE \A p \in job[d].proof : ~(Age(p) <= Validity) \/ ~p.alike
      <3>1. ASSUME NEW p \in job[d].proof, p.alike
            PROVE  p.since > Validity + Skew
        <4>1. p.since \in Nat
          BY DEF TypeInv, JobInv, Jobs, Made
        <4>2. QED
          BY <2>3, <3>1, <4>1 DEF Age
      <3>2. QED
        BY <3>1 DEF Cause
    <2>4. QED
      BY <1>5, <2>2, <2>3 DEF Valid
  <1>6. QED
    BY <1>1, <1>4, <1>5 DEF VerifyRefuses, Refusable, Cause

(* For any number of tabs, clicks and presentations, cards and folders: a  *)
(* refusal has one of the causes that RefusalHasCause lists.               *)
THEOREM RefusalHasCauseCorrect == Spec => RefusalHasCause
  <1>1. Init => IssuedInv /\ LinkedInv
    BY NoJobType DEF Init, IssuedInv, LinkedInv, Blank, Closed, Under,
                     SettingUp
  <1>2. TypeInv /\ IssuedInv /\ LinkedInv /\ [Next]_vars =>
          IssuedInv' /\ LinkedInv'
    BY IssuedNext, LinkedNext
  <1>3. TypeInv /\ IssuedInv /\ LinkedInv /\ [Next]_vars =>
          [\A d \in Click :
             job[d].pc # "refused" /\ job'[d].pc = "refused" => Cause(d)]_vars
    BY RefuseStep
  <1>4. QED
    BY <1>1, <1>2, <1>3, TypeCorrect, PTL DEF Spec, RefusalHasCause, Cause

-------------------------------------------------------------------------------
(***************************************************************************)
(* One proof at a time                                                     *)
(***************************************************************************)

(* Nothing makes a card that is in use take requests again.                *)
Settled(c) == stage[c] = "told" /\ ~timer[c]

(* A closed popup shows no card and waits for nothing.  A card takes       *)
(* requests, or is in use, only when its PREPARED message is dealt with,   *)
(* unless it was loaded early; and a card whose answer the popup awaits is *)
(* in use.                                                                 *)
CardInv ==
  \A c \in Card :
    /\ ~open => status[c] = "none" /\ ~timer[c]
    /\ timer[c] => stage[c] = "told"
    /\ early[c] \/ Settled(c) \/ status[c] \in {"none", "PREPARING"}

WaitInv ==
  \A d \in Click : wait[d] = "waiting" =>
    /\ open
    /\ job[d].pc # "idle" /\ job[d].card \in Card
    /\ early[job[d].card] \/ status[job[d].card] = "SHOWPROOF_PENDING"

LEMMA CardNext ==
  ASSUME TypeOK, CardInv, [Next]_vars
  PROVE  CardInv'
  <1>0. PopupType
    BY DEF TypeOK, PopupType, Statuses
  <1>1. ASSUME NEW c \in Card, MarkPrepared(c) PROVE CardInv'
    BY <1>0, <1>1 DEF PopupType, CardInv, Settled, MarkPrepared
  <1>2. ASSUME NEW c \in Card, TellPrepared(c) PROVE CardInv'
    <2>1. /\ stage[c] = "marked"
          /\ stage' = [stage EXCEPT ![c] = "told"]
          /\ timer' = [timer EXCEPT ![c] = open]
          /\ UNCHANGED <<open, status, early>>
      BY <1>2 DEF TellPrepared
    <2>2. ASSUME NEW b \in Card
          PROVE  /\ ~open' => status'[b] = "none" /\ ~timer'[b]
                 /\ timer'[b] => stage'[b] = "told"
                 /\ \/ early'[b] \/ Settled(b)'
                    \/ status'[b] \in {"none", "PREPARING"}
      <3>1. CASE b = c
        BY <1>0, <2>1, <3>1 DEF PopupType, CardInv, Settled
      <3>2. CASE b # c
        BY <1>0, <2>1, <3>2 DEF PopupType, CardInv, Settled
      <3>3. QED
        BY <3>1, <3>2
    <2>3. QED
      BY <2>2 DEF CardInv
  <1>3. CASE OpenPopup \/ ShowAnew
    <2>1. LoadCards /\ open' = TRUE /\ stage' = stage
      BY <1>0, <1>3 DEF OpenPopup, ShowAnew, PopupType
    <2>2. QED
      BY <1>0, <2>1 DEF PopupType, CardInv, Settled, LoadCards, Stages
  <1>4. CASE ClosePopup \/ \E d \in Click : DiscloseReturns(d)
    <2>1. Close /\ stage' = stage
      BY <1>4 DEF ClosePopup, DiscloseReturns
    <2>2. QED
      BY <2>1 DEF CardInv, Settled, Close, Closed
  <1>5. ASSUME NEW c \in Card, ShowPrepared(c) PROVE CardInv'
    BY <1>0, <1>5 DEF PopupType, CardInv, Settled, ShowPrepared
  <1>6. CASE Scan
    <2>1. /\ UNCHANGED <<open, stage, timer, early>>
          /\ \A c \in Card : \/ status'[c] = status[c]
                             \/ status[c] = "PREPARED"
      BY <1>6 DEF Scan, TakesRequest
    <2>2. QED
      BY <2>1 DEF CardInv, Settled
  <1>7. ASSUME NEW d \in Click, Disclose(d) PROVE CardInv'
    <2>1. /\ UNCHANGED <<open, stage, timer, early>>
          /\ \A c \in Card : \/ status'[c] = status[c]
                             \/ status[c] = "DISCLOSABLE"
      BY <1>0, <1>7 DEF Disclose, PopupType
    <2>2. QED
      BY <2>1 DEF CardInv, Settled
  <1>8. CASE UNCHANGED <<stage, open, status, timer, early>>
    BY <1>8 DEF CardInv, Settled
  <1>9. CASE \/ Tick \/ Midnight
             \/ \E t \in Tab : Visit(t) \/ GoAway(t) \/ Activate(t)
             \/ \E d \in Click : Present(d)
             \/ WorkerStops \/ VerifierRestarts \/ UNCHANGED vars
    BY <1>8, <1>9 DEF Tick, Midnight, Visit, GoAway, Activate, Present,
         HandleDisclose, SendProof, VerifyMisses, VerifyMakes, VerifyLinks,
         VerifyAccepts, VerifyRefuses, VerifyFails, ShowResponse, JobOnly,
         WorkerStops, VerifierRestarts, vars
  <1>10. QED
    BY <1>1, <1>2, <1>3, <1>4, <1>5, <1>6, <1>7, <1>9 DEF Next

(* A disclosure that was not started by this step is of the same card.     *)
LEMMA CardStays ==
  ASSUME TypeInv, [Next]_vars, NEW d \in Click, job[d].pc # "idle"
  PROVE  job'[d].pc # "idle" /\ job'[d].card = job[d].card
  BY JobMoves DEF TypeInv, Kept, Started

OneInv == CardInv /\ WaitInv /\ OneProofAtATime

LEMMA OneNext ==
  ASSUME TypeInv, OneInv, [Next]_vars
  PROVE  OneInv'
  <1>0. TypeOK /\ PopupType /\ CardInv /\ WaitInv /\ OneProofAtATime
    BY DEF TypeInv, TypeOK, PopupType, Statuses, OneInv
  <1>1. CardInv'
    BY <1>0, CardNext
  <1>2. CASE /\ UNCHANGED <<open, wait, early>>
             /\ \A c \in Card :
                  early[c] \/ status[c] # "SHOWPROOF_PENDING"
                           \/ status'[c] = status[c]
    <2>1. ASSUME NEW d \in Click, wait[d] = "waiting"
          PROVE  job'[d].pc # "idle" /\ job'[d].card = job[d].card
      BY <1>0, <2>1, CardStays DEF WaitInv
    <2>2. WaitInv'
      BY <1>0, <1>2, <2>1 DEF WaitInv
    <2>3. OneProofAtATime'
      BY <1>0, <1>2, <2>1 DEF OneProofAtATime
    <2>4. QED
      BY <1>1, <2>2, <2>3 DEF OneInv
  <1>3. CASE \A d \in Click : wait'[d] # "waiting"
    BY <1>1, <1>3 DEF OneInv, WaitInv, OneProofAtATime
  <1>4. CASE OpenPopup
    BY <1>0, <1>3, <1>4 DEF OpenPopup, WaitInv
  <1>5. CASE ShowAnew
    BY <1>0, <1>3, <1>5 DEF ShowAnew, PopupType
  <1>6. CASE ClosePopup \/ \E d \in Click : DiscloseReturns(d)
    BY <1>0, <1>3, <1>6 DEF ClosePopup, DiscloseReturns, Close, PopupType
  <1>7. ASSUME NEW c \in Card, ShowPrepared(c) PROVE OneInv'
    <2>1. early[c] \/ status[c] # "SHOWPROOF_PENDING"
      BY <1>0, <1>7 DEF CardInv, Settled, ShowPrepared
    <2>2. /\ UNCHANGED <<open, wait, early>>
          /\ \A b \in Card : b = c \/ status'[b] = status[b]
      BY <1>0, <1>7 DEF ShowPrepared, PopupType
    <2>3. QED
      BY <1>2, <2>1, <2>2
  <1>8. CASE Scan
    BY <1>2, <1>8 DEF Scan, TakesRequest
  <1>9. ASSUME NEW d \in Click, Disclose(d) PROVE OneInv'
    <2>1. Started(d) /\ \A e \in Click \ {d} : Kept(e)
      BY <1>9, DiscloseStarts DEF TypeInv
    <2>2. PICK c \in Card :
            /\ status[c] = "DISCLOSABLE"
            /\ job'[d].pc = "sent" /\ job'[d].card = c
            /\ status' = [status EXCEPT ![c] = "SHOWPROOF_PENDING"]
      BY <2>1 DEF Started
    <2>3. /\ wait' = [wait EXCEPT ![d] = "waiting"]
          /\ UNCHANGED <<open, early>>
      BY <1>9 DEF Disclose
    <2>4. open
      BY <1>0, <2>2 DEF CardInv, PopupType
    <2>5. \A e \in Click \ {d} : wait[e] = "waiting" =>
            /\ job'[e].pc # "idle" /\ job'[e].card = job[e].card
            /\ job[e].card = c => early[c]
      BY <1>0, <2>1, <2>2 DEF Kept, WaitInv
    <2>6. status'[c] = "SHOWPROOF_PENDING"
          /\ \A b \in Card \ {c} : status'[b] = status[b]
      BY <1>0, <2>2 DEF PopupType
    <2>7. wait'[d] = "waiting" /\ \A e \in Click \ {d} : wait'[e] = wait[e]
      BY <1>0, <2>3 DEF PopupType
    <2>8. WaitInv'
      BY <1>0, <2>2, <2>3, <2>4, <2>5, <2>6, <2>7 DEF WaitInv
    <2>9. OneProofAtATime'
      BY <1>0, <2>2, <2>3, <2>5, <2>7 DEF OneProofAtATime
    <2>10. QED
      BY <1>1, <2>8, <2>9 DEF OneInv
  <1>10. ASSUME NEW c \in Card, TellPrepared(c) PROVE OneInv'
    BY <1>2, <1>10 DEF TellPrepared
  <1>11. CASE Aside
    BY <1>2, <1>11, AsideLeaves
  <1>12. QED
    BY <1>4, <1>5, <1>6, <1>7, <1>8, <1>9, <1>10, <1>11 DEF Next, Aside

(* For any number of cards and clicks: two proofs of a card on display at  *)
(* a time need a popup that loaded the card early.                         *)
THEOREM OneProofAtATimeCorrect == Spec => []OneProofAtATime
  <1>1. Init => OneInv
    BY DEF Init, Closed, OneInv, CardInv, WaitInv, OneProofAtATime
  <1>2. OneInv => OneProofAtATime
    BY DEF OneInv
  <1>3. QED
    BY <1>1, <1>2, TypeCorrect, OneNext, PTL DEF Spec
===============================================================================
