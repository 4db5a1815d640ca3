------------------------- MODULE ConversationProofs -------------------------
(***************************************************************************)
(* Theorems about one conversation and about its demo provider: a turn     *)
(* always makes a conversation of one, and a coherent one of a coherent    *)
(* one; and what the demo provider answers is such a turn.                 *)
(***************************************************************************)
EXTENDS DemoProvider, BookingRulesProofs, SequenceTheorems, FiniteSetTheorems

(* A bounded list of notes stays a list of notes. *)
LEMMA NotedType ==
  ASSUME NEW S, NEW notes \in Seq(S), NEW note \in S
  PROVE  Noted(notes, note) \in Seq(S)
<1> DEFINE longer == Append(notes, note)
<1>1. longer \in Seq(S) /\ longer # <<>>
  BY AppendProperties
<1>2. Tail(longer) \in Seq(S)
  BY <1>1, HeadTailProperties
<1> QED
  BY <1>1, <1>2 DEF Noted

(* The guard makes a turn of a turn. *)
LEMMA GuardedType ==
  ASSUME NEW turn \in Turn, NEW message, NEW conv
  PROVE  /\ Guarded(turn, message, conv) \in Turn
         /\ Guarded(turn, message, conv).slot = turn.slot
         /\ Guarded(turn, message, conv).followUpAt = turn.followUpAt
<1>1. Prices \in SUBSET Claims
  BY PricesAssumption DEF Claims
<1> QED
  BY <1>1 DEF Guarded, Turn, ActionTypes

(* What is learned stays a lead. *)
LEMMA LeadType ==
  ASSUME NEW lead \in Lead, NEW updates \in Lead, NEW mentions
  PROVE  ApplyUpdates(lead, SafeUpdates(updates, mentions, lead)) \in Lead
<1>1. SafeUpdates(updates, mentions, lead) \in Lead
  BY DEF Lead, SafeUpdates, Unsupported
<1> QED
  BY <1>1 DEF Lead, ApplyUpdates

(* A checked field holds what it held before or what the message mentions. *)
LEMMA LearnedIsSupported ==
  ASSUME NEW lead \in Lead, NEW updates \in Lead, NEW mentions,
         NEW f \in CheckedFields,
         NEW value, value = ApplyUpdates(lead, SafeUpdates(updates, mentions, lead))[f]
  PROVE  value = lead[f] \/ <<f, value>> \in mentions
<1>1. f # "budget_raw" /\ f \in Fields
  BY DEF CheckedFields, Fields
<1>2. SafeUpdates(updates, mentions, lead)[f] =
        IF Unsupported(f, updates[f], mentions, lead) THEN None ELSE updates[f]
  BY <1>1 DEF SafeUpdates
<1>3. value = IF SafeUpdates(updates, mentions, lead)[f] = None
                THEN lead[f] ELSE SafeUpdates(updates, mentions, lead)[f]
  BY <1>1 DEF ApplyUpdates
<1> QED
  BY <1>2, <1>3 DEF Unsupported

(* What is known is not erased. *)
LEMMA LearnedKeepsFacts ==
  ASSUME NEW lead, NEW updates, NEW f \in Fields, lead[f] # None
  PROVE  ApplyUpdates(lead, updates)[f] # None
BY DEF ApplyUpdates

(* Learning changes the lead and the notes, and nothing else. *)
LEMMA LearnedKeepsOutcome ==
  ASSUME NEW conv \in Conversation, NEW turn \in Turn, NEW msg \in Message,
         NEW next, next = Learned(conv, turn, msg)
  PROVE  /\ next \in Conversation
         /\ Active(next) <=> Active(conv)
         /\ Coherent(next) <=> Coherent(conv)
         /\ next.visit = conv.visit /\ next.transcript = conv.transcript
         /\ next.lead = ApplyUpdates(conv.lead,
                          SafeUpdates(turn.updates, msg.mentions, conv.lead))
<1> DEFINE lead == ApplyUpdates(conv.lead,
                     SafeUpdates(turn.updates, msg.mentions, conv.lead))
           objections == IF turn.objection = None THEN conv.objections
                         ELSE Noted(conv.objections, turn.objection)
           questions == IF turn.unknown THEN Noted(conv.questions, msg.question)
                        ELSE conv.questions
<1>1. lead \in Lead
  BY LeadType DEF Conversation, Turn
<1>2. objections \in Seq(Objections)
  BY NotedType DEF Conversation, Turn
<1>3. questions \in Seq(Questions)
  BY NotedType DEF Conversation, Message
<1>4. next = [conv EXCEPT !.lead = lead, !.objections = objections,
                          !.questions = questions]
  BY DEF Learned
<1> HIDE DEF lead, objections, questions
<1>5. next \in Conversation
  BY <1>1, <1>2, <1>3, <1>4 DEF Conversation
<1>6. /\ next.status = conv.status /\ next.endReason = conv.endReason
      /\ next.doNotContact = conv.doNotContact
      /\ next.followUp = conv.followUp /\ next.followUpAt = conv.followUpAt
      /\ next.escalated = conv.escalated /\ next.visit = conv.visit
      /\ next.visitAt = conv.visitAt /\ next.reference = conv.reference
      /\ next.lead = lead /\ next.transcript = conv.transcript
  BY <1>4 DEF Conversation
<1> QED
  BY <1>5, <1>6 DEF Active, Coherent, lead

(* A new conversation is open and coherent. *)
LEMMA NewConversationIsCoherent ==
  /\ NewConversation \in Conversation
  /\ Coherent(NewConversation) /\ Active(NewConversation)
<1>1. NothingKnown \in Lead
  BY DEF NothingKnown, Lead
<1>2. "unknown" \in InterestLevels /\ <<FromAssistant({})>> \in Seq(Entry)
  BY DEF InterestLevels, FromAssistant, Entry
<1> QED
  BY <1>1, <1>2, NoneIsNoValue
  DEF NewConversation, Conversation, Coherent, Active, Statuses, VisitStatuses

(* An open conversation has nothing booked. *)
LEMMA OpenHasNoVisit ==
  ASSUME NEW conv, Coherent(conv), Active(conv)
  PROVE  conv.visit # "booked"
BY DEF Coherent, Active

(* A stop request closes an open conversation, coherently. *)
LEMMA StoppedIsCoherent ==
  ASSUME NEW conv \in Conversation, Coherent(conv), Active(conv)
  PROVE  /\ Stopped(conv) \in Conversation
         /\ Coherent(Stopped(conv)) /\ ~Active(Stopped(conv))
         /\ Stopped(conv).visit = conv.visit
         /\ Stopped(conv).lead = conv.lead
         /\ Stopped(conv).transcript = conv.transcript
BY NoneIsNoValue
DEF Stopped, Conversation, Coherent, Active, Statuses, EndReasons

(* Keeping the last entries keeps a transcript. *)
LEMMA LastOfType ==
  ASSUME NEW S, NEW n \in Nat \ {0}, NEW entries \in Seq(S)
  PROVE  LastOf(n, entries) \in Seq(S)
<1>1. ASSUME Len(entries) > n
      PROVE  SubSeq(entries, Len(entries) - n + 1, Len(entries)) \in Seq(S)
  <2>1. \A i \in (Len(entries) - n + 1)..Len(entries) : entries[i] \in S
    BY <1>1
  <2> QED
    BY <2>1, SubSeqProperties
<1> QED
  BY <1>1 DEF LastOf

(* Recording a turn changes the transcript and the interest level, and     *)
(* nothing else.                                                           *)
LEMMA RecordedKeepsOutcome ==
  ASSUME NEW conv \in Conversation, NEW claims \in SUBSET Claims,
         NEW next, next = Recorded(conv, claims)
  PROVE  /\ next \in Conversation
         /\ Active(next) <=> Active(conv)
         /\ Coherent(next) <=> Coherent(conv)
         /\ next.visit = conv.visit /\ next.visitAt = conv.visitAt
         /\ next.reference = conv.reference /\ next.lead = conv.lead
         /\ next.followUpAt = conv.followUpAt
         /\ next.interest = Interest(conv) /\ Interest(next) = Interest(conv)
<1> DEFINE longer == conv.transcript \o <<FromUser, FromAssistant(claims)>>
           kept == LastOf(MaxMessages, longer)
<1>1. <<FromUser, FromAssistant(claims)>> \in Seq(Entry)
  BY DEF FromUser, FromAssistant, Entry
<1>2. longer \in Seq(Entry)
  BY <1>1, ConcatProperties DEF Conversation
<1>3. kept \in Seq(Entry)
  BY <1>2, LastOfType, MaxMessagesAssumption
<1>4. Interest(conv) \in InterestLevels
  BY DEF Interest, InterestLevels
<1>5. next = [conv EXCEPT !.transcript = kept, !.interest = Interest(conv)]
  BY DEF Recorded
<1> HIDE DEF kept, longer
<1>6. next \in Conversation
  BY <1>3, <1>4, <1>5 DEF Conversation
<1>7. /\ next.status = conv.status /\ next.endReason = conv.endReason
      /\ next.doNotContact = conv.doNotContact
      /\ next.followUp = conv.followUp /\ next.followUpAt = conv.followUpAt
      /\ next.escalated = conv.escalated /\ next.visit = conv.visit
      /\ next.visitAt = conv.visitAt /\ next.reference = conv.reference
      /\ next.lead = conv.lead /\ next.objections = conv.objections
      /\ next.interest = Interest(conv)
  BY <1>5 DEF Conversation
<1>8. Interest(next) = Interest(conv)
  BY <1>7 DEF Interest, LeadScore, Earned, Disqualified, Known
<1> QED
  BY <1>6, <1>7, <1>8 DEF Active, Coherent

(* The action of a turn that does not raise leaves a coherent conversation *)
(* coherent, keeps the lead, and books a visit exactly when the booking    *)
(* tool confirms one; a follow-up is at the time the turn gives.           *)
LEMMA AfterActionIsCoherent ==
  ASSUME NEW conv \in Conversation, Coherent(conv), Active(conv),
         NEW turn \in Turn, ~Raises(turn), NEW now \in Nat,
         NEW result, result.success \in BOOLEAN,
         turn.action = "book_site_visit" /\ result.success =>
             result.confirmedAt \in Nat /\ result.reference \in References,
         NEW next, next = AfterAction(conv, turn, now, result)
  PROVE  /\ next \in Conversation
         /\ Coherent(next)
         /\ next.lead = conv.lead /\ next.transcript = conv.transcript
         /\ next.visit = "booked" <=>
                turn.action = "book_site_visit" /\ result.success
         /\ next.visit = "booked" =>
                /\ next.visitAt = result.confirmedAt
                /\ next.reference = result.reference
         /\ next.followUpAt \in {None, turn.followUpAt}
<1>0. /\ conv.visit # "booked" /\ conv.visitAt = None /\ conv.reference = None
      /\ conv.followUpAt = None
  BY DEF Coherent, Active
<1>1. CASE turn.action = "book_site_visit"
  <2>1. next = Visited(conv, result)
    BY <1>1 DEF AfterAction, Ends
  <2>2. CASE result.success
    <3>1. result.confirmedAt # None /\ result.reference # None
      BY <1>1, <2>2, NoneIsNoValue, ReferencesAssumption
    <3>2. next = [conv EXCEPT !.visit = "booked", !.visitAt = result.confirmedAt,
                              !.reference = result.reference,
                              !.status = "completed",
                              !.endReason = "site_visit_booked"]
      BY <2>1, <2>2 DEF Visited
    <3>3. next \in Conversation
      BY <1>1, <2>2, <3>2, ZenonT(40) DEF Conversation, Statuses, EndReasons, VisitStatuses
    <3>4. Coherent(next)
      BY <3>1, <3>2, NoneIsNoValue
      DEF Conversation, Coherent, Active, Statuses, EndReasons
    <3> QED
      BY <1>0, <1>1, <2>2, <3>2, <3>3, <3>4 DEF Conversation
  <2>3. CASE ~result.success
    <3>1. next = [conv EXCEPT !.visit = "failed"]
      BY <2>1, <2>3 DEF Visited
    <3>2. next \in Conversation /\ Coherent(next)
      BY <1>0, <3>1 DEF Conversation, Coherent, Active, VisitStatuses
    <3> QED
      BY <1>0, <2>3, <3>1, <3>2 DEF Conversation
  <2> QED
    BY <2>2, <2>3
<1>2. CASE turn.action = "schedule_follow_up"
  <2>1. next = FollowedUp(conv, turn, now)
    BY <1>2 DEF AfterAction, Ends
  <2>2. turn.followUpAt \in Nat \cup {None}
    BY <1>2 DEF Raises, Turn
  <2>3. CASE next = conv
    BY <1>0, <1>2, <2>3
  <2>4. CASE next # conv
    <3>1. /\ turn.followUpAt \in Nat /\ turn.followUpAt # None
          /\ next = [conv EXCEPT !.followUp = TRUE,
                                 !.followUpAt = turn.followUpAt,
                                 !.status = "follow_up_scheduled",
                                 !.endReason = "follow_up_requested"]
      BY <2>1, <2>2, <2>4, NoneIsNoValue DEF FollowedUp, InTheFuture
    <3>2. next \in Conversation
      BY <3>1 DEF Conversation, Statuses, EndReasons
    <3>3. Coherent(next)
      BY <1>0, <3>1, NoneIsNoValue
      DEF Conversation, Coherent, Active, Statuses, EndReasons
    <3> QED
      BY <1>0, <1>2, <3>1, <3>2, <3>3 DEF Conversation
  <2> QED
    BY <2>3, <2>4
<1>3. CASE turn.action = "escalate_to_human"
  <2>1. next = [conv EXCEPT !.escalated = TRUE, !.status = "escalated",
                            !.endReason = "human_handoff"]
    BY <1>3 DEF AfterAction, Ends, Escalated
  <2>2. next \in Conversation
    BY <2>1 DEF Conversation, Statuses, EndReasons
  <2>3. Coherent(next)
    BY <1>0, <2>1, NoneIsNoValue
    DEF Conversation, Coherent, Active, Statuses, EndReasons
  <2> QED
    BY <1>0, <1>3, <2>1, <2>2, <2>3 DEF Conversation
<1>4. CASE turn.action \in {"none", "end_conversation"}
  <2>1. next = Ended(conv, turn) \/ next = conv
    BY <1>4 DEF AfterAction, Ends
  <2>2. CASE next = conv
    BY <1>0, <1>4, <2>2
  <2>3. CASE next = Ended(conv, turn)
    <3> DEFINE reason == IF turn.endReason = None THEN "customer_ended"
                                                  ELSE turn.endReason
    <3>1. reason \in EndReasons /\ reason # None
      BY NoneIsNoValue DEF Turn, EndReasons
    <3>2. next = IF reason = "do_not_contact"
                 THEN [conv EXCEPT !.endReason = reason, !.doNotContact = TRUE,
                                   !.status = "do_not_contact"]
                 ELSE [conv EXCEPT !.endReason = reason, !.status = "completed"]
      BY <2>3 DEF Ended
    <3> HIDE DEF reason
    <3>3. "completed" \in Statuses /\ "do_not_contact" \in Statuses
      BY DEF Statuses
    <3>4. CASE reason = "do_not_contact"
      <4>1. next = [conv EXCEPT !.endReason = reason, !.doNotContact = TRUE,
                                !.status = "do_not_contact"]
        BY <3>2, <3>4
      <4>2. next \in Conversation
        BY <3>1, <3>3, <4>1 DEF Conversation
      <4>3. Coherent(next)
        BY <1>0, <3>1, <3>4, <4>1 DEF Conversation, Coherent, Active
      <4> QED
        BY <1>0, <1>4, <4>1, <4>2, <4>3 DEF Conversation
    <3>5. CASE reason # "do_not_contact"
      <4>1. next = [conv EXCEPT !.endReason = reason, !.status = "completed"]
        BY <3>2, <3>5
      <4>2. next \in Conversation
        BY <3>1, <3>3, <4>1 DEF Conversation
      <4>3. Coherent(next)
        BY <1>0, <3>1, <3>5, <4>1 DEF Conversation, Coherent, Active
      <4> QED
        BY <1>0, <1>4, <4>1, <4>2, <4>3 DEF Conversation
    <3> QED
      BY <3>4, <3>5
  <2> QED
    BY <2>1, <2>2, <2>3
<1> QED
  BY <1>1, <1>2, <1>3, <1>4 DEF Turn, ActionTypes

-----------------------------------------------------------------------------
(* What is said and known.                                                 *)

(* A message more backs no less. *)
LEMMA HeardGrows ==
  ASSUME NEW conv, NEW M, NEW N, M \subseteq N
  PROVE  /\ \A claims : Backed(claims, conv, M) => Backed(claims, conv, N)
         /\ Honest(conv, M) => Honest(conv, N)
         /\ Supported(conv, M) => Supported(conv, N)
BY DEF Backed, Honest, Supported, Heard

(* A new conversation has said and learned nothing. *)
LEMMA NewConversationIsHonest ==
  ASSUME NEW M
  PROVE  /\ Honest(NewConversation, M) /\ Supported(NewConversation, M)
         /\ NewConversation.interest = Interest(NewConversation)
<1>1. Honest(NewConversation, M)
  BY DEF NewConversation, Honest, Backed, FromAssistant
<1>2. Supported(NewConversation, M)
  BY DEF NewConversation, Supported, NothingKnown, CheckedFields, Fields
<1>3. \A f \in Fields : ~Known(NewConversation, f)
  BY DEF NewConversation, Known, NothingKnown
<1>4. Earned(NewConversation) = 5
  BY <1>3 DEF Earned, Points, LeastOf, Fields, FreeFields, CheckedFields,
     NewConversation
<1>5. LeadScore(NewConversation) = 5 /\ ~Disqualified(NewConversation)
  BY <1>4, NoneIsNoValue
  DEF LeadScore, Disqualified, NewConversation, LeastOf, EndReasons
<1> QED
  BY <1>1, <1>2, <1>5 DEF Interest, NewConversation

(* What is learned from a message is supported by it. *)
LEMMA LearnedIsHeard ==
  ASSUME NEW conv \in Conversation, NEW turn \in Turn, NEW msg \in Message,
         NEW M, Supported(conv, M), NEW next,
         next.lead = ApplyUpdates(conv.lead,
                       SafeUpdates(turn.updates, msg.mentions, conv.lead))
  PROVE  Supported(next, M \cup {msg})
<1> SUFFICES ASSUME NEW f \in CheckedFields, next.lead[f] # None
             PROVE  Heard(M \cup {msg}, f, next.lead[f])
  BY DEF Supported
<1>1. conv.lead \in Lead /\ turn.updates \in Lead
  BY DEF Conversation, Turn
<1>2. next.lead[f] = conv.lead[f] \/ <<f, next.lead[f]>> \in msg.mentions
  BY <1>1, LearnedIsSupported
<1> QED
  BY <1>2 DEF Supported, Heard

(* The last entries of a transcript are entries of it, and the last one    *)
(* stays the last.                                                         *)
LEMMA LastOfEntries ==
  ASSUME NEW S, NEW n \in Nat \ {0}, NEW entries \in Seq(S), Len(entries) > 0,
         NEW kept, kept = LastOf(n, entries)
  PROVE  /\ kept \in Seq(S) /\ Len(kept) > 0
         /\ kept[Len(kept)] = entries[Len(entries)]
         /\ \A i \in DOMAIN kept : \E j \in DOMAIN entries : kept[i] = entries[j]
<1>1. CASE Len(entries) <= n
  BY <1>1 DEF LastOf
<1>2. CASE Len(entries) > n
  <2> DEFINE first == Len(entries) - n + 1
  <2>1. first \in 1..Len(entries) /\ Len(entries) \in Nat
    BY <1>2
  <2>2. kept = SubSeq(entries, first, Len(entries))
    BY <1>2 DEF LastOf
  <2>3. \A i \in first..Len(entries) : entries[i] \in S
    BY <2>1
  <2>4. /\ kept \in Seq(S) /\ Len(kept) = Len(entries) - first + 1
        /\ \A i \in 1..(Len(entries) - first + 1) :
               kept[i] = entries[first + i - 1]
    BY <2>1, <2>2, <2>3, SubSeqProperties
  <2>5. Len(kept) = n
    BY <2>1, <2>4
  <2>6. \A i \in 1..n : first + i - 1 \in 1..Len(entries)
    BY <2>1
  <2> QED
    BY <2>1, <2>4, <2>5, <2>6
<1> QED
  BY <1>1, <1>2

(* A sequence that grows by two elements. *)
LEMMA TwoMore ==
  ASSUME NEW S, NEW s \in Seq(S), NEW a \in S, NEW b \in S,
         NEW longer, longer = s \o <<a, b>>
  PROVE  /\ longer \in Seq(S) /\ Len(longer) = Len(s) + 2
         /\ longer[Len(longer)] = b
         /\ \A j \in DOMAIN longer :
                \/ \E i \in DOMAIN s : longer[j] = s[i]
                \/ longer[j] = a \/ longer[j] = b
<1> DEFINE t == <<a, b>>
<1>1. t \in Seq(S) /\ Len(t) = 2 /\ t[1] = a /\ t[2] = b
  OBVIOUS
<1> HIDE DEF t
<1>2. PICK n \in Nat : Len(s) = n /\ DOMAIN s = 1..n
  OBVIOUS
<1>3. /\ longer \in Seq(S) /\ Len(longer) = n + 2
      /\ \A j \in 1..(n + 2) : longer[j] = IF j <= n THEN s[j] ELSE t[j - n]
  <2>1. longer = s \o t
    BY DEF t
  <2> QED
    BY <1>1, <1>2, <2>1, ConcatProperties
<1>4. longer[n + 2] = b
  BY <1>1, <1>3
<1>5. \A j \in 1..(n + 2) : j \in 1..n \/ j = n + 1 \/ j = n + 2
  OBVIOUS
<1>6. longer[n + 1] = a
  BY <1>1, <1>3
<1>7. \A j \in 1..n : longer[j] = s[j]
  BY <1>3
<1>8. DOMAIN longer = 1..(n + 2)
  BY <1>3
<1> QED
  BY <1>2, <1>3, <1>4, <1>5, <1>6, <1>7, <1>8

(* Recording an honest reply keeps a transcript honest. *)
LEMMA RecordedIsHonest ==
  ASSUME NEW conv \in Conversation, NEW M, NEW claims \in SUBSET Claims,
         NEW before, before.transcript = conv.transcript,
         before.visit # "booked", Honest(before, M),
         Backed(claims, conv, M), conv.visit = "booked" => "booked" \in claims
  PROVE  Honest(Recorded(conv, claims), M)
<1> DEFINE next == Recorded(conv, claims)
           exchange == <<FromUser, FromAssistant(claims)>>
           longer == conv.transcript \o exchange
           kept == LastOf(MaxMessages, longer)
<1>1. next.transcript = kept /\ next.visit = conv.visit
  BY DEF Recorded, Conversation
<1>2. exchange \in Seq(Entry) /\ conv.transcript \in Seq(Entry)
  BY DEF FromUser, FromAssistant, Entry, Conversation
<1>3. /\ longer \in Seq(Entry) /\ Len(longer) = Len(conv.transcript) + 2
      /\ longer[Len(longer)] = FromAssistant(claims)
      /\ \A j \in DOMAIN longer :
             \/ \E i \in DOMAIN conv.transcript : longer[j] = conv.transcript[i]
             \/ longer[j] = FromUser \/ longer[j] = FromAssistant(claims)
  <2>1. FromUser \in Entry /\ FromAssistant(claims) \in Entry
    BY DEF FromUser, FromAssistant, Entry
  <2> QED
    BY <1>2, <2>1, TwoMore
<1> HIDE DEF longer, next
<1>4. /\ Len(kept) > 0 /\ kept \in Seq(Entry)
      /\ kept[Len(kept)] = FromAssistant(claims)
      /\ \A i \in DOMAIN kept : \E j \in DOMAIN longer : kept[i] = longer[j]
  <2>1. Len(longer) > 0
    BY <1>2, <1>3
  <2> QED
    BY <1>3, <2>1, LastOfEntries, MaxMessagesAssumption
<1> HIDE DEF kept
<1>5. \A i \in DOMAIN conv.transcript : Backed(conv.transcript[i].claims, next, M)
  BY <1>1 DEF Honest, Backed
<1>6. Backed({}, next, M) /\ Backed(claims, next, M)
  BY <1>1 DEF Backed
<1>7. \A i \in DOMAIN kept : Backed(kept[i].claims, next, M)
  <2>1. FromUser.claims = {} /\ FromAssistant(claims).claims = claims
    BY DEF FromUser, FromAssistant
  <2> SUFFICES ASSUME NEW i \in DOMAIN kept PROVE Backed(kept[i].claims, next, M)
    OBVIOUS
  <2>2. \/ \E j \in DOMAIN conv.transcript : kept[i] = conv.transcript[j]
        \/ kept[i] = FromUser \/ kept[i] = FromAssistant(claims)
    BY <1>3, <1>4
  <2>3. ASSUME NEW j \in DOMAIN conv.transcript, kept[i] = conv.transcript[j]
        PROVE  Backed(kept[i].claims, next, M)
    BY <1>5, <2>3
  <2>4. ASSUME kept[i] = FromUser PROVE Backed(kept[i].claims, next, M)
    BY <1>6, <2>1, <2>4
  <2>5. ASSUME kept[i] = FromAssistant(claims) PROVE Backed(kept[i].claims, next, M)
    BY <1>6, <2>1, <2>5
  <2> QED
    BY <2>2, <2>3, <2>4, <2>5
<1>8. kept # <<>> /\ kept[Len(kept)].claims = claims
  BY <1>4 DEF FromAssistant
<1> QED
  BY <1>1, <1>7, <1>8 DEF Honest, next

(* What a turn says is made of claims. *)
LEMMA SaidType ==
  ASSUME NEW turn \in Turn, NEW now, NEW result
  PROVE  Said(turn, now, result) \in SUBSET Claims
BY DEF Said, Claims, Turn

(* What the guard and the tools let a turn say is backed by the message,   *)
(* by what was known and by the outcome of the turn.                       *)
LEMMA SaidIsBacked ==
  ASSUME NEW conv \in Conversation, NEW answer \in Turn, NEW msg \in Message,
         NEW M, Supported(conv, M), NEW turn, turn = Guarded(answer, msg, conv),
         NEW now, NEW result, result.success \in BOOLEAN, NEW after,
         after.visit = "booked" <=> turn.action = "book_site_visit" /\ result.success
  PROVE  /\ Backed(Said(turn, now, result), after, M \cup {msg})
         /\ after.visit = "booked" => "booked" \in Said(turn, now, result)
<1>1. /\ "unsupported" \notin turn.claims
      /\ "booked" \in turn.claims => turn.action = "book_site_visit"
      /\ \A v \in turn.claims \cap Values :
             v \in Prices \/ v \in msg.amounts \/ v = conv.lead["budget_crore"]
  <2>1. CASE Violates(answer, msg, conv)
    <3>1. turn.claims = Prices
      BY <2>1 DEF Guarded, Turn
    <3> QED
      BY <3>1, PricesAssumption, ClaimsAreNoAmounts
  <2>2. CASE ~Violates(answer, msg, conv)
    BY <2>2 DEF Guarded, Violates, MoneyAllowed
  <2> QED
    BY <2>1, <2>2
<1>2. \A v \in Values : v = conv.lead["budget_crore"] => Heard(M, "budget_crore", v)
  BY ValuesAssumption DEF Supported, CheckedFields
<1>3. CASE turn.action = "book_site_visit"
  BY <1>3, ClaimsAreNoAmounts DEF Said, Backed, Claims
<1>4. CASE turn.action # "book_site_visit"
  <2>1. Backed(turn.claims, after, M \cup {msg})
    BY <1>1, <1>2, <1>4 DEF Backed, Heard
  <2>2. Backed({}, after, M \cup {msg})
    BY DEF Backed
  <2> QED
    BY <1>4, <2>1, <2>2 DEF Said
<1> QED
  BY <1>3, <1>4

(* What is kept of a conversation with a customer who sent these messages  *)
(* is true.                                                                *)
Truthful(conv, messages) ==
    /\ Supported(conv, messages)
    /\ Honest(conv, messages)
    /\ conv.interest = Interest(conv)

LEMMA TruthGrows ==
  ASSUME NEW conv, NEW M, NEW N, M \subseteq N, Truthful(conv, M)
  PROVE  Truthful(conv, N)
BY HeardGrows DEF Truthful

(* A stop request leaves a true record. *)
LEMMA StoppedIsTruthful ==
  ASSUME NEW conv \in Conversation, Coherent(conv), Active(conv),
         NEW M, Truthful(conv, M),
         NEW next, next = Recorded(Stopped(conv), {})
  PROVE  /\ next \in Conversation /\ Coherent(next) /\ ~Active(next)
         /\ next.visit # "booked" /\ next.lead = conv.lead
         /\ Truthful(next, M)
<1> DEFINE stopped == Stopped(conv)
<1>1. /\ stopped \in Conversation /\ Coherent(stopped) /\ ~Active(stopped)
      /\ stopped.visit = conv.visit /\ stopped.lead = conv.lead
      /\ stopped.transcript = conv.transcript
  BY StoppedIsCoherent
<1>2. conv.visit # "booked"
  BY OpenHasNoVisit
<1> HIDE DEF stopped
<1>3. next = Recorded(stopped, {})
  BY DEF stopped
<1>4. /\ next \in Conversation /\ Coherent(next) /\ ~Active(next)
      /\ next.visit = conv.visit /\ next.lead = conv.lead
      /\ next.interest = Interest(next)
  BY <1>1, <1>3, RecordedKeepsOutcome
<1>5. Backed({}, stopped, M)
  BY DEF Backed
<1>6. Honest(next, M)
  BY <1>1, <1>2, <1>3, <1>5, RecordedIsHonest DEF Truthful
<1>7. Supported(next, M)
  BY <1>4 DEF Truthful, Supported
<1> QED
  BY <1>2, <1>4, <1>6, <1>7 DEF Truthful

(* A turn that the guard has passed leaves a true record. *)
LEMMA TurnIsTruthful ==
  ASSUME NEW conv \in Conversation, Coherent(conv), Active(conv),
         NEW answer \in Turn, NEW msg \in Message, NEW M, Truthful(conv, M),
         NEW turn, turn = Guarded(answer, msg, conv), ~Raises(turn),
         NEW now, NEW result, result.success \in BOOLEAN,
         NEW after \in Conversation,
         after.lead = Learned(conv, turn, msg).lead,
         after.transcript = conv.transcript,
         after.visit = "booked" <=> turn.action = "book_site_visit" /\ result.success
  PROVE  Truthful(Recorded(after, Said(turn, now, result)), M \cup {msg})
<1> DEFINE said == Said(turn, now, result)
           next == Recorded(after, said)
           N == M \cup {msg}
<1>1. turn \in Turn
  BY GuardedType
<1>2. said \in SUBSET Claims
  BY <1>1, SaidType
<1>3. Backed(said, after, N) /\ (after.visit = "booked" => "booked" \in said)
  BY SaidIsBacked DEF Truthful
<1> HIDE DEF said
<1>4. /\ next.lead = after.lead /\ next.interest = Interest(next)
  BY <1>2, RecordedKeepsOutcome
<1>5. conv.visit # "booked" /\ Honest(conv, N)
  BY OpenHasNoVisit, HeardGrows DEF Truthful
<1>6. Honest(next, N)
  BY <1>2, <1>3, <1>5, RecordedIsHonest
<1>7. next.lead = ApplyUpdates(conv.lead,
                     SafeUpdates(turn.updates, msg.mentions, conv.lead))
  BY <1>1, <1>4, LearnedKeepsOutcome
<1> HIDE DEF next
<1>8. Supported(next, N)
  BY <1>1, <1>7, LearnedIsHeard DEF Truthful
<1> QED
  BY <1>4, <1>6, <1>8 DEF Truthful, next, said

-----------------------------------------------------------------------------
(* How promising a lead looks.                                             *)

(* What may not happen to a lead for no reason. *)
ScoreHolds(before, after) ==
    /\ \/ LeadScore(after) >= LeadScore(before)
       \/ Len(after.objections) > Len(before.objections)
       \/ Disqualified(after)
    /\ Completeness(after) >= Completeness(before)

(* The parts of a score: what the facts add, what the outcome adds, and    *)
(* what the objections take away.                                          *)
Facts(conv) ==
    Points(Known(conv, "configuration"), 10) + Points(Known(conv, "budget_raw"), 15)
        + Points(Known(conv, "purchase_purpose"), 10)
        + Points(Known(conv, "purchase_timeline"), 15)
        + Points(Known(conv, "preferred_location"), 5)

Extras(conv) ==
    Points(conv.visit = "booked", 30) + Points(conv.visit = "requested", 12)
        + Points(conv.followUp, 10) + Points(conv.escalated, 5)

Minus(conv) == LeastOf(10, 3 * Len(conv.objections))

LEMMA PartsOfTheScore ==
  ASSUME NEW conv \in Conversation
  PROVE  /\ Earned(conv) = 5 + Facts(conv) + Extras(conv) - Minus(conv)
         /\ Facts(conv) \in Int /\ Extras(conv) \in Int /\ Minus(conv) \in Int
         /\ Extras(conv) >= 0
<1> DEFINE f1 == Points(Known(conv, "configuration"), 10)
           f2 == Points(Known(conv, "budget_raw"), 15)
           f3 == Points(Known(conv, "purchase_purpose"), 10)
           f4 == Points(Known(conv, "purchase_timeline"), 15)
           f5 == Points(Known(conv, "preferred_location"), 5)
           e1 == Points(conv.visit = "booked", 30)
           e2 == Points(conv.visit = "requested", 12)
           e3 == Points(conv.followUp, 10)
           e4 == Points(conv.escalated, 5)
<1>1. f1 \in Int /\ f2 \in Int /\ f3 \in Int /\ f4 \in Int /\ f5 \in Int
  BY DEF Points
<1>2. e1 \in Nat /\ e2 \in Nat /\ e3 \in Nat /\ e4 \in Nat
  BY DEF Points
<1>3. Minus(conv) \in Int
  BY DEF Minus, LeastOf, Conversation
<1>4. /\ Earned(conv) = 5 + f1 + f2 + f3 + f4 + f5 + e1 + e2 + e3 + e4 - Minus(conv)
      /\ Facts(conv) = f1 + f2 + f3 + f4 + f5
      /\ Extras(conv) = e1 + e2 + e3 + e4
  BY Zenon DEF Earned, Facts, Extras, Minus
<1> HIDE DEF f1, f2, f3, f4, f5, e1, e2, e3, e4
<1> QED
  BY <1>1, <1>2, <1>3, <1>4

LEMMA ScoreType ==
  ASSUME NEW conv \in Conversation
  PROVE  LeadScore(conv) \in Int
BY PartsOfTheScore DEF LeadScore, LeastOf

(* What is known of a lead adds to its score. *)
LEMMA FactsGrow ==
  ASSUME NEW before, NEW after,
         \A f \in Fields : before.lead[f] # None => after.lead[f] # None
  PROVE  Facts(before) <= Facts(after)
<1> DEFINE f1(conv) == Points(Known(conv, "configuration"), 10)
           f2(conv) == Points(Known(conv, "budget_raw"), 15)
           f3(conv) == Points(Known(conv, "purchase_purpose"), 10)
           f4(conv) == Points(Known(conv, "purchase_timeline"), 15)
           f5(conv) == Points(Known(conv, "preferred_location"), 5)
<1>1. \A f \in QualifyingFields : Known(before, f) => Known(after, f)
  BY DEF Known, QualifyingFields, Fields, CheckedFields, FreeFields
<1>2. /\ f1(before) \in Int /\ f1(after) \in Int /\ f1(before) <= f1(after)
      /\ f2(before) \in Int /\ f2(after) \in Int /\ f2(before) <= f2(after)
      /\ f3(before) \in Int /\ f3(after) \in Int /\ f3(before) <= f3(after)
      /\ f4(before) \in Int /\ f4(after) \in Int /\ f4(before) <= f4(after)
      /\ f5(before) \in Int /\ f5(after) \in Int /\ f5(before) <= f5(after)
  BY <1>1 DEF Points, QualifyingFields
<1>3. \A conv : Facts(conv) = f1(conv) + f2(conv) + f3(conv) + f4(conv) + f5(conv)
  BY Zenon DEF Facts
<1> HIDE DEF f1, f2, f3, f4, f5
<1> QED
  BY <1>2, <1>3

LEMMA CompletenessGrows ==
  ASSUME NEW before, NEW after,
         \A f \in Fields : before.lead[f] # None => after.lead[f] # None
  PROVE  Completeness(after) >= Completeness(before)
<1> DEFINE known(conv) == {f \in QualifyingFields : conv.lead[f] # None}
<1>1. IsFiniteSet(QualifyingFields)
  <2>1. IsFiniteSet({"configuration"})
    BY FS_Singleton
  <2>2. IsFiniteSet({"configuration"} \cup {"budget_raw"})
    BY <2>1, FS_AddElement
  <2>3. IsFiniteSet({"configuration", "budget_raw"} \cup {"purchase_purpose"})
    <3>1. {"configuration"} \cup {"budget_raw"} = {"configuration", "budget_raw"}
      OBVIOUS
    <3> QED
      BY <2>2, <3>1, FS_AddElement
  <2>4. /\ IsFiniteSet({"purchase_timeline"})
        /\ IsFiniteSet({"purchase_timeline"} \cup {"preferred_location"})
    BY FS_Singleton, FS_AddElement
  <2>5. QualifyingFields =
            ({"configuration", "budget_raw"} \cup {"purchase_purpose"})
                \cup ({"purchase_timeline"} \cup {"preferred_location"})
    BY DEF QualifyingFields
  <2> QED
    BY <2>3, <2>4, <2>5, FS_Union
<1>2. QualifyingFields \subseteq Fields
  BY DEF QualifyingFields, Fields, CheckedFields, FreeFields
<1>3. known(before) \subseteq known(after) /\ known(after) \subseteq QualifyingFields
  BY <1>2
<1> HIDE DEF known
<1>4. IsFiniteSet(known(after)) /\ IsFiniteSet(known(before))
  BY <1>1, <1>3, FS_Subset
<1>5. Cardinality(known(before)) <= Cardinality(known(after))
  BY <1>3, <1>4, FS_Subset
<1>6. Cardinality(known(before)) \in Nat /\ Cardinality(known(after)) \in Nat
  BY <1>4, FS_CardinalityType
<1>7. 20 * Cardinality(known(after)) >= 20 * Cardinality(known(before))
  BY <1>5, <1>6
<1> QED
  BY <1>7 DEF Completeness, known

(* More facts, no fewer extras and no more deductions earn no less. *)
LEMMA MoreIsEarned ==
  ASSUME NEW before \in Conversation, NEW after \in Conversation,
         Facts(before) <= Facts(after), Minus(after) <= Minus(before),
         Extras(before) = 0
  PROVE  /\ Earned(before) \in Int /\ Earned(after) \in Int
         /\ Earned(before) <= Earned(after)
<1>1. /\ Facts(before) \in Int /\ Minus(before) \in Int
      /\ Earned(before) = 5 + Facts(before) + Extras(before) - Minus(before)
  BY PartsOfTheScore
<1>2. /\ Facts(after) \in Int /\ Minus(after) \in Int
      /\ Extras(after) \in Int /\ Extras(after) >= 0
      /\ Earned(after) = 5 + Facts(after) + Extras(after) - Minus(after)
  BY PartsOfTheScore
<1> QED
  BY <1>1, <1>2

(* A turn of an open conversation that keeps what is known lowers nothing  *)
(* without a reason.                                                       *)
LEMMA TurnKeepsScore ==
  ASSUME NEW before \in Conversation, Coherent(before), Active(before),
         NEW after \in Conversation, Coherent(after),
         \A f \in Fields : before.lead[f] # None => after.lead[f] # None
  PROVE  ScoreHolds(before, after)
<1> SUFFICES ASSUME ~(Len(after.objections) > Len(before.objections)),
                    ~Disqualified(after)
             PROVE  LeadScore(after) >= LeadScore(before)
  BY CompletenessGrows DEF ScoreHolds
<1>1. /\ before.visit # "booked" /\ before.visit # "requested"
      /\ ~before.followUp /\ ~before.escalated
      /\ ~before.doNotContact /\ before.status # "do_not_contact"
      /\ before.endReason # "not_interested"
  BY NoneIsNoValue DEF Coherent, Active, Conversation, Statuses, EndReasons
<1>2. /\ ~after.doNotContact /\ after.status # "do_not_contact"
      /\ after.endReason # "not_interested"
  BY DEF Disqualified, Coherent
<1>3. Minus(after) <= Minus(before)
  <2>1. /\ Len(after.objections) \in Nat /\ Len(before.objections) \in Nat
        /\ Len(after.objections) <= Len(before.objections)
    BY DEF Conversation
  <2> QED
    BY <2>1 DEF Minus, LeastOf
<1>4. Extras(before) = 0
  BY <1>1 DEF Extras, Points
<1>5. Facts(before) <= Facts(after)
  BY FactsGrow
<1>6. /\ Earned(before) \in Int /\ Earned(after) \in Int
      /\ Earned(before) <= Earned(after)
  BY <1>3, <1>4, <1>5, MoreIsEarned
<1> QED
  BY <1>1, <1>2, <1>6 DEF LeadScore, LeastOf

-----------------------------------------------------------------------------
(* The demo provider, for every message, lead and moment: how it reads a   *)
(* day and a time of day, and what its turns may be.                       *)

(* The number of a day, and what of it a time of day makes. *)
LEMMA TodayIsADay ==
  ASSUME NEW now \in Nat
  PROVE  Today(now) \in Nat
BY DEF Today, Day, Hour, Minute

(* A message that names a day relative to today never names a day in the   *)
(* past: a weekday is one of the next seven days, never today, and falls   *)
(* on the weekday that was said.                                           *)
THEOREM SpokenWeekdayIsAhead ==
  ASSUME NEW day \in SpokenDays, day.word = "weekday", NEW today \in Nat,
         NEW said, said = SaidDay(day, today)
  PROVE  /\ said \in (today + 1)..(today + 7)
         /\ said % 7 = day.on
<1> DEFINE ahead == (day.on - today) % 7
<1>1. day.on \in 0..6
  BY DEF SpokenDays
<1>2. said = today + (IF ahead = 0 THEN 7 ELSE ahead)
  BY DEF SaidDay
<1>3. ahead \in 0..6
  BY <1>1
<1>4. (today + ahead) % 7 = day.on
  BY <1>1
<1>5. (today + 7) % 7 = today % 7
  OBVIOUS
<1> HIDE DEF ahead
<1> QED
  BY <1>2, <1>3, <1>4, <1>5

(* Every day that is spoken of is a day or does not exist. *)
LEMMA SaidDayType ==
  ASSUME NEW day \in SpokenDays, NEW today \in Nat
  PROVE  SaidDay(day, today) \in Nat \cup {None}
<1>1. CASE day.word = "weekday"
  <2>1. SaidDay(day, today) \in (today + 1)..(today + 7)
    BY <1>1, SpokenWeekdayIsAhead
  <2> QED
    BY <2>1
<1>2. CASE day.word # "weekday"
  <2>1. /\ day.word \in {"today", "tomorrow", "day_after", "date", "day_month"}
        /\ day.on \in Nat \cup {None} /\ day.again \in Nat \cup {None}
    BY <1>2 DEF SpokenDays
  <2> QED
    BY <2>1 DEF SaidDay
<1> QED
  BY <1>1, <1>2

(* The seconds of an hour and a minute. *)
LEMMA InTheDay ==
  ASSUME NEW h \in 0..23, NEW n \in 0..59
  PROVE  /\ 3600 * h + 60 * n \in Nat
         /\ 3600 * h + 60 * n < 86400
         /\ h \in 13..18 => /\ 46800 <= 3600 * h + 60 * n
                            /\ 3600 * h + 60 * n < 68400
OBVIOUS

(* A time of day that is understood is a second of the day, and one to six *)
(* o'clock without "am" or "pm" is a time in the afternoon.                *)
THEOREM SpokenTimeIsOfTheDay ==
  ASSUME NEW time \in SpokenTimes, SaidTime(time) # None
  PROVE  /\ SaidTime(time) \in Nat /\ SaidTime(time) < Day
         /\ time.marker = "baje" /\ time.hour \in 1..6 =>
                13 * Hour <= SaidTime(time) /\ SaidTime(time) < 19 * Hour
<1>1. time.hour \in 0..23 /\ time.minute \in 0..59
  BY DEF SaidTime, SpokenTimes
<1>2. HourMeant(time) \in 0..23
  BY <1>1 DEF HourMeant
<1>3. SaidTime(time) = 3600 * HourMeant(time) + 60 * time.minute
  BY <1>1, <1>2 DEF SaidTime, Hour, Minute
<1>4. time.marker = "baje" /\ time.hour \in 1..6 => HourMeant(time) \in 13..18
  BY DEF HourMeant
<1>5. Day = 86400 /\ 13 * Hour = 46800 /\ 19 * Hour = 68400
  BY DEF Day, Hour, Minute
<1> QED
  BY <1>1, <1>2, <1>3, <1>4, <1>5, InTheDay

(* What a message names is an instant or nothing. *)
LEMMA NamedAtType ==
  ASSUME NEW m \in Message, NEW now \in Nat
  PROVE  NamedAt(m, now) \in Nat \cup {None}
<1> DEFINE day == SaidDay(m.day, Today(now))
           time == SaidTime(m.time)
<1>1. CASE m.day = None \/ m.time = None \/ day = None \/ time = None
  BY <1>1 DEF NamedAt
<1>2. CASE m.day # None /\ m.time # None /\ day # None /\ time # None
  <2>1. m.day \in SpokenDays /\ m.time \in SpokenTimes
    BY <1>2 DEF Message
  <2>2. day \in Nat
    BY <1>2, <2>1, TodayIsADay, SaidDayType
  <2>3. time \in Nat
    BY <1>2, <2>1, SpokenTimeIsOfTheDay
  <2>4. NamedAt(m, now) = day * Day + time
    BY <1>2 DEF NamedAt
  <2> HIDE DEF day, time
  <2>5. Day = 86400
    BY DEF Day, Hour, Minute
  <2> QED
    BY <2>2, <2>3, <2>4, <2>5
<1> QED
  BY <1>1, <1>2

(* Whatever the local provider answers is a turn, one that the rest of the *)
(* service can handle: the times in it are those the message names.        *)
THEOREM DemoTurnIsATurn ==
  ASSUME NEW m \in Message, NEW lead, NEW now \in Nat,
         NEW turn, turn = DemoTurn(m, lead, now)
  PROVE  /\ turn \in Turn /\ ~Raises(turn)
         /\ turn.slot # Malformed => turn.slot = NamedAt(m, now) /\ turn.slot # None
         /\ turn.followUpAt = None \/ turn.followUpAt = NamedAt(m, now)
<1> DEFINE at == NamedAt(m, now)
<1>1. at \in Nat \cup {None}
  BY NamedAtType
<1> HIDE DEF at
<1>2. Speaks(m) \in Turn
  BY DEF Speaks, Turn, Message, ActionTypes
<1>3. /\ Speaks(m).action = "none" /\ Speaks(m).slot = Malformed
      /\ Speaks(m).followUpAt = None
  BY DEF Speaks
<1> DEFINE Fine(x) == /\ x \in Turn /\ ~Raises(x)
                      /\ x.slot # Malformed => x.slot = at /\ x.slot # None
                      /\ x.followUpAt = None \/ x.followUpAt = at
<1>4. Fine(Speaks(m))
  BY <1>2, <1>3 DEF Raises
<1>5. ASSUME NEW reason \in EndReasons PROVE Fine(Bids(m, reason))
  BY <1>2, <1>3 DEF Bids, Raises, Turn, ActionTypes
<1>6. Fine([Speaks(m) EXCEPT !.updates = NothingKnown])
  BY <1>2, <1>3 DEF Raises, Turn, NothingKnown, Lead
<1>7. Fine(AnswersCallback(m, at))
  BY <1>1, <1>2, <1>3, <1>4, NaiveAssumption, NoneIsNoValue, ZenonT(40)
  DEF AnswersCallback, Raises, Turn, ActionTypes, EndReasons
<1>8. Fine([Speaks(m) EXCEPT !.action = "escalate_to_human",
                             !.shouldEnd = TRUE, !.endReason = "human_handoff"])
  BY <1>2, <1>3 DEF Raises, Turn, ActionTypes, EndReasons
<1>9. Fine(AnswersVisit(m, at))
  BY <1>1, <1>2, <1>3, <1>4, ZenonT(40) DEF AnswersVisit, Raises, Turn, ActionTypes
<1>10. Fine([Speaks(m) EXCEPT !.unknown = TRUE])
  BY <1>2, <1>3, ZenonT(40) DEF Raises, Turn
<1>11. Fine([Speaks(m) EXCEPT !.objection = "price"])
  BY <1>2, <1>3, DemoObjection DEF Raises, Turn
<1>12. Fine(AnswersEnquiry(m, lead))
  BY <1>2, <1>3, <1>4, PricesAssumption DEF AnswersEnquiry, Raises, Turn, Claims
<1> HIDE DEF Fine
<1>13. {"do_not_contact", "customer_ended", "not_interested"} \subseteq EndReasons
  BY DEF EndReasons
<1>14. Fine(turn)
  BY <1>4, <1>5, <1>6, <1>7, <1>8, <1>9, <1>10, <1>11, <1>12, <1>13
  DEF DemoTurn, Intent, at
<1> QED
  BY <1>14 DEF Fine, at

(* The guard never blocks the local provider: what it says is confirmed,   *)
(* so a customer who is answered by the fallback is not told off for a     *)
(* reply that the service itself wrote.                                    *)
THEOREM DemoIsNeverBlocked ==
  ASSUME NEW m, NEW lead, NEW now, NEW conv
  PROVE  Guarded(DemoTurn(m, lead, now), m, conv) = DemoTurn(m, lead, now)
<1> DEFINE turn == DemoTurn(m, lead, now)
<1>1. \/ turn.claims = {}
      \/ turn.claims = Prices /\ turn.wording = {"price", "onwards", "budget"}
  <2> DEFINE Quiet(x) == \/ x.claims = {}
                         \/ /\ x.claims = Prices
                            /\ x.wording = {"price", "onwards", "budget"}
  <2>1. Quiet(Speaks(m))
    BY DEF Speaks
  <2>2. \A reason : Quiet(Bids(m, reason))
    BY DEF Speaks, Bids
  <2>3. Quiet([Speaks(m) EXCEPT !.updates = NothingKnown])
    BY DEF Speaks
  <2>4. \A at : Quiet(AnswersCallback(m, at)) /\ Quiet(AnswersVisit(m, at))
    BY DEF Speaks, AnswersCallback, AnswersVisit
  <2>5. Quiet([Speaks(m) EXCEPT !.action = "escalate_to_human",
                                !.shouldEnd = TRUE, !.endReason = "human_handoff"])
    BY DEF Speaks
  <2>6. Quiet([Speaks(m) EXCEPT !.unknown = TRUE])
        /\ Quiet([Speaks(m) EXCEPT !.objection = "price"])
    BY DEF Speaks
  <2>7. Quiet(AnswersEnquiry(m, lead))
    BY DEF Speaks, AnswersEnquiry
  <2> HIDE DEF Quiet
  <2>8. Quiet(turn)
    BY <2>1, <2>2, <2>3, <2>4, <2>5, <2>6, <2>7 DEF DemoTurn, Intent
  <2> QED
    BY <2>8 DEF Quiet
<1> HIDE DEF turn
<1>2. ~Violates(turn, m, conv)
  BY <1>1, PricesAssumption, ClaimsAreNoAmounts DEF Violates, MoneyAllowed
<1> QED
  BY <1>2 DEF Guarded, turn

=============================================================================
