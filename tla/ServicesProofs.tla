--------------------------- MODULE ServicesProofs ---------------------------
(***************************************************************************)
(* The services side by side, as MCServices runs them: whichever of them is*)
(* looked at, and whatever bounds the environment, each goes through steps *)
(* of its own module or stands still, and what was proved of it there holds*)
(* here too.                                                               *)
(***************************************************************************)
EXTENDS MCServices, BackgroundProofs, MessagingProofs, WorkspaceProofs,
        AgentAccessProofs, AdaptersProofs

----------------------------------------------------------------------------
\* A step of the services is a step of the one that is looked at; the others,
\* whose variables it leaves alone, stutter.
LEMMA QueueSteps == [ServicesNext]_servicesVars => [JobNext]_jobVars
  BY DEF ServicesNext, Others, servicesVars

LEMMA AccountsStep == [ServicesNext]_servicesVars => [AccountNext]_accountVars
  BY DEF ServicesNext, Others, servicesVars

LEMMA MembersStepHere == [ServicesNext]_servicesVars => [MembersNext]_memberVars
  BY DEF ServicesNext, Others, servicesVars

LEMMA OutboxSteps == [ServicesNext]_servicesVars => [OutboxNext]_outboxVars
  BY DEF ServicesNext, Others, servicesVars

LEMMA AdaptersSteps == [ServicesNext]_servicesVars => [AdaptersNext]_adapterVars
  BY DEF ServicesNext, Others, servicesVars

LEMMA AgentSteps == [ServicesNext]_servicesVars => [AgentNext]_agentVars
  BY DEF ServicesNext, Others, servicesVars

LEMMA RateSteps == [ServicesNext]_servicesVars => [RateNext]_rateVars
  BY DEF ServicesNext, Others, servicesVars

LEMMA MediaSteps == [ServicesNext]_servicesVars => [MediaNext]_mediaVars
  BY DEF ServicesNext, Others, servicesVars

\* The services share no state: a behaviour of them all, seen through the
\* variables of one, is a behaviour of that one (its fairness apart, which the
\* instance gives only to what is looked at).  Every safety property proved of a
\* service's specification is thereby one of the services together.
THEOREM ServicesStandApart ==
    ServicesSpec => /\ JobSpec /\ AccountSpec /\ MembersSpec /\ AdaptersSpec
                    /\ AgentSpec /\ RateSpec /\ MediaSpec
                    /\ OutboxInit /\ [][OutboxNext]_outboxVars
<1>1. ServicesInit => /\ JobInit /\ AccountInit /\ MembersInit /\ AdaptersInit
                      /\ AgentInit /\ RateInit /\ MediaInit /\ OutboxInit
  BY DEF ServicesInit
<1> QED
  BY <1>1, QueueSteps, AccountsStep, MembersStepHere, OutboxSteps, AdaptersSteps, AgentSteps,
     RateSteps, MediaSteps, PTL
  DEF ServicesSpec, JobSpec, AccountSpec, MembersSpec, AdaptersSpec, AgentSpec, RateSpec,
      MediaSpec

----------------------------------------------------------------------------
(***************************************************************************)
(* The assistant writes the inbox's variables: the inbox moves alone, while*)
(* no run was ever begun, or with the assistant.                           *)
(***************************************************************************)
Talking ==
    IF focus = "assistant" THEN AssistantInv ELSE InboxInv /\ AssistantInit

LEMMA TalkingStarts == ServicesInit => Talking
  BY InboxStarts, AssistantStarts DEF ServicesInit, Talking

LEMMA TalkingStays == Talking /\ [ServicesNext]_servicesVars => Talking'
<1> SUFFICES ASSUME Talking, [ServicesNext]_servicesVars PROVE Talking'  OBVIOUS
<1>1. UNCHANGED focus  BY DEF ServicesNext, Others, servicesVars
<1>2. CASE focus = "assistant"
  <2>1. [AssistantNext]_talkVars
    BY <1>2 DEF ServicesNext, Others, servicesVars, talkVars
  <2> QED  BY <1>1, <1>2, <2>1, AssistantStep DEF Talking
<1>3. CASE focus # "assistant"
  <2>1. [InboxNext]_inboxVars /\ UNCHANGED assistantVars
    BY <1>3 DEF ServicesNext, Others, servicesVars
  <2>2. InboxInv'  BY <1>3, <2>1, InboxStep DEF Talking
  <2>3. AssistantInit'  BY <1>3, <2>1 DEF Talking, AssistantInit, assistantVars
  <2> QED  BY <1>1, <1>3, <2>2, <2>3 DEF Talking
<1> QED  BY <1>2, <1>3

LEMMA TalkingHasTypes == Talking => InboxTypeOK /\ AssistantTypeOK
<1> SUFFICES ASSUME Talking PROVE InboxTypeOK /\ AssistantTypeOK  OBVIOUS
<1>1. CASE focus = "assistant"
  BY <1>1, InboxInvGivesTypes, AssistantInvGivesTypes DEF Talking, AssistantInv
<1>2. CASE focus # "assistant"
  <2>1. InboxTypeOK /\ AssistantInit  BY <1>2, InboxInvGivesTypes DEF Talking
  <2>2. Len(thread) \in Nat  BY <2>1, LenProperties DEF InboxTypeOK
  <2>3. AssistantTypeOK  BY <2>1, <2>2 DEF AssistantInit, AssistantTypeOK, NoRun
  <2> QED  BY <2>1, <2>3
<1> QED  BY <1>1, <1>2

----------------------------------------------------------------------------
\* Every variable of every service keeps its type, and who works on a row has
\* what it works on, for every value of the constants and however the services
\* are interleaved.
THEOREM ServicesTypeCorrect == ServicesSpec => []ServicesTypeOK
<1>1. ServicesSpec => [](InboxTypeOK /\ AssistantTypeOK)
  BY TalkingStarts, TalkingStays, TalkingHasTypes, PTL DEF ServicesSpec
<1>2. ServicesSpec => []OutboxTypeOK
  BY ServicesStandApart, SizesStart, SizesStay, SizesGiveTypes, PTL
<1>3. InboxTypeOK /\ AssistantTypeOK /\ OutboxTypeOK /\ JobTypeOK /\ AccountsTypeOK
        /\ MembersTypeOK /\ AdaptersTypeOK /\ AgentTypeOK /\ RateTypeOK /\ MediaTypeOK
        => ServicesTypeOK
  BY DEF ServicesTypeOK
<1> QED
  BY <1>1, <1>2, <1>3, ServicesStandApart, JobTypeCorrect, AccountTypeCorrect,
     MembersTypeCorrect, AdapterTypeCorrect, AgentTypeCorrect, BucketCorrect,
     MediaTypeCorrect, PTL
=============================================================================
