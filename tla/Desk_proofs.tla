----------------------------- MODULE Desk_proofs ----------------------------
(***************************************************************************)
(* Theorems about the two operator panels, for any places, any depth of    *)
(* the channels, any joints and any sessions.                              *)
(***************************************************************************)
EXTENDS Desk, SequenceTheorems, TLAPS

(***************************************************************************)
(* Channels: what is at the end of the channel will be the value once      *)
(* everything under way has arrived.                                       *)
(***************************************************************************)
Coming(queue, value) == IF queue = <<>> THEN value ELSE queue[Len(queue)]

LEMMA ComingPut ==
  ASSUME NEW S, NEW queue \in Seq(S), NEW m \in S, NEW value
  PROVE  Coming(Append(queue, m), value) = m
BY AppendProperties DEF Coming

LEMMA ComingTake ==
  ASSUME NEW S, NEW queue \in Seq(S), queue # <<>>, NEW value
  PROVE  Coming(Tail(queue), Head(queue)) = Coming(queue, value)
<1>1. Len(queue) \in Nat /\ Len(queue) # 0
  <2>1. Len(queue) \in Nat
    OBVIOUS
  <2>2. Len(queue) # 0
    BY EmptySeq
  <2> QED BY <2>1, <2>2
<1>2. /\ Tail(queue) \in Seq(S)
      /\ Len(Tail(queue)) = Len(queue) - 1
      /\ \A i \in 1 .. Len(Tail(queue)) : Tail(queue)[i] = queue[i + 1]
  BY HeadTailProperties
<1>3. CASE Len(queue) = 1
  <2>1. Len(Tail(queue)) = 0
    BY <1>2, <1>3
  <2>2. Tail(queue) = <<>>
    BY <1>2, <2>1, EmptySeq, Zenon
  <2>3. Head(queue) = queue[1]
    OBVIOUS
  <2> QED BY <1>3, <2>2, <2>3 DEF Coming
<1>4. CASE Len(queue) # 1
  <2>1. Tail(queue)[Len(queue) - 1] = queue[Len(queue)]
    BY <1>1, <1>2, <1>4
  <2>2. Tail(queue) # <<>>
    BY <1>1, <1>2, <1>4
  <2> QED BY <1>2, <2>1, <2>2 DEF Coming
<1> QED BY <1>3, <1>4

-----------------------------------------------------------------------------
\* What a handler of the panel or the dashboard does to a channel.
LEMMA Added ==
  ASSUME NEW S, NEW queue \in Seq(S), NEW m \in S, Len(queue) < Depth
  PROVE  /\ Append(queue, m) \in Seq(S) /\ Len(Append(queue, m)) <= Depth
         /\ \A v : Coming(Append(queue, m), v) = m
<1>1. Len(queue) \in Nat
  OBVIOUS
<1>2. Append(queue, m) \in Seq(S) /\ Len(Append(queue, m)) = Len(queue) + 1
  BY AppendProperties
<1>3. \A v : Coming(Append(queue, m), v) = m
  BY ComingPut
<1> QED BY <1>1, <1>2, <1>3, LiveAssumption

LEMMA PutStiffness ==
  ASSUME TypeOK, NEW m \in BOOLEAN, Request(stiffnesses, m)
  PROVE  /\ stiffnesses' \in Seq(BOOLEAN) /\ Len(stiffnesses') <= Depth
         /\ ready => \A v : Coming(stiffnesses', v) = m
<1>1. stiffnesses \in Seq(BOOLEAN) /\ Len(stiffnesses) <= Depth
  BY DEF TypeOK, LiveTypeOK
<1>2. CASE ready
  <2>1. Len(stiffnesses) < Depth /\ stiffnesses' = Append(stiffnesses, m)
    BY <1>2 DEF Request, Put
  <2> QED BY <1>1, <2>1, Added
<1>3. CASE ~ready
  BY <1>1, <1>3 DEF Request
<1> QED BY <1>2, <1>3

LEMMA PutEnable ==
  ASSUME TypeOK, NEW m \in BOOLEAN, Request(enables, m)
  PROVE  /\ enables' \in Seq(BOOLEAN) /\ Len(enables') <= Depth
         /\ ready => \A v : Coming(enables', v) = m
<1>1. enables \in Seq(BOOLEAN) /\ Len(enables) <= Depth
  BY DEF TypeOK, LiveTypeOK
<1>2. CASE ready
  <2>1. Len(enables) < Depth /\ enables' = Append(enables, m)
    BY <1>2 DEF Request, Put
  <2> QED BY <1>1, <2>1, Added
<1>3. CASE ~ready
  BY <1>1, <1>3 DEF Request
<1> QED BY <1>2, <1>3

LEMMA PutTarget ==
  ASSUME TypeOK, NEW place \in Reach, Put(targets, place)
  PROVE  /\ targets' \in Seq(Reach) /\ Len(targets') <= Depth
         /\ \A v : Coming(targets', v) = place
BY Added DEF TypeOK, LiveTypeOK, Put

\* The three channels, when their first message is taken.
LEMMA Taken ==
  ASSUME NEW S, NEW queue \in Seq(S), queue # <<>>, Len(queue) <= Depth
  PROVE  Head(queue) \in S /\ Tail(queue) \in Seq(S) /\ Len(Tail(queue)) <= Depth
<1>1. Len(queue) \in Nat
  OBVIOUS
<1>2. Head(queue) \in S /\ Tail(queue) \in Seq(S) /\ Len(Tail(queue)) = Len(queue) - 1
  BY HeadTailProperties
<1> QED BY <1>1, <1>2, LiveAssumption

-----------------------------------------------------------------------------
(***************************************************************************)
(* Type correctness.  The panel keeps its own state, the channels get what *)
(* belongs in them, and the controller takes it from there.                *)
(***************************************************************************)
PanelTypeOK ==
  /\ tabs \in Sessions /\ tf \in Room \cup {NoPose}
  /\ heard \in {"unknown", "position", "force"} /\ news \in {"none", "position", "force"}
  /\ {box, button, servo, told, flipped, rest} \subseteq BOOLEAN
  /\ seed \in Room \cup {NoPose} /\ offset \in Offsets
  /\ jog \in -1..1 /\ twist \in -1..1
  /\ fjog \in Reach \cup {NoPose}
  /\ pulses \in 0..Pulses /\ reset \subseteq Joints

DashboardTypeOK ==
  /\ {served, labelled, retrying, inStep} \subseteq BOOLEAN
  /\ buffered \in Room \cup {NoPose} /\ seedTf \in Room \cup {NoPose}
  /\ slide \in Slides

LEMMA TypeParts ==
  TypeOK <=> LiveTypeOK /\ PanelTypeOK /\ DashboardTypeOK /\ open \in {"panel", "dashboard", "none"}
BY DEF TypeOK, PanelTypeOK, DashboardTypeOK

LEMMA InitType == Init => TypeOK
<1> SUFFICES ASSUME Init PROVE TypeOK
  OBVIOUS
<1>1. LiveTypeOK
  <2>1. <<>> \in Seq(BOOLEAN) /\ <<>> \in Seq(Reach) /\ Len(<<>>) <= Depth
    BY LiveAssumption, EmptySeq
  <2>2. arm \in Room /\ target \in Reach /\ ready \in BOOLEAN
    BY LiveAssumption DEF Init, LiveInit
  <2> QED BY <2>1, <2>2 DEF Init, LiveInit, LiveTypeOK
<1>2. PanelTypeOK
  <2>1. mode \in {"position", "force"}
    BY <1>1 DEF LiveTypeOK
  <2>2. pulses \in 0..Pulses
    BY PanelAssumption DEF Init, PanelInit
  <2>3. offset \in Offsets /\ jog \in -1..1 /\ twist \in -1..1 /\ reset \subseteq Joints
    BY PanelAssumption DEF Init, PanelInit
  <2>4. /\ tf \in Room \cup {NoPose} /\ seed \in Room \cup {NoPose} /\ tabs \in Sessions
        /\ fjog \in Reach \cup {NoPose}
        /\ heard \in {"unknown", "position", "force"} /\ news \in {"none", "position", "force"}
    BY <2>1 DEF Init, PanelInit
  <2>5. {box, button, servo, told, flipped, rest} \subseteq BOOLEAN
    BY DEF Init, PanelInit
  <2> QED BY <2>2, <2>3, <2>4, <2>5 DEF PanelTypeOK
<1>3. DashboardTypeOK
  BY DashboardAssumption DEF Init, LiveInit, DashboardInit, DashboardTypeOK
<1> QED BY <1>1, <1>2, <1>3, TypeParts DEF Init

\* The steps of the controller, the mode switcher and the arm.
LEMMA ControllerType == TypeOK /\ ControllerStep => TypeOK'
<1> SUFFICES ASSUME TypeOK, ControllerStep PROVE TypeOK'
  OBVIOUS
<1> USE TypeParts
<1>t. LiveTypeOK /\ PanelTypeOK /\ DashboardTypeOK
  OBVIOUS
<1>1. CASE ComeUp /\ UNCHANGED <<panel, dashboard, open>>
  BY <1>1 DEF ComeUp, TypeOK, LiveTypeOK, panel, dashboard, display, anchor, jogging, channels
<1>2. CASE TakeStiffness /\ UNCHANGED <<panel, dashboard, open>>
  <2>1. stiff' \in BOOLEAN /\ stiffnesses' \in Seq(BOOLEAN) /\ Len(stiffnesses') <= Depth
    BY <1>2, <1>t, Taken DEF TakeStiffness, LiveTypeOK
  <2> QED BY <1>2, <2>1 DEF TakeStiffness, TypeOK, LiveTypeOK, panel, dashboard, display, anchor, jogging
<1>3. CASE TakeEnable /\ UNCHANGED <<panel, dashboard, open>>
  <2>1. enabled' \in BOOLEAN /\ enables' \in Seq(BOOLEAN) /\ Len(enables') <= Depth
    BY <1>3, <1>t, Taken DEF TakeEnable, LiveTypeOK
  <2>2. target' \in Reach
    BY <1>3, <1>t, LiveAssumption DEF TakeEnable, LiveTypeOK
  <2> QED BY <1>3, <2>1, <2>2 DEF TakeEnable, TypeOK, LiveTypeOK, panel, dashboard, display, anchor, jogging
<1>4. CASE TakeTarget /\ UNCHANGED <<panel, dashboard, open>>
  <2>1. target' \in Reach /\ targets' \in Seq(Reach) /\ Len(targets') <= Depth
    BY <1>4, <1>t, Taken DEF TakeTarget, LiveTypeOK
  <2> QED BY <1>4, <2>1 DEF TakeTarget, TypeOK, LiveTypeOK, panel, dashboard, display, anchor, jogging
<1>5. CASE (Soften \/ Disable) /\ UNCHANGED <<panel, dashboard, open>>
  <2>1. target' \in Reach /\ {stiff', enabled'} \subseteq BOOLEAN
    BY <1>5, <1>t, LiveAssumption DEF Soften, Disable, LiveTypeOK
  <2> QED BY <1>5, <2>1
  DEF Soften, Disable, TypeOK, LiveTypeOK, panel, dashboard, display, anchor, jogging, channels
<1>6. ASSUME NEW m \in {"position", "force"}, AnnounceMode(m) \/ OthersChange(m) PROVE TypeOK'
  BY <1>6 DEF AnnounceMode, OthersChange, Announce, TypeOK, LiveTypeOK, dashboard, display, anchor,
     jogging, channels
<1>7. ASSUME NEW place \in Room, ArmMoves(place) PROVE TypeOK'
  <2>1. LiveTypeOK'
    BY <1>7, <1>t DEF ArmMoves, Move, LiveTypeOK, channels
  <2>2. PanelTypeOK'
    BY <1>7, <1>t DEF ArmMoves, Move, PanelTypeOK, display, anchor, jogging
  <2>3. DashboardTypeOK' /\ open' = open
    BY <1>7, <1>t DEF ArmMoves, DashboardTypeOK, dashboard
  <2> QED BY <2>1, <2>2, <2>3 DEF TypeOK, LiveTypeOK, PanelTypeOK, DashboardTypeOK
<1> QED BY <1>1, <1>2, <1>3, <1>4, <1>5, <1>6, <1>7 DEF ControllerStep

\* What the handlers share keeps the types.
TargetsOK == targets \in Seq(Reach) /\ Len(targets) <= Depth
AnchorOK  == seed \in Room \cup {NoPose} /\ offset \in Offsets

LEMMA PublishType ==
  ASSUME TypeOK, NEW place, PublishTarget(place)
  PROVE  TargetsOK'
BY PutTarget DEF PublishTarget, TargetsOK

LEMMA ReseedType ==
  ASSUME TypeOK, ReseedTarget
  PROVE  TargetsOK' /\ AnchorOK'
<1>1. CASE tf = NoPose
  BY <1>1 DEF ReseedTarget, anchor, TypeOK, LiveTypeOK, TargetsOK, AnchorOK
<1>2. CASE tf # NoPose
  <2>1. TargetsOK'
    BY <1>2, PublishType DEF ReseedTarget, PublishTarget, Put
  <2>2. seed' = tf /\ offset' = 0
    BY <1>2 DEF ReseedTarget
  <2> QED BY <2>1, <2>2, PanelAssumption DEF TypeOK, AnchorOK
<1> QED BY <1>1, <1>2

StiffnessesOK == stiffnesses \in Seq(BOOLEAN) /\ Len(stiffnesses) <= Depth

LEMMA OnSpringType ==
  ASSUME TypeOK, NEW on \in BOOLEAN, OnSpring(on)
  PROVE  TargetsOK' /\ AnchorOK' /\ StiffnessesOK' /\ rest' \in BOOLEAN
<1>1. StiffnessesOK'
  BY PutStiffness DEF OnSpring, SetStiffness, StiffnessesOK
<1>2. CASE on
  BY <1>1, <1>2, ReseedType DEF OnSpring
<1>3. CASE ~on
  BY <1>1, <1>3 DEF OnSpring, anchor, TypeOK, LiveTypeOK, TargetsOK, AnchorOK
<1> QED BY <1>2, <1>3

LEMMA ToggleIsSpring == ToggleSpring => \E on \in BOOLEAN : on = ~box /\ OnSpring(on)
BY DEF ToggleSpring, OnSpring, SetStiffness, Request, Put

\* Only the channels and the change of mode are touched outside the panel.
LEMMA PanelLeavesLive == TypeOK /\ PanelStep => LiveTypeOK'
<1> SUFFICES ASSUME TypeOK, PanelStep PROVE LiveTypeOK'
  OBVIOUS
<1>t. LiveTypeOK /\ PanelTypeOK
  BY TypeParts
<1>1. CASE UNCHANGED live
  BY <1>1, <1>t DEF live, channels, LiveTypeOK
<1>2. CASE SwitchToForce \/ SwitchToPosition
  BY <1>2, <1>t DEF SwitchToForce, SwitchToPosition, Ask, channels, LiveTypeOK
<1>3. CASE ToggleSpring
  <2>1. PICK on \in BOOLEAN : OnSpring(on)
    BY <1>3, ToggleIsSpring
  <2>2. TargetsOK' /\ StiffnessesOK'
    BY <2>1, OnSpringType
  <2> QED BY <1>3, <1>t, <2>2 DEF ToggleSpring, LiveTypeOK, TargetsOK, StiffnessesOK
<1>4. CASE ToggleEnable
  <2>1. enables' \in Seq(BOOLEAN) /\ Len(enables') <= Depth
    <3>1. PICK on \in BOOLEAN : on = ~button
      OBVIOUS
    <3>2. Request(enables, on)
      BY <1>4, <3>1 DEF ToggleEnable, Request, Put
    <3> QED BY <3>2, PutEnable
  <2> QED BY <1>4, <1>t, <2>1 DEF ToggleEnable, LiveTypeOK
<1>5. ASSUME NEW d \in Offsets, ChangeOffset(d) PROVE LiveTypeOK'
  <2>1. TargetsOK'
    <3>1. CASE seed = NoPose
      BY <1>5, <1>t, <3>1 DEF ChangeOffset, LiveTypeOK, TargetsOK
    <3>2. CASE seed # NoPose
      BY <1>5, <3>2, PublishType DEF ChangeOffset, PublishTarget, Put
    <3> QED BY <3>1, <3>2
  <2> QED BY <1>5, <1>t, <2>1 DEF ChangeOffset, LiveTypeOK, TargetsOK
<1>6. CASE Reseed
  <2>1. TargetsOK'
    BY <1>6, ReseedType DEF Reseed
  <2> QED BY <1>6, <1>t, <2>1 DEF Reseed, LiveTypeOK, TargetsOK
<1>7. CASE ChangeStiffness
  <2>1. stiffnesses' \in Seq(BOOLEAN) /\ Len(stiffnesses') <= Depth
    BY <1>7, PutStiffness DEF ChangeStiffness, SetStiffness
  <2> QED BY <1>7, <1>t, <2>1 DEF ChangeStiffness, LiveTypeOK
<1>8. CASE ApplyPreset
  <2>1. TargetsOK' /\ StiffnessesOK'
    <3>1. CASE box
      <4>1. StiffnessesOK'
        BY <1>8, <3>1, PutStiffness DEF ApplyPreset, SetStiffness, StiffnessesOK
      <4> QED BY <1>8, <1>t, <3>1, <4>1 DEF ApplyPreset, LiveTypeOK, TargetsOK
    <3>2. CASE ~box
      BY <1>8, <3>2, OnSpringType DEF ApplyPreset
    <3> QED BY <3>1, <3>2
  <2> QED BY <1>8, <1>t, <2>1 DEF ApplyPreset, LiveTypeOK, TargetsOK, StiffnessesOK
<1>9. CASE Tick
  <2>1. TargetsOK'
    <3>1. CASE heard = "position"
      BY <1>9, <1>t, <3>1 DEF Tick, LiveTypeOK, TargetsOK
    <3>2. CASE heard # "position"
      BY <1>9, <3>2, PublishType DEF Tick, PublishTarget, Put
    <3> QED BY <3>1, <3>2
  <2> QED BY <1>9, <1>t, <2>1 DEF Tick, LiveTypeOK, TargetsOK
<1> QED
  BY <1>1, <1>2, <1>3, <1>4, <1>5, <1>6, <1>7, <1>8, <1>9
  DEF PanelStep, HearTransform, HearMode, Press, Release, StopServo, ResetFaults, EndPulse

LEMMA PanelOwnType == TypeOK /\ PanelStep => PanelTypeOK'
<1> SUFFICES ASSUME TypeOK, PanelStep PROVE PanelTypeOK'
  OBVIOUS
<1>t. LiveTypeOK /\ PanelTypeOK
  BY TypeParts
<1> USE DEF PanelTypeOK, display, anchor, jogging
<1>1. CASE HearTransform
  BY <1>1, <1>t DEF HearTransform, LiveTypeOK
<1>2. CASE HearMode
  BY <1>2, <1>t DEF HearMode
<1>3. CASE SwitchToForce
  BY <1>3, <1>t DEF SwitchToForce
<1>4. CASE SwitchToPosition
  BY <1>4, <1>t DEF SwitchToPosition
<1>5. CASE ToggleSpring
  <2>1. PICK on \in BOOLEAN : OnSpring(on)
    BY <1>5, ToggleIsSpring
  <2>2. AnchorOK' /\ rest' \in BOOLEAN
    BY <2>1, OnSpringType
  <2> QED BY <1>5, <1>t, <2>2 DEF ToggleSpring, Follows, AnchorOK
<1>6. CASE ToggleEnable
  BY <1>6, <1>t DEF ToggleEnable, Follows
<1>7. ASSUME NEW d \in Offsets, ChangeOffset(d) PROVE PanelTypeOK'
  BY <1>7, <1>t DEF ChangeOffset
<1>8. CASE Reseed
  <2>1. AnchorOK'
    BY <1>8, ReseedType DEF Reseed
  <2> QED BY <1>8, <1>t, <2>1 DEF Reseed, AnchorOK
<1>9. CASE ChangeStiffness
  BY <1>9, <1>t DEF ChangeStiffness, Follows
<1>10. CASE ApplyPreset
  <2>1. AnchorOK' /\ rest' \in BOOLEAN
    <3>1. CASE box
      BY <1>10, <1>t, <3>1 DEF ApplyPreset, AnchorOK
    <3>2. CASE ~box
      BY <1>10, <3>2, OnSpringType DEF ApplyPreset
    <3> QED BY <3>1, <3>2
  <2> QED BY <1>10, <1>t, <2>1 DEF ApplyPreset, Follows, AnchorOK
<1>11. ASSUME NEW sign \in {-1, 1}, Press(sign) PROVE PanelTypeOK'
  <2>1. servo' \in BOOLEAN /\ fjog' \in Reach \cup {NoPose}
    BY <1>11, <1>t, LiveAssumption DEF Press, LiveTypeOK
  <2> QED BY <1>11, <1>t, <2>1 DEF Press
<1>12. CASE Tick
  <2>1. twist' \in -1..1 /\ fjog' \in Reach \cup {NoPose} /\ rest' \in BOOLEAN
    BY <1>12, <1>t DEF Tick, PublishTarget
  <2> QED BY <1>12, <1>t, <2>1 DEF Tick
<1>13. CASE Release
  BY <1>13, <1>t DEF Release
<1>14. CASE StopServo
  BY <1>14, <1>t DEF StopServo
<1>15. ASSUME NEW J \in SUBSET Joints, ResetFaults(J) PROVE PanelTypeOK'
  BY <1>15, <1>t, PanelAssumption DEF ResetFaults
<1>16. CASE EndPulse
  BY <1>16, <1>t, PanelAssumption DEF EndPulse
<1> QED BY <1>1, <1>2, <1>3, <1>4, <1>5, <1>6, <1>7, <1>8, <1>9, <1>10, <1>11, <1>12, <1>13,
           <1>14, <1>15, <1>16
        DEF PanelStep

\* The same for the dashboard.
LEMMA SlideType ==
  ASSUME TypeOK, NEW from \in Room \cup {NoPose}, NEW by \in Slides, PublishSlide(from, by)
  PROVE  TargetsOK'
<1>1. CASE from = NoPose
  BY <1>1 DEF PublishSlide, TypeOK, LiveTypeOK, TargetsOK
<1>2. CASE from # NoPose
  <2>1. from + by \in Reach /\ Put(targets, from + by)
    BY <1>2 DEF PublishSlide
  <2> QED BY <2>1, PutTarget DEF TargetsOK
<1> QED BY <1>1, <1>2

LEMMA SeedType ==
  ASSUME TypeOK, SeedFromBuffer
  PROVE  LiveTypeOK' /\ seedTf' \in Room \cup {NoPose} /\ slide' \in Slides
<1>t. LiveTypeOK /\ DashboardTypeOK
  BY TypeParts
<1>1. CASE buffered = NoPose
  BY <1>1, <1>t DEF SeedFromBuffer, LiveTypeOK, DashboardTypeOK
<1>2. CASE buffered # NoPose
  <2>1. PICK from \in Room \cup {NoPose} : from = buffered
    BY <1>t DEF DashboardTypeOK
  <2>2. PublishSlide(from, 0)
    BY <1>2, <2>1 DEF SeedFromBuffer, PublishSlide, Put
  <2>3. TargetsOK'
    BY <2>2, SlideType, DashboardAssumption
  <2> QED BY <1>2, <1>t, <2>3, DashboardAssumption
          DEF SeedFromBuffer, LiveTypeOK, DashboardTypeOK, TargetsOK
<1> QED BY <1>1, <1>2

LEMMA DashboardType == TypeOK /\ DashboardStep => LiveTypeOK' /\ DashboardTypeOK'
<1> SUFFICES ASSUME TypeOK, DashboardStep PROVE LiveTypeOK' /\ DashboardTypeOK'
  OBVIOUS
<1>t. LiveTypeOK /\ DashboardTypeOK
  BY TypeParts
<1>s. Spin => served' \in BOOLEAN /\ buffered' \in Room \cup {NoPose}
  BY <1>t DEF Spin, LiveTypeOK, DashboardTypeOK
<1>1. CASE BufferTransform
  BY <1>1, <1>t DEF BufferTransform, live, channels, LiveTypeOK, DashboardTypeOK
<1>2. CASE Toggle
  <2>1. PICK on \in BOOLEAN : on = ~labelled
    OBVIOUS
  <2>2. Request(enables, on)
    BY <1>2, <2>1 DEF Toggle, CallEnable, Request, Put
  <2>3. LiveTypeOK'
    BY <1>2, <1>t, <2>2, PutEnable DEF Toggle, LiveTypeOK
  <2>4. labelled' \in BOOLEAN /\ inStep' \in BOOLEAN
    BY <1>2 DEF Toggle
  <2> QED BY <1>2, <1>t, <1>s, <2>3, <2>4 DEF Toggle, CallEnable, DashboardTypeOK
<1>3. CASE Tare
  BY <1>3, <1>t, <1>s DEF Tare, live, channels, LiveTypeOK, DashboardTypeOK
<1>4. ASSUME NEW on \in BOOLEAN, SlideStiffness(on) PROVE LiveTypeOK' /\ DashboardTypeOK'
  <2>1. LiveTypeOK'
    BY <1>4, <1>t, PutStiffness DEF SlideStiffness, LiveTypeOK
  <2> QED BY <1>4, <1>t, <1>s, <2>1 DEF SlideStiffness, DashboardTypeOK
<1>5. CASE PressReseed \/ Retry
  <2>1. retrying' \in BOOLEAN /\ SeedFromBuffer
    BY <1>5, <1>t DEF PressReseed, Retry, DashboardTypeOK
  <2> QED BY <2>1, <1>t, SeedType DEF SeedFromBuffer, DashboardTypeOK
<1>6. ASSUME NEW by \in Slides, SlideOffset(by) PROVE LiveTypeOK' /\ DashboardTypeOK'
  <2>1. PICK from \in Room \cup {NoPose} : from = seedTf
    BY <1>t DEF DashboardTypeOK
  <2>2. TargetsOK'
    <3>1. PublishSlide(from, by)
      BY <1>6, <2>1 DEF SlideOffset, PublishSlide, Put
    <3> QED BY <3>1, SlideType
  <2> QED BY <1>6, <1>t, <2>2 DEF SlideOffset, LiveTypeOK, DashboardTypeOK, TargetsOK
<1> QED BY <1>1, <1>2, <1>3, <1>4, <1>5, <1>6 DEF DashboardStep, Preset

LEMMA NextType == TypeOK /\ [Next]_desk => TypeOK'
<1> SUFFICES ASSUME TypeOK, [Next]_desk PROVE TypeOK'
  OBVIOUS
<1>t. LiveTypeOK /\ PanelTypeOK /\ DashboardTypeOK /\ open \in {"panel", "dashboard", "none"}
  BY TypeParts
<1>g. SUFFICES LiveTypeOK' /\ PanelTypeOK' /\ DashboardTypeOK' /\ open' \in {"panel", "dashboard", "none"}
  BY DEF TypeOK, PanelTypeOK, DashboardTypeOK
<1>1. CASE ControllerStep
  <2>1. TypeOK'
    BY <1>1, ControllerType
  <2> QED BY <2>1 DEF TypeOK, PanelTypeOK, DashboardTypeOK
<1>2. CASE PanelStep /\ UNCHANGED <<dashboard, open>>
  BY <1>2, <1>t, PanelLeavesLive, PanelOwnType DEF dashboard, DashboardTypeOK
<1>3. CASE DashboardStep /\ UNCHANGED <<panel, open>>
  BY <1>3, <1>t, DashboardType DEF panel, display, anchor, jogging, PanelTypeOK
<1>4. CASE ClosePanel
  <2>1. LiveTypeOK' /\ DashboardTypeOK' /\ open' = "none"
    BY <1>4, <1>t DEF ClosePanel, live, channels, dashboard, LiveTypeOK, DashboardTypeOK
  <2>2. PanelTypeOK'
    <3>1. jog' \in -1..1 /\ pulses' \in 0..Pulses /\ servo' = FALSE
      BY <1>4, PanelAssumption DEF ClosePanel
    <3> QED BY <1>4, <1>t, <3>1 DEF ClosePanel, display, anchor, PanelTypeOK
  <2> QED BY <2>1, <2>2
<1>5. CASE UNCHANGED desk
  BY <1>5, <1>t
  DEF desk, live, panel, dashboard, channels, display, anchor, jogging, LiveTypeOK, PanelTypeOK,
      DashboardTypeOK
<1> QED BY <1>1, <1>2, <1>3, <1>4, <1>5 DEF Next

(***************************************************************************)
(* The panels, the channels and the controller keep their types.           *)
(***************************************************************************)
THEOREM DeskType == Spec => []TypeOK
BY InitType, NextType, PTL DEF Spec

-----------------------------------------------------------------------------
(***************************************************************************)
(* The spring is switched on at rest: until something moves, what is or    *)
(* will be the target is where the arm is.                                 *)
(***************************************************************************)
RestInv == open = "panel" /\ rest => Coming(targets, target) = arm

\* A toggle of the spring, by the box or by a preset.
LEMMA SpringRests ==
  ASSUME TypeOK, NEW on \in BOOLEAN, OnSpring(on), rest'
  PROVE  \A v : Coming(targets', v) = arm
<1>1. on /\ tf = arm
  BY DEF OnSpring
<1>2. tf # NoPose
  BY <1>1, LiveAssumption DEF TypeOK, LiveTypeOK
<1>3. PICK place : place = tf
  OBVIOUS
<1>4. place \in Reach /\ Put(targets, place)
  BY <1>1, <1>2, <1>3 DEF OnSpring, ReseedTarget, PublishTarget, Put
<1> QED BY <1>1, <1>3, <1>4, PutTarget

LEMMA RestInit == Init => RestInv
BY DEF Init, PanelInit, RestInv

LEMMA RestNext == TypeOK /\ RestInv /\ [Next]_desk => RestInv'
<1> SUFFICES ASSUME TypeOK, RestInv, [Next]_desk, open' = "panel", rest'
             PROVE  Coming(targets', target') = arm'
  BY DEF RestInv
<1>q. targets \in Seq(Reach) /\ Coming(<<>>, target) = target
  BY DEF TypeOK, LiveTypeOK, Coming
<1>o. open = "panel"
  BY DEF Next, ControllerStep, AnnounceMode, OthersChange, ArmMoves, ClosePanel, desk
<1>1. CASE TakeTarget /\ UNCHANGED <<panel, dashboard, open>>
  <2>1. Coming(targets', target') = Coming(targets, target)
    BY <1>1, <1>q, ComingTake DEF TakeTarget
  <2> QED BY <1>1, <1>o, <2>1 DEF TakeTarget, RestInv, panel
<1>2. CASE (TakeEnable \/ Soften) /\ UNCHANGED <<panel, dashboard, open>>
  <2>1. targets' = targets /\ arm' = arm /\ target' \in {target, arm} /\ rest
    BY <1>2 DEF TakeEnable, Soften, panel, channels
  <2>2. Coming(targets, target) = arm
    BY <1>o, <2>1 DEF RestInv
  <2> QED BY <2>1, <2>2 DEF Coming
<1>3. CASE ToggleSpring /\ UNCHANGED <<dashboard, open>>
  <2>1. PICK on \in BOOLEAN : OnSpring(on)
    BY <1>3, ToggleIsSpring
  <2> QED BY <1>3, <2>1, SpringRests DEF ToggleSpring
<1>4. CASE ApplyPreset /\ UNCHANGED <<dashboard, open>>
  <2>1. CASE box
    BY <1>4, <1>o, <2>1 DEF ApplyPreset, RestInv
  <2>2. CASE ~box
    BY <1>4, <2>2, SpringRests DEF ApplyPreset
  <2> QED BY <2>1, <2>2
<1>5. CASE UNCHANGED <<targets, target, arm, rest>>
  BY <1>5, <1>o DEF RestInv
\* Everything else leaves these alone or ends the rest.
<1>6. CASE ControllerStep
  BY <1>1, <1>2, <1>5, <1>6
  DEF ControllerStep, ComeUp, TakeStiffness, Disable, AnnounceMode, Announce, OthersChange, ArmMoves,
      panel, channels
<1>7. CASE PanelStep /\ UNCHANGED <<dashboard, open>>
  <2>1. CASE Tick
    BY <1>5, <2>1 DEF Tick
  <2> QED
    BY <1>3, <1>4, <1>5, <1>7, <2>1
    DEF PanelStep, HearTransform, HearMode, SwitchToForce, SwitchToPosition, ToggleEnable, Reseed,
        ChangeStiffness, Release, StopServo, EndPulse, ChangeOffset, Press, ResetFaults, live, channels
<1>8. CASE ClosePanel \/ (open = "dashboard" /\ DashboardStep /\ UNCHANGED <<panel, open>>)
  BY <1>8, <1>o DEF ClosePanel
<1> QED BY <1>5, <1>6, <1>7, <1>8 DEF Next, desk, live, channels, panel

(***************************************************************************)
(* A spring that is switched on while nothing has moved since pulls        *)
(* nowhere: the target is where the arm is, once it has arrived.           *)
(***************************************************************************)
THEOREM SpringStartsAtRest == Spec => SpringAtRest
<1>1. Init => TypeOK /\ RestInv
  BY InitType, RestInit
<1>2. (TypeOK /\ RestInv) /\ [Next]_desk => (TypeOK /\ RestInv)'
  BY NextType, RestNext
<1>3. RestInv => (open = "panel" /\ ~stiff /\ stiff' /\ rest /\ targets = <<>> => target = arm)
  BY DEF RestInv, Coming
<1> QED BY <1>1, <1>2, <1>3, PTL DEF Spec, SpringAtRest

-----------------------------------------------------------------------------
(***************************************************************************)
(* Letting go: with the finger off, or on in force mode, the last twist is *)
(* zero unless the mode changed under the finger; and without a timer no   *)
(* reset command is up.                                                    *)
(***************************************************************************)
LetGo ==
  /\ open = "panel" /\ ~flipped /\ (jog = 0 \/ heard # "position") => twist = 0
  /\ open = "panel" /\ pulses = 0 => reset = {}

LEMMA LetGoInit == Init => LetGo
BY DEF Init, PanelInit, LetGo

LEMMA LetGoNext == TypeOK /\ LetGo /\ [Next]_desk => LetGo'
<1> SUFFICES ASSUME TypeOK, LetGo, [Next]_desk PROVE LetGo'
  OBVIOUS
<1>t. pulses \in Nat
  BY PanelAssumption DEF TypeOK
<1>1. CASE UNCHANGED <<jog, heard, twist, flipped, pulses, reset, open>>
  BY <1>1 DEF LetGo
<1>2. CASE HearMode /\ UNCHANGED <<dashboard, open>>
  BY <1>2 DEF HearMode, LetGo
<1>3. ASSUME NEW sign \in {-1, 1}, Press(sign) /\ UNCHANGED <<dashboard, open>> PROVE LetGo'
  BY <1>3 DEF Press, LetGo
<1>4. CASE Tick /\ UNCHANGED <<dashboard, open>>
  BY <1>4 DEF Tick, LetGo
<1>5. CASE Release /\ UNCHANGED <<dashboard, open>>
  BY <1>5 DEF Release, LetGo
<1>6. ASSUME NEW J, ResetFaults(J) /\ UNCHANGED <<dashboard, open>> PROVE LetGo'
  BY <1>6, <1>t DEF ResetFaults, jogging, LetGo
<1>7. CASE EndPulse /\ UNCHANGED <<dashboard, open>>
  BY <1>7 DEF EndPulse, jogging, LetGo
<1>8. CASE ClosePanel
  BY <1>8 DEF ClosePanel, LetGo
<1>9. CASE PanelStep /\ UNCHANGED <<dashboard, open>>
  <2>1. CASE HearTransform \/ SwitchToForce \/ SwitchToPosition \/ ToggleSpring \/ ToggleEnable
    BY <1>1, <1>9, <2>1
    DEF HearTransform, SwitchToForce, SwitchToPosition, ToggleSpring, ToggleEnable, jogging
  <2>2. CASE Reseed \/ ChangeStiffness \/ ApplyPreset \/ StopServo
    BY <1>1, <1>9, <2>2 DEF Reseed, ChangeStiffness, ApplyPreset, StopServo, jogging
  <2>3. ASSUME NEW d \in Offsets, ChangeOffset(d) PROVE LetGo'
    BY <1>1, <1>9, <2>3 DEF ChangeOffset, jogging
  <2> QED BY <1>2, <1>3, <1>4, <1>5, <1>6, <1>7, <1>9, <2>1, <2>2, <2>3 DEF PanelStep
<1>10. CASE ControllerStep
  <2>1. ASSUME NEW m \in {"position", "force"}, AnnounceMode(m) \/ OthersChange(m) PROVE LetGo'
    BY <1>1, <2>1 DEF AnnounceMode, OthersChange, jogging
  <2>2. ASSUME NEW place \in Room, ArmMoves(place) PROVE LetGo'
    BY <1>1, <2>2 DEF ArmMoves, jogging
  <2>3. CASE UNCHANGED <<panel, dashboard, open>>
    BY <1>1, <2>3 DEF panel, jogging
  <2> QED BY <1>10, <2>1, <2>2, <2>3 DEF ControllerStep
<1> QED BY <1>1, <1>8, <1>9, <1>10 DEF Next, desk, panel, jogging

(***************************************************************************)
(* Hold to move, release to stop: no twist and no reset command is left    *)
(* behind by an operator who has let go.                                   *)
(***************************************************************************)
THEOREM HandsOffStops == Spec => []HandsOff
<1>1. Init => TypeOK /\ LetGo
  BY InitType, LetGoInit
<1>2. (TypeOK /\ LetGo) /\ [Next]_desk => (TypeOK /\ LetGo)'
  BY NextType, LetGoNext
<1>3. LetGo => HandsOff
  BY DEF LetGo, HandsOff
<1> QED BY <1>1, <1>2, <1>3, PTL DEF Spec

-----------------------------------------------------------------------------
(***************************************************************************)
(* What the displays promise while requests are under way: the last one    *)
(* sent is what is shown.  A change to force that the panel asked for      *)
(* finds the channels empty and ends with zero stiffness, enabled.         *)
(***************************************************************************)
PanelShows ==
  open = "panel" /\ told =>
    /\ change \in {"none", "force", "ramp"}
    /\ change = "none" => Coming(stiffnesses, stiff) = box /\ Coming(enables, enabled) = button
    /\ change # "none" => stiffnesses = <<>> /\ enables = <<>> /\ box = FALSE /\ button = TRUE
    /\ change = "ramp" => stiff = FALSE /\ enabled = TRUE

DashboardShows ==
  open = "dashboard" /\ inStep => change = "none" /\ Coming(enables, enabled) = labelled

LEMMA ShownInit == Init => PanelShows /\ DashboardShows
BY DEF Init, LiveInit, PanelInit, DashboardInit, PanelShows, DashboardShows, Coming

LEMMA PanelShownNext == TypeOK /\ PanelShows /\ [Next]_desk => PanelShows'
<1> SUFFICES ASSUME TypeOK, PanelShows, [Next]_desk, open' = "panel", told' PROVE PanelShows'
  BY DEF PanelShows
<1>o. open = "panel"
  BY DEF Next, ControllerStep, AnnounceMode, OthersChange, ArmMoves, ClosePanel, desk
<1>t. stiffnesses \in Seq(BOOLEAN) /\ enables \in Seq(BOOLEAN)
  BY DEF TypeOK, LiveTypeOK
<1>e. \A v : Coming(<<>>, v) = v
  BY DEF Coming
<1>1. CASE UNCHANGED <<told, change, stiffnesses, stiff, enables, enabled, box, button>>
  BY <1>1, <1>o DEF PanelShows, Coming
<1>2. CASE TakeStiffness /\ UNCHANGED <<panel, dashboard, open>>
  <2>1. Coming(stiffnesses', stiff') = Coming(stiffnesses, stiff)
    BY <1>2, <1>t, ComingTake DEF TakeStiffness
  <2>2. told /\ box' = box /\ button' = button /\ enables' = enables /\ enabled' = enabled
    BY <1>2 DEF TakeStiffness, panel, display
  <2>3. change = "none" /\ change' = change
    BY <1>2, <1>o, <2>2 DEF TakeStiffness, PanelShows
  <2> QED BY <1>o, <2>1, <2>2, <2>3 DEF PanelShows, Coming
<1>3. CASE TakeEnable /\ UNCHANGED <<panel, dashboard, open>>
  <2>1. Coming(enables', enabled') = Coming(enables, enabled)
    BY <1>3, <1>t, ComingTake DEF TakeEnable
  <2>2. told /\ box' = box /\ button' = button /\ stiffnesses' = stiffnesses /\ stiff' = stiff
    BY <1>3 DEF TakeEnable, panel, display
  <2>3. change = "none" /\ change' = change
    BY <1>3, <1>o, <2>2 DEF TakeEnable, PanelShows
  <2> QED BY <1>o, <2>1, <2>2, <2>3 DEF PanelShows, Coming
<1>4. CASE (Soften \/ Disable) /\ UNCHANGED <<panel, dashboard, open>>
  <2>1. Soften /\ told /\ UNCHANGED <<box, button, stiffnesses, enables>>
    BY <1>4, <1>o DEF Soften, Disable, PanelShows, panel, display, channels
  <2> QED BY <1>o, <2>1 DEF Soften, PanelShows
<1>5. ASSUME NEW m \in {"position", "force"}, AnnounceMode(m) PROVE PanelShows'
  <2>1. told /\ UNCHANGED <<box, button, stiffnesses, enables, stiff, enabled>>
    BY <1>5 DEF AnnounceMode, Announce, display, channels
  <2>2. change = "ramp" /\ change' = "none"
    BY <1>5, <1>o, <2>1 DEF AnnounceMode, Announce, PanelShows
  <2> QED BY <1>o, <1>e, <2>1, <2>2 DEF PanelShows
<1>6. CASE SwitchToForce
  <2>1. /\ change' = "force" /\ stiffnesses = <<>> /\ enables = <<>>
        /\ UNCHANGED <<stiffnesses, enables>>
        /\ box' = FALSE /\ button' = TRUE
    BY <1>6 DEF SwitchToForce, Ask, channels
  <2> QED BY <2>1 DEF PanelShows
<1>f. Follows => told /\ ready /\ change = "none"
  BY DEF Follows
<1>7. CASE ToggleSpring
  <2>1. told /\ ready /\ change = "none" /\ UNCHANGED <<change, enables, enabled, button, stiff>>
    BY <1>7, <1>f DEF ToggleSpring
  <2>2. PICK on \in BOOLEAN : on = ~box /\ OnSpring(on)
    BY <1>7, ToggleIsSpring
  <2>3. Coming(stiffnesses', stiff) = on
    BY <2>1, <2>2, PutStiffness DEF OnSpring, SetStiffness
  <2>4. box' = on
    BY <1>7, <2>2 DEF ToggleSpring
  <2> QED BY <1>o, <2>1, <2>3, <2>4 DEF PanelShows, Coming
<1>8. CASE ToggleEnable
  <2>1. told /\ ready /\ change = "none" /\ UNCHANGED <<change, stiffnesses, stiff, box, enabled>>
    BY <1>8, <1>f DEF ToggleEnable
  <2>2. PICK on \in BOOLEAN : on = ~button
    OBVIOUS
  <2>3. Request(enables, on) /\ button' = on
    BY <1>8, <2>2 DEF ToggleEnable, Request, Put
  <2>4. Coming(enables', enabled) = on
    BY <2>1, <2>3, PutEnable
  <2> QED BY <1>o, <2>1, <2>3, <2>4 DEF PanelShows, Coming
<1>9. CASE ChangeStiffness \/ ApplyPreset
  <2>1. told /\ ready /\ change = "none" /\ UNCHANGED <<change, enables, enabled, button, stiff>>
    BY <1>9, <1>f DEF ChangeStiffness, ApplyPreset, display
  <2>2. Request(stiffnesses, TRUE)
    BY <1>9 DEF ChangeStiffness, ApplyPreset, OnSpring, SetStiffness
  <2>3. Coming(stiffnesses', stiff) = TRUE
    BY <2>1, <2>2, PutStiffness
  <2>4. box' = TRUE
    BY <1>9 DEF ChangeStiffness, ApplyPreset, TypeOK, display
  <2> QED BY <1>o, <2>1, <2>3, <2>4 DEF PanelShows, Coming
<1>10. CASE ControllerStep
  <2>1. CASE ComeUp /\ UNCHANGED <<panel, dashboard, open>>
    BY <1>1, <2>1 DEF ComeUp, panel, display, channels
  <2>2. CASE TakeTarget /\ UNCHANGED <<panel, dashboard, open>>
    BY <1>1, <2>2 DEF TakeTarget, panel, display
  <2>3. ASSUME NEW m \in {"position", "force"}, OthersChange(m) PROVE FALSE
    BY <2>3 DEF OthersChange
  <2>4. ASSUME NEW place \in Room, ArmMoves(place) PROVE PanelShows'
    BY <1>1, <2>4 DEF ArmMoves, Move, display, channels
  <2> QED BY <1>2, <1>3, <1>4, <1>5, <1>10, <2>1, <2>2, <2>3, <2>4 DEF ControllerStep
<1>11. CASE PanelStep
  <2>1. CASE HearTransform \/ HearMode \/ Release \/ StopServo \/ EndPulse
    BY <1>1, <2>1 DEF HearTransform, HearMode, Release, StopServo, EndPulse, live, channels, display
  <2>2. CASE Reseed \/ Tick
    BY <1>1, <2>2 DEF Reseed, Tick, display
  <2>3. ASSUME NEW d \in Offsets, ChangeOffset(d) PROVE PanelShows'
    BY <1>1, <2>3 DEF ChangeOffset, display
  <2>4. ASSUME NEW sign \in {-1, 1}, Press(sign) PROVE PanelShows'
    BY <1>1, <2>4 DEF Press, live, channels, display
  <2>5. ASSUME NEW J, ResetFaults(J) PROVE PanelShows'
    BY <1>1, <2>5 DEF ResetFaults, live, channels, display
  <2>6. CASE SwitchToPosition
    BY <2>6 DEF SwitchToPosition
  <2> QED BY <1>6, <1>7, <1>8, <1>9, <1>11, <2>1, <2>2, <2>3, <2>4, <2>5, <2>6 DEF PanelStep
<1>12. CASE UNCHANGED desk
  BY <1>1, <1>12 DEF desk, live, panel, channels, display
<1> QED BY <1>o, <1>10, <1>11, <1>12 DEF Next, ClosePanel

LEMMA DashboardShownNext == TypeOK /\ DashboardShows /\ [Next]_desk => DashboardShows'
<1> SUFFICES ASSUME TypeOK, DashboardShows, [Next]_desk, open' = "dashboard", inStep'
             PROVE  change' = "none" /\ Coming(enables', enabled') = labelled'
  BY DEF DashboardShows
<1>o. open = "dashboard"
  BY DEF Next, ControllerStep, AnnounceMode, OthersChange, ArmMoves, ClosePanel, desk
<1>t. enables \in Seq(BOOLEAN)
  BY DEF TypeOK, LiveTypeOK
<1>1. CASE UNCHANGED <<inStep, change, enables, enabled, labelled>>
  BY <1>1, <1>o DEF DashboardShows
<1>2. CASE TakeEnable /\ UNCHANGED <<panel, dashboard, open>>
  <2>1. Coming(enables', enabled') = Coming(enables, enabled)
    BY <1>2, <1>t, ComingTake DEF TakeEnable
  <2> QED BY <1>2, <1>o, <2>1 DEF TakeEnable, DashboardShows, dashboard
<1>3. CASE Toggle
  <2>1. inStep /\ ready /\ UNCHANGED <<change, enabled>>
    BY <1>3 DEF Toggle
  <2>2. PICK on \in BOOLEAN : on = ~labelled
    OBVIOUS
  <2>3. Request(enables, on) /\ labelled' = on
    BY <1>3, <2>2 DEF Toggle, CallEnable, Request, Put
  <2>4. Coming(enables', enabled) = on
    BY <2>1, <2>3, PutEnable
  <2> QED BY <1>o, <2>1, <2>3, <2>4 DEF DashboardShows, Coming
<1>4. CASE ControllerStep
  <2>1. CASE (ComeUp \/ TakeStiffness \/ TakeTarget) /\ UNCHANGED <<panel, dashboard, open>>
    BY <1>1, <2>1 DEF ComeUp, TakeStiffness, TakeTarget, dashboard, channels
  <2>2. CASE (Soften \/ Disable) /\ UNCHANGED <<panel, dashboard, open>>
    BY <1>o, <2>2 DEF Soften, Disable, DashboardShows, dashboard
  <2>3. ASSUME NEW m \in {"position", "force"}, AnnounceMode(m) \/ OthersChange(m) PROVE FALSE
    BY <1>o, <2>3 DEF AnnounceMode, Announce, OthersChange, DashboardShows, dashboard
  <2>4. ASSUME NEW place \in Room, ArmMoves(place)
        PROVE  UNCHANGED <<inStep, change, enables, enabled, labelled>>
    BY <2>4 DEF ArmMoves, Move, dashboard, channels
  <2> QED BY <1>1, <1>2, <1>4, <2>1, <2>2, <2>3, <2>4 DEF ControllerStep
<1>5. CASE DashboardStep
  <2>1. CASE BufferTransform \/ Tare
    BY <1>1, <2>1 DEF BufferTransform, Tare, live, channels
  <2>2. ASSUME NEW on \in BOOLEAN, SlideStiffness(on)
        PROVE  UNCHANGED <<inStep, change, enables, enabled, labelled>>
    BY <2>2 DEF SlideStiffness
  <2>3. CASE PressReseed \/ Retry
    BY <1>1, <2>3 DEF PressReseed, Retry, SeedFromBuffer
  <2>4. ASSUME NEW by \in Slides, SlideOffset(by)
        PROVE  UNCHANGED <<inStep, change, enables, enabled, labelled>>
    BY <2>4 DEF SlideOffset
  <2> QED BY <1>1, <1>3, <1>5, <2>1, <2>2, <2>3, <2>4 DEF DashboardStep, Preset
<1>6. CASE UNCHANGED desk
  BY <1>1, <1>6 DEF desk, live, dashboard, channels
<1> QED BY <1>o, <1>4, <1>5, <1>6 DEF Next, ClosePanel

(***************************************************************************)
(* What the two windows show is what the controller does.                  *)
(***************************************************************************)
THEOREM ShownIsTrue == Spec => []ShownTrue
<1>1. Init => TypeOK /\ PanelShows /\ DashboardShows
  BY InitType, ShownInit
<1>2. (TypeOK /\ PanelShows /\ DashboardShows) /\ [Next]_desk
        => (TypeOK /\ PanelShows /\ DashboardShows)'
  BY NextType, PanelShownNext, DashboardShownNext
<1>3. PanelShows /\ DashboardShows => ShownTrue
  BY DEF PanelShows, DashboardShows, ShownTrue, Quiet, Coming
<1> QED BY <1>1, <1>2, <1>3, PTL DEF Spec

=============================================================================
