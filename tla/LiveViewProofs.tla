--------------------------- MODULE LiveViewProofs ---------------------------
(***************************************************************************)
(* Theorems about LiveView, for any number of viewers, any deadline, any    *)
(* length of the wire and any number of faults.                              *)
(***************************************************************************)
EXTENDS LiveView, FiniteSetTheorems, TLAPS

\* Which requests are outstanding at which step of the loop.
AskingReq == {"sent", "yes", "no"}
UploadReq == Served \cup {"refused", "stored"}

ReqFits ==
  /\ pc = "asking" => req \in AskingReq
  /\ pc = "uploading" => req \in UploadReq
  /\ pc \notin {"asking", "uploading"} => req = "none"

\* What the frames still owed to earlier signals cost now.  An upload that is not
\* accepted yet will be refused, and the refusal clears the authorization; one that is
\* accepted leaves it as it is.
Cost ==
  wire + (IF req = "yes" THEN 1 ELSE 0)
       + (IF Taking THEN 1
          ELSE IF pc = "uploading" /\ req \in {"sent", "authorized", "refused"} THEN 0
          ELSE IF left > 0 THEN 1 ELSE 0)

CreditCovers == watching = {} => credit >= Cost

\* The checks the loop has passed bound what it takes once the device is not open.
StrayBounded ==
  /\ stray <= 1
  /\ device = "open" => stray = 0
  /\ pc = "shoot" => stray = 0
  /\ pc \in {"look", "blind"} /\ device # "private" => stray = 0
  /\ pc \in {"asking", "check", "gate"} /\ device = "signedOut" => stray = 0

\* Channels and what is owed belong to subscribers, PutFrame has business with a channel only
\* while it holds the mutex, and it sends again only after it has emptied one.
HandFits ==
  /\ \A v \in Viewer : chan[v] # "none" => v \in watching
  /\ \A v \in Viewer : hand[v] # "done" => Busy /\ v \in watching
  /\ \A v \in Viewer : hand[v] = "resend" => chan[v] = "none"
  /\ owed \subseteq watching

Delivered == HandFits /\ NewestNext

\* The ranges, in two halves the provers take one at a time.
HubTypes ==
  /\ watching \subseteq Viewer
  /\ chan \in [Viewer -> {"none", "newest", "stale"}]
  /\ held \in BOOLEAN /\ hand \in [Viewer -> {"done", "send", "drain", "resend"}]
  /\ late \in Served \cup {"none"} /\ owed \subseteq Viewer
  /\ allowed \in BOOLEAN /\ device \in Device

LoopTypes ==
  /\ stream \in {"up", "broken", "down"} /\ wire \in 0..WireCap /\ left \in 0..TTL
  /\ pc \in {"top", "asking", "check", "gate", "look", "shoot", "blind", "uploading"}
  /\ req \in Request /\ pollDue \in BOOLEAN
  /\ credit \in Int /\ stray \in Nat /\ faults \in 0..MaxFaults

LiveInv == LiveTypeOK /\ ReqFits /\ CreditCovers /\ StrayBounded /\ Delivered

-----------------------------------------------------------------------------
\* The wire never holds more than its bound, and is left alone when nobody watches.
LEMMA PublishedFacts ==
  ASSUME LiveTypeOK
  PROVE  /\ Published(1) \in 0..WireCap
         /\ Published(Cardinality(watching)) \in 0..WireCap
         /\ watching = {} => Published(Cardinality(watching)) = wire
<1>1. IsFiniteSet(watching)
  BY LiveViewAssumption, FS_Subset DEF LiveTypeOK
<1>2. Cardinality(watching) \in Nat
  BY <1>1, FS_CardinalityType
<1>3. watching = {} => Cardinality(watching) = 0
  BY FS_EmptySet
<1>4. \A n \in Nat : Published(n) \in 0..WireCap
  BY LiveViewAssumption DEF LiveTypeOK, Published
<1>5. Published(0) = wire
  BY LiveViewAssumption DEF LiveTypeOK, Published
<1> QED  BY <1>2, <1>3, <1>4, <1>5

LEMMA InitInv == LiveInit => LiveInv
<1> SUFFICES ASSUME LiveInit PROVE LiveInv
  OBVIOUS
<1>1. 0 \in 0..WireCap /\ 0 \in 0..TTL /\ 0 \in 0..MaxFaults
  BY LiveViewAssumption
<1>2. HubTypes
  BY DEF LiveInit, HubTypes, Device, Served
<1>5. LoopTypes
  BY <1>1 DEF LiveInit, LoopTypes, Request, Served
<1>4. LiveTypeOK
  BY <1>2, <1>5 DEF LiveTypeOK, HubTypes, LoopTypes
<1>3. ReqFits /\ CreditCovers /\ StrayBounded
  BY DEF LiveInit, ReqFits, CreditCovers, Cost, Taking, StrayBounded
<1>6. Delivered
  BY DEF LiveInit, Delivered, HandFits, NewestNext
<1> QED  BY <1>3, <1>4, <1>6 DEF LiveInv

\* Every step keeps every variable in its range.
LEMMA TypeStep == LiveInv /\ [LiveNext]_liveVars => LiveTypeOK' /\ ReqFits'
<1> SUFFICES ASSUME LiveInv, [LiveNext]_liveVars PROVE LiveTypeOK' /\ ReqFits'
  OBVIOUS
<1> USE LiveViewAssumption DEF LiveInv, LiveTypeOK, ReqFits, Device, Request, Served, AskingReq, UploadReq,
        hubVars, linkVars, loopVars, historyVars
<1>1. ASSUME NEW v \in Viewer, Watch(v) PROVE LiveTypeOK' /\ ReqFits'
  BY <1>1, PublishedFacts DEF Watch
<1>2. ASSUME NEW v \in Viewer, Leave(v) PROVE LiveTypeOK' /\ ReqFits'
  <2>1. HubTypes'
    BY <1>2 DEF Leave, Remaining, HubTypes
  <2>2. LoopTypes'
    BY <1>2 DEF Leave, Remaining, Unpaid, Taking, LoopTypes
  <2>3. ReqFits'
    BY <1>2 DEF Leave, Remaining
  <2> QED  BY <2>1, <2>2, <2>3 DEF HubTypes, LoopTypes
<1>3. ASSUME NEW v \in Viewer, ViewerReads(v) PROVE LiveTypeOK' /\ ReqFits'
  <2>1. HubTypes'
    BY <1>3 DEF ViewerReads, HubTypes
  <2>2. LoopTypes'
    BY <1>3 DEF ViewerReads, LoopTypes
  <2>3. ReqFits'
    BY <1>3 DEF ViewerReads
  <2> QED  BY <2>1, <2>2, <2>3 DEF HubTypes, LoopTypes
<1>4. CASE FrameExpires
  <2>1. HubTypes'
    BY <1>4 DEF FrameExpires, HubTypes
  <2>2. LoopTypes'
    BY <1>4 DEF FrameExpires, LoopTypes
  <2>3. ReqFits'
    BY <1>4 DEF FrameExpires
  <2> QED  BY <2>1, <2>2, <2>3 DEF HubTypes, LoopTypes
<1>5. CASE Evicted
  <2>1. HubTypes'
    BY <1>5 DEF Evicted, Remaining, Fault, HubTypes
  <2>2. LoopTypes'
    BY <1>5 DEF Evicted, Remaining, Fault, Unpaid, Taking, LoopTypes
  <2>3. ReqFits'
    BY <1>5 DEF Evicted, Remaining, Fault
  <2> QED  BY <2>1, <2>2, <2>3 DEF HubTypes, LoopTypes
<1>6. CASE BackendRestarts
  <2>1. HubTypes'
    BY <1>6 DEF BackendRestarts, Fault, HubTypes
  <2>2. LoopTypes'
    BY <1>6 DEF BackendRestarts, Fault, Unpaid, Taking, LoopTypes
  <2>3. ReqFits'
    BY <1>6 DEF BackendRestarts, Fault
  <2> QED  BY <2>1, <2>2, <2>3 DEF HubTypes, LoopTypes
<1>7. ASSUME NEW value \in BOOLEAN, SetAllowed(value) PROVE LiveTypeOK' /\ ReqFits'
  BY <1>7 DEF SetAllowed
<1>8. ASSUME NEW value \in Device, SetDevice(value) PROVE LiveTypeOK' /\ ReqFits'
  BY <1>8 DEF SetDevice
<1>9. CASE Connect
  BY <1>9 DEF Connect
<1>10. CASE AttemptFails
  <2>1. HubTypes'
    BY <1>10 DEF AttemptFails, Clear, HubTypes
  <2>2. LoopTypes'
    BY <1>10 DEF AttemptFails, Clear, LoopTypes
  <2>3. ReqFits'
    BY <1>10 DEF AttemptFails, Clear
  <2> QED  BY <2>1, <2>2, <2>3 DEF HubTypes, LoopTypes
<1>11. CASE Apply
  BY <1>11 DEF Apply, Renew
<1>12. CASE StreamBreaks
  BY <1>12 DEF StreamBreaks, Fault
<1>13. CASE StreamEnds
  BY <1>13 DEF StreamEnds, Clear
<1>14. CASE SignedOut
  BY <1>14 DEF SignedOut, Clear
<1>15. CASE AskStatus
  BY <1>15 DEF AskStatus
<1>16. CASE StatusAnswered
  <2>1. HubTypes'
    BY <1>16 DEF StatusAnswered, Renew, Clear, HubTypes
  <2>2. LoopTypes'
    <3>1. /\ stream' \in {"up", "broken", "down"} /\ wire' \in 0..WireCap /\ left' \in 0..TTL
          /\ credit' \in Int /\ stray' \in Nat /\ faults' \in 0..MaxFaults
      BY <1>16 DEF StatusAnswered, Renew, Clear
    <3>2. pc' = "check" /\ req' = "none" /\ pollDue' = FALSE
      BY <1>16 DEF StatusAnswered, Renew, Clear
    <3> QED  BY <3>1, <3>2 DEF LoopTypes
  <2>3. ReqFits'
    BY <1>16 DEF StatusAnswered, Renew, Clear
  <2> QED  BY <2>1, <2>2, <2>3 DEF HubTypes, LoopTypes
<1>17. CASE CheckActive
  BY <1>17 DEF CheckActive, Active
<1>18. CASE Gate
  BY <1>18 DEF Gate
<1>19. CASE Look
  BY <1>19 DEF Look
<1>20. CASE Shoot
  BY <1>20 DEF Shoot
<1>21. CASE UploadStored
  BY <1>21 DEF UploadStored
<1>22. CASE UploadRefused
  BY <1>22 DEF UploadRefused, Clear
<1>23. CASE StatusServed
  BY <1>23 DEF StatusServed
<1>24. CASE UploadAuthorized
  <2>1. HubTypes'
    BY <1>24 DEF UploadAuthorized, Handle, HubTypes
  <2>2. LoopTypes'
    BY <1>24 DEF UploadAuthorized, Handle, LoopTypes
  <2>3. ReqFits'
    BY <1>24 DEF UploadAuthorized, Handle
  <2> QED  BY <2>1, <2>2, <2>3 DEF HubTypes, LoopTypes
<1>25. CASE UploadChecked
  <2>1. HubTypes'
    BY <1>25 DEF UploadChecked, Handle, HubTypes
  <2>2. LoopTypes'
    BY <1>25 DEF UploadChecked, Handle, LoopTypes
  <2>3. ReqFits'
    BY <1>25 DEF UploadChecked, Handle
  <2> QED  BY <2>1, <2>2, <2>3 DEF HubTypes, LoopTypes
<1>26. CASE PutFrame
  <2>1. HubTypes'
    BY <1>26 DEF PutFrame, Handle, HubTypes
  <2>2. LoopTypes'
    BY <1>26 DEF PutFrame, Handle, LoopTypes
  <2>3. ReqFits'
    BY <1>26 DEF PutFrame, Handle
  <2> QED  BY <2>1, <2>2, <2>3 DEF HubTypes, LoopTypes
<1>27. ASSUME NEW v \in Viewer, TrySend(v) PROVE LiveTypeOK' /\ ReqFits'
  BY <1>27 DEF TrySend
<1>28. ASSUME NEW v \in Viewer, Drain(v) PROVE LiveTypeOK' /\ ReqFits'
  BY <1>28 DEF Drain
<1>29. ASSUME NEW v \in Viewer, Resend(v) PROVE LiveTypeOK' /\ ReqFits'
  BY <1>29 DEF Resend
<1>30. CASE FramePut
  <2>1. HubTypes'
    BY <1>30 DEF FramePut, Handle, HubTypes
  <2>2. LoopTypes'
    BY <1>30 DEF FramePut, Handle, LoopTypes
  <2>3. ReqFits'
    BY <1>30 DEF FramePut, Handle
  <2> QED  BY <2>1, <2>2, <2>3 DEF HubTypes, LoopTypes
<1>31. CASE StatusFails
  <2>1. HubTypes'
    BY <1>31 DEF StatusFails, Fault, HubTypes
  <2>2. LoopTypes'
    <3>1. /\ stream' \in {"up", "broken", "down"} /\ wire' \in 0..WireCap /\ left' \in 0..TTL
          /\ credit' \in Int /\ stray' \in Nat /\ faults' \in 0..MaxFaults
      BY <1>31 DEF StatusFails, Fault
    <3>2. pc' = "check" /\ req' = "none" /\ pollDue' = FALSE
      BY <1>31 DEF StatusFails, Fault
    <3> QED  BY <3>1, <3>2 DEF LoopTypes
  <2>3. ReqFits'
    BY <1>31 DEF StatusFails, Fault
  <2> QED  BY <2>1, <2>2, <2>3 DEF HubTypes, LoopTypes
<1>32. CASE UploadFails
  <2>1. HubTypes'
    BY <1>32 DEF UploadFails, Fault, HubTypes
  <2>2. LoopTypes'
    BY <1>32 DEF UploadFails, Fault, LoopTypes
  <2>3. ReqFits'
    BY <1>32 DEF UploadFails, Fault
  <2> QED  BY <2>1, <2>2, <2>3 DEF HubTypes, LoopTypes
<1>33. CASE CaptureFails
  BY <1>33 DEF CaptureFails, Fault
<1>34. CASE Tick
  BY <1>34, PublishedFacts DEF Tick
<1>35. CASE UNCHANGED liveVars
  BY <1>35 DEF liveVars
<1> QED
  BY <1>1, <1>2, <1>3, <1>4, <1>5, <1>6, <1>7, <1>8, <1>9, <1>10, <1>11,
     <1>12, <1>13, <1>14, <1>15, <1>16, <1>17, <1>18, <1>19, <1>20, <1>21, <1>22,
     <1>23, <1>24, <1>25, <1>26, <1>27, <1>28, <1>29, <1>30, <1>31, <1>32, <1>33,
     <1>34, <1>35 DEF LiveNext, Loop, Serving, Putting

\* No step of the agent's costs more than what is owed to signals already sent.
LEMMA CreditStep == LiveInv /\ [LiveNext]_liveVars => CreditCovers'
<1> SUFFICES ASSUME LiveInv, [LiveNext]_liveVars PROVE CreditCovers'
  OBVIOUS
<1> USE LiveViewAssumption DEF LiveInv, LiveTypeOK, ReqFits, CreditCovers, Cost, Unpaid, Taking, Request, Served,
        AskingReq, UploadReq, hubVars, linkVars, loopVars, historyVars
<1>1. ASSUME NEW v \in Viewer, Watch(v) PROVE CreditCovers'
  BY <1>1 DEF Watch
<1>2. ASSUME NEW v \in Viewer, Leave(v) PROVE CreditCovers'
  BY <1>2 DEF Leave, Remaining
<1>3. ASSUME NEW v \in Viewer, ViewerReads(v) PROVE CreditCovers'
  BY <1>3 DEF ViewerReads
<1>4. CASE FrameExpires
  BY <1>4 DEF FrameExpires
<1>5. CASE Evicted
  BY <1>5 DEF Evicted, Remaining, Fault
<1>6. CASE BackendRestarts
  BY <1>6 DEF BackendRestarts, Fault
<1>7. ASSUME NEW value \in BOOLEAN, SetAllowed(value) PROVE CreditCovers'
  BY <1>7 DEF SetAllowed
<1>8. ASSUME NEW value \in Device, SetDevice(value) PROVE CreditCovers'
  BY <1>8 DEF SetDevice
<1>9. CASE Connect
  BY <1>9 DEF Connect
<1>10. CASE AttemptFails
  BY <1>10 DEF AttemptFails, Clear
<1>11. CASE Apply
  BY <1>11 DEF Apply, Renew
<1>12. CASE StreamBreaks
  BY <1>12 DEF StreamBreaks, Fault
<1>13. CASE StreamEnds
  BY <1>13 DEF StreamEnds, Clear
<1>14. CASE SignedOut
  BY <1>14 DEF SignedOut, Clear
<1>15. CASE AskStatus
  BY <1>15 DEF AskStatus
<1>16. CASE StatusAnswered
  BY <1>16 DEF StatusAnswered, Renew, Clear
<1>17. CASE CheckActive
  BY <1>17 DEF CheckActive, Active
<1>18. CASE Gate
  BY <1>18 DEF Gate
<1>19. CASE Look
  BY <1>19 DEF Look
<1>20. CASE Shoot
  BY <1>20 DEF Shoot
<1>21. CASE UploadStored
  BY <1>21 DEF UploadStored
<1>22. CASE UploadRefused
  BY <1>22 DEF UploadRefused, Clear
<1>23. CASE StatusServed
  BY <1>23 DEF StatusServed
<1>24. CASE UploadAuthorized
  BY <1>24 DEF UploadAuthorized, Handle
<1>25. CASE UploadChecked
  BY <1>25 DEF UploadChecked, Handle
<1>26. CASE PutFrame
  BY <1>26 DEF PutFrame, Handle
<1>27. ASSUME NEW v \in Viewer, TrySend(v) PROVE CreditCovers'
  BY <1>27 DEF TrySend
<1>28. ASSUME NEW v \in Viewer, Drain(v) PROVE CreditCovers'
  BY <1>28 DEF Drain
<1>29. ASSUME NEW v \in Viewer, Resend(v) PROVE CreditCovers'
  BY <1>29 DEF Resend
<1>30. CASE FramePut
  BY <1>30 DEF FramePut, Handle
<1>31. CASE StatusFails
  BY <1>31 DEF StatusFails, Fault
<1>32. CASE UploadFails
  BY <1>32 DEF UploadFails, Fault
<1>33. CASE CaptureFails
  BY <1>33 DEF CaptureFails, Fault
<1>34. CASE Tick
  BY <1>34, PublishedFacts DEF Tick
<1>35. CASE UNCHANGED liveVars
  BY <1>35 DEF liveVars
<1> QED
  BY <1>1, <1>2, <1>3, <1>4, <1>5, <1>6, <1>7, <1>8, <1>9, <1>10, <1>11,
     <1>12, <1>13, <1>14, <1>15, <1>16, <1>17, <1>18, <1>19, <1>20, <1>21, <1>22,
     <1>23, <1>24, <1>25, <1>26, <1>27, <1>28, <1>29, <1>30, <1>31, <1>32, <1>33,
     <1>34, <1>35 DEF LiveNext, Loop, Serving, Putting

\* No step takes a second frame once the device is not open.
LEMMA StrayStep == LiveInv /\ [LiveNext]_liveVars => StrayBounded'
<1> SUFFICES ASSUME LiveInv, [LiveNext]_liveVars PROVE StrayBounded'
  OBVIOUS
<1> USE LiveViewAssumption DEF LiveInv, LiveTypeOK, ReqFits, StrayBounded, Device, Served,
        AskingReq, UploadReq, hubVars, linkVars, loopVars, historyVars
<1>1. ASSUME NEW v \in Viewer, Watch(v) PROVE StrayBounded'
  BY <1>1 DEF Watch
<1>2. ASSUME NEW v \in Viewer, Leave(v) PROVE StrayBounded'
  BY <1>2 DEF Leave, Remaining
<1>3. ASSUME NEW v \in Viewer, ViewerReads(v) PROVE StrayBounded'
  BY <1>3 DEF ViewerReads
<1>4. CASE FrameExpires
  BY <1>4 DEF FrameExpires
<1>5. CASE Evicted
  BY <1>5 DEF Evicted, Remaining, Fault
<1>6. CASE BackendRestarts
  BY <1>6 DEF BackendRestarts, Fault
<1>7. ASSUME NEW value \in BOOLEAN, SetAllowed(value) PROVE StrayBounded'
  BY <1>7 DEF SetAllowed
<1>8. ASSUME NEW value \in Device, SetDevice(value) PROVE StrayBounded'
  BY <1>8 DEF SetDevice
<1>9. CASE Connect
  BY <1>9 DEF Connect
<1>10. CASE AttemptFails
  BY <1>10 DEF AttemptFails, Clear
<1>11. CASE Apply
  BY <1>11 DEF Apply, Renew
<1>12. CASE StreamBreaks
  BY <1>12 DEF StreamBreaks, Fault
<1>13. CASE StreamEnds
  BY <1>13 DEF StreamEnds, Clear
<1>14. CASE SignedOut
  BY <1>14 DEF SignedOut, Clear
<1>15. CASE AskStatus
  BY <1>15 DEF AskStatus
<1>16. CASE StatusAnswered
  BY <1>16 DEF StatusAnswered, Renew, Clear
<1>17. CASE CheckActive
  BY <1>17 DEF CheckActive, Active
<1>18. CASE Gate
  BY <1>18 DEF Gate
<1>19. CASE Look
  BY <1>19 DEF Look
<1>20. CASE Shoot
  BY <1>20 DEF Shoot
<1>21. CASE UploadStored
  BY <1>21 DEF UploadStored
<1>22. CASE UploadRefused
  BY <1>22 DEF UploadRefused, Clear
<1>23. CASE StatusServed
  BY <1>23 DEF StatusServed
<1>24. CASE UploadAuthorized
  BY <1>24 DEF UploadAuthorized, Handle
<1>25. CASE UploadChecked
  BY <1>25 DEF UploadChecked, Handle
<1>26. CASE PutFrame
  BY <1>26 DEF PutFrame, Handle
<1>27. ASSUME NEW v \in Viewer, TrySend(v) PROVE StrayBounded'
  BY <1>27 DEF TrySend
<1>28. ASSUME NEW v \in Viewer, Drain(v) PROVE StrayBounded'
  BY <1>28 DEF Drain
<1>29. ASSUME NEW v \in Viewer, Resend(v) PROVE StrayBounded'
  BY <1>29 DEF Resend
<1>30. CASE FramePut
  BY <1>30 DEF FramePut, Handle
<1>31. CASE StatusFails
  BY <1>31 DEF StatusFails, Fault
<1>32. CASE UploadFails
  BY <1>32 DEF UploadFails, Fault
<1>33. CASE CaptureFails
  BY <1>33 DEF CaptureFails, Fault
<1>34. CASE Tick
  BY <1>34 DEF Tick
<1>35. CASE UNCHANGED liveVars
  BY <1>35 DEF liveVars
<1> QED
  BY <1>1, <1>2, <1>3, <1>4, <1>5, <1>6, <1>7, <1>8, <1>9, <1>10, <1>11,
     <1>12, <1>13, <1>14, <1>15, <1>16, <1>17, <1>18, <1>19, <1>20, <1>21, <1>22,
     <1>23, <1>24, <1>25, <1>26, <1>27, <1>28, <1>29, <1>30, <1>31, <1>32, <1>33,
     <1>34, <1>35 DEF LiveNext, Loop, Serving, Putting

\* No operation on a channel, whatever its viewer reads between two of them, leaves an older
\* frame there or withholds the newest.
LEMMA DeliveredStep == LiveInv /\ [LiveNext]_liveVars => Delivered'
<1> SUFFICES ASSUME LiveInv, [LiveNext]_liveVars PROVE Delivered'
  OBVIOUS
<1> USE DEF LiveInv, LiveTypeOK, ReqFits, Delivered, HandFits, NewestNext, Busy,
        Served, AskingReq, UploadReq, hubVars, linkVars, loopVars, historyVars
<1>1. ASSUME NEW v \in Viewer, Watch(v) PROVE Delivered'
  BY <1>1 DEF Watch
<1>2. ASSUME NEW v \in Viewer, Leave(v) PROVE Delivered'
  BY <1>2 DEF Leave, Remaining
<1>3. ASSUME NEW v \in Viewer, ViewerReads(v) PROVE Delivered'
  BY <1>3 DEF ViewerReads
<1>4. CASE FrameExpires
  BY <1>4 DEF FrameExpires
<1>5. CASE Evicted
  BY <1>5 DEF Evicted, Remaining, Fault
<1>6. CASE BackendRestarts
  BY <1>6 DEF BackendRestarts, Fault
<1>7. ASSUME NEW value \in BOOLEAN, SetAllowed(value) PROVE Delivered'
  BY <1>7 DEF SetAllowed
<1>8. ASSUME NEW value \in Device, SetDevice(value) PROVE Delivered'
  BY <1>8 DEF SetDevice
<1>9. CASE Connect
  BY <1>9 DEF Connect
<1>10. CASE AttemptFails
  BY <1>10 DEF AttemptFails, Clear
<1>11. CASE Apply
  BY <1>11 DEF Apply, Renew
<1>12. CASE StreamBreaks
  BY <1>12 DEF StreamBreaks, Fault
<1>13. CASE StreamEnds
  BY <1>13 DEF StreamEnds, Clear
<1>14. CASE SignedOut
  BY <1>14 DEF SignedOut, Clear
<1>15. CASE AskStatus
  BY <1>15 DEF AskStatus
<1>16. CASE StatusAnswered
  BY <1>16 DEF StatusAnswered, Renew, Clear
<1>17. CASE CheckActive
  BY <1>17 DEF CheckActive, Active
<1>18. CASE Gate
  BY <1>18 DEF Gate
<1>19. CASE Look
  BY <1>19 DEF Look
<1>20. CASE Shoot
  BY <1>20 DEF Shoot
<1>21. CASE UploadStored
  BY <1>21 DEF UploadStored
<1>22. CASE UploadRefused
  BY <1>22 DEF UploadRefused, Clear
<1>23. CASE StatusServed
  BY <1>23 DEF StatusServed
<1>24. CASE UploadAuthorized
  BY <1>24 DEF UploadAuthorized, Handle
<1>25. CASE UploadChecked
  BY <1>25 DEF UploadChecked, Handle
<1>26. CASE PutFrame
  BY <1>26 DEF PutFrame, Handle
<1>27. ASSUME NEW v \in Viewer, TrySend(v) PROVE Delivered'
  BY <1>27 DEF TrySend
<1>28. ASSUME NEW v \in Viewer, Drain(v) PROVE Delivered'
  BY <1>28 DEF Drain
<1>29. ASSUME NEW v \in Viewer, Resend(v) PROVE Delivered'
  BY <1>29 DEF Resend
<1>30. CASE FramePut
  BY <1>30 DEF FramePut, Handle
<1>31. CASE StatusFails
  BY <1>31 DEF StatusFails, Fault
<1>32. CASE UploadFails
  BY <1>32 DEF UploadFails, Fault
<1>33. CASE CaptureFails
  BY <1>33 DEF CaptureFails, Fault
<1>34. CASE Tick
  BY <1>34 DEF Tick
<1>35. CASE UNCHANGED liveVars
  BY <1>35 DEF liveVars
<1> QED
  BY <1>1, <1>2, <1>3, <1>4, <1>5, <1>6, <1>7, <1>8, <1>9, <1>10, <1>11,
     <1>12, <1>13, <1>14, <1>15, <1>16, <1>17, <1>18, <1>19, <1>20, <1>21, <1>22,
     <1>23, <1>24, <1>25, <1>26, <1>27, <1>28, <1>29, <1>30, <1>31, <1>32, <1>33,
     <1>34, <1>35 DEF LiveNext, Loop, Serving, Putting

-----------------------------------------------------------------------------
LEMMA InvStep == LiveInv /\ [LiveNext]_liveVars => LiveInv'
BY TypeStep, CreditStep, StrayStep, DeliveredStep DEF LiveInv

THEOREM Invariance == LiveSpec => []LiveInv
BY InitInv, InvStep, PTL DEF LiveSpec

\* Every variable keeps to its range (LiveTypeOK).
THEOREM Typed == LiveSpec => []LiveTypeOK
<1>1. LiveInv => LiveTypeOK
  BY DEF LiveInv
<1> QED  BY <1>1, Invariance, PTL

\* PutFrame's operations on a channel, raced by its reader, leave the newest frame there until
\* it has been read, and never an older one (NewestNext).
THEOREM NewestFirst == LiveSpec => []NewestNext
<1>1. LiveInv => NewestNext
  BY DEF LiveInv, Delivered
<1> QED  BY <1>1, Invariance, PTL

\* Capture outlives its viewers only by what signals already sent, or uploads whose
\* answer was lost, still pay for (StrayFramesPaid).
THEOREM PaidFor == LiveSpec => []StrayFramesPaid
<1>1. LiveInv => StrayFramesPaid
  BY DEF LiveInv, LiveTypeOK, CreditCovers, Cost, StrayFramesPaid
<1> QED  BY <1>1, Invariance, PTL

\* One frame at most is taken after the device stops being open (OneFrameAfterClosing).
THEOREM ClosingHolds == LiveSpec => []OneFrameAfterClosing
<1>1. LiveInv => OneFrameAfterClosing
  BY DEF LiveInv, StrayBounded, OneFrameAfterClosing
<1> QED  BY <1>1, Invariance, PTL

=============================================================================
