-------------------------- MODULE TelegramPartsProofs --------------------------
(***************************************************************************)
(* Theorems about TelegramParts, for any sizes and bounds: it is correctly *)
(* typed, what was hidden as a whole stays hidden, no copy in use lacks a  *)
(* part unless an upload was cut off or a hiding failed, none has a part   *)
(* twice unless the file was sent again, and undisturbed syncs mirror it.  *)
(*                                                                         *)
(* One lemma per action says that it keeps the types and the invariant     *)
(* PartsInv, further ones that it keeps FullInv, OnceInv and MirrorInv.    *)
(***************************************************************************)
EXTENDS TelegramParts, FiniteSetTheorems, TLAPS

USE PartsAssumption

LEMMA Begins == Init => TypeOK /\ PartsInv
  <1> SUFFICES ASSUME Init PROVE TypeOK /\ PartsInv OBVIOUS
  <1>1. ChannelOK BY DEF Init, ChannelOK, Messages
  <1>2. RowsOK BY DEF Init, RowsOK, Row, NoRow
  <1>3. StepOK BY DEF Init, StepOK
  <1>4. UserOK BY DEF Init, UserOK
  <1>5. FaultsOK BY DEF Init, FaultsOK
  <1>6. Known /\ Gone BY DEF Init, Known, NoRow, Gone, HiddenStays
  <1>7. Listed /\ Swept /\ Sent /\ Hiding BY DEF Init, Listed, Swept, Sent, Hiding
  <1> QED BY <1>1, <1>2, <1>3, <1>4, <1>5, <1>6, <1>7 DEF TypeOK, PartsInv

LEMMA ListKeeps ==
    ASSUME TypeOK, PartsInv, List
    PROVE  TypeOK' /\ PartsInv'
  <1>1. ChannelOK' BY DEF TypeOK, ChannelOK, Messages, List, Upserted,
    Fragments, NativeID, Oldest, Newest, First, channel, upload, purge, history
  <1>2. RowsOK'
    <2>1. CASE UNCHANGED row BY <2>1 DEF TypeOK, RowsOK
    <2>2. CASE \E k \in NativeID(visible) : row' = [row EXCEPT ![k] = Upserted(k, visible)]
      <3>1. PICK k \in NativeID(visible) : row' = [row EXCEPT ![k] = Upserted(k, visible)]
        BY <2>2
      <3>2. k \in visible /\ k \in Messages
        BY DEF NativeID, Oldest, Newest, First, TypeOK, ChannelOK, Messages
      <3>3. visible \subseteq Messages BY DEF TypeOK, ChannelOK, Messages
      <3>4. row[k] \in Row BY <3>2 DEF TypeOK, RowsOK
      <3>5. PICK u : u = Upserted(k, visible) OBVIOUS
      <3>6. u \in Row /\ u.of # "none" /\ u.status # "none"
        <4>1. u.of \in {"orphan", "file", "other"}
          BY <3>4, <3>5 DEF Upserted, Row
        <4>2. u.status \in {"active", "deleted"} BY <3>5 DEF Upserted
        <4>3. u.frags \subseteq Messages
          BY <3>3, <3>4, <3>5 DEF Upserted, Row, Fragments
        <4> QED BY <3>5, <4>1, <4>2, <4>3 DEF Upserted, Row
      <3>7. row' = [row EXCEPT ![k] = u] BY <3>1, <3>5
      <3> QED BY <3>2, <3>6, <3>7 DEF TypeOK, RowsOK
    <2> QED BY <2>1, <2>2 DEF List
  <1>3. StepOK' BY DEF TypeOK, ChannelOK, StepOK, Messages, List, Upserted,
    Fragments, NativeID, Oldest, Newest, First, channel, upload, purge, history
  <1>4. UserOK' BY DEF TypeOK, UserOK, List, Upserted, Fragments, NativeID,
    Oldest, Newest, First, channel, upload, purge, history
  <1>5. FaultsOK' BY DEF TypeOK, FaultsOK, List, Upserted, Fragments, NativeID,
    Oldest, Newest, First, channel, upload, purge, history
  <1>6. Known'
    <2>1. UNCHANGED <<sent, purged, visible, size>> BY DEF List, channel
    <2>2. visible \subseteq 1..sent BY DEF TypeOK, ChannelOK
    <2>3. CASE UNCHANGED row BY <2>1, <2>3 DEF PartsInv, Known
    <2>4. CASE \E k \in NativeID(visible) : row' = [row EXCEPT ![k] = Upserted(k, visible)]
      <3>1. PICK k \in NativeID(visible) : row' = [row EXCEPT ![k] = Upserted(k, visible)]
        BY <2>4
      <3>2. k \in Messages
        BY DEF NativeID, Oldest, Newest, First, TypeOK, ChannelOK, Messages
      <3>3. Upserted(k, visible).frags \subseteq 1..sent
        BY <2>2, <3>2 DEF Upserted, Fragments, PartsInv, Known
      <3>4. row \in [Messages -> Row] BY DEF TypeOK, RowsOK
      <3>5. PICK u : u = Upserted(k, visible) OBVIOUS
      <3>6. row' = [row EXCEPT ![k] = u] BY <3>1, <3>5
      <3>7. \A x \in Messages : row'[x].frags \subseteq 1..sent
        BY <3>2, <3>3, <3>4, <3>5, <3>6 DEF PartsInv, Known
      <3>8. k \in 1..sent BY <2>2, <3>1 DEF NativeID, Oldest, Newest, First
      <3>9. \A x \in Messages : x \in 1..sent \/ row'[x].of = "none"
        BY <3>2, <3>4, <3>6, <3>8 DEF PartsInv, Known
      <3> QED BY <2>1, <3>7, <3>9 DEF PartsInv, Known
    <2> QED BY <2>1, <2>3, <2>4 DEF List
  <1>7. Listed' BY DEF TypeOK, PartsInv, ChannelOK, RowsOK, StepOK, Listed,
    Fragmented, Messages, List, Upserted, Fragments, NativeID, Oldest, Newest,
    First, channel, upload, purge, history
  <1>8. Swept' BY DEF TypeOK, PartsInv, ChannelOK, RowsOK, StepOK, Listed,
    Swept, Active, Messages, List, Upserted, Fragments, NativeID, Oldest,
    Newest, First, channel, upload, purge, history
  <1>9. Sent' BY DEF TypeOK, PartsInv, Sent, ChannelOK, StepOK, List, Upserted,
    Fragments, NativeID, Oldest, Newest, First, channel, upload, purge, history
  <1>10. Hiding' BY DEF TypeOK, PartsInv, ChannelOK, RowsOK, StepOK, Listed,
    Swept, Hiding, Content, Fragmented, Messages, List, Upserted, Fragments,
    NativeID, Oldest, Newest, First, channel, upload, purge, history
  <1>11. Gone' BY DEF TypeOK, PartsInv, ChannelOK, RowsOK, StepOK, Known, Sent,
    Hiding, Gone, HiddenStays, Content, Fragmented, Messages, List, Upserted,
    Fragments, NativeID, Oldest, Newest, First, channel, upload, purge, history
  <1> QED BY <1>1, <1>2, <1>3, <1>4, <1>5, <1>6, <1>7, <1>8, <1>9, <1>10, <1>11 DEF TypeOK, PartsInv

LEMMA ListFailsKeeps ==
    ASSUME TypeOK, PartsInv, ListFails
    PROVE  TypeOK' /\ PartsInv'
  <1>1. ChannelOK' BY DEF TypeOK, ChannelOK, Messages, ListFails, Fault,
    channel, upload, purge, history
  <1>2. RowsOK' BY DEF TypeOK, ChannelOK, RowsOK, StepOK, Messages, Row,
    ListFails, Fault, channel, upload, purge, history
  <1>3. StepOK' BY DEF TypeOK, ChannelOK, StepOK, Messages, ListFails, Fault,
    channel, upload, purge, history
  <1>4. UserOK' BY DEF TypeOK, UserOK, ListFails, Fault, channel, upload,
    purge, history
  <1>5. FaultsOK' BY DEF TypeOK, FaultsOK, ListFails, Fault, channel, upload,
    purge, history
  <1>6. Known' BY DEF TypeOK, PartsInv, ChannelOK, RowsOK, StepOK, Known, Sent,
    Messages, ListFails, Fault, channel, upload, purge, history
  <1>7. Listed' BY DEF TypeOK, PartsInv, ChannelOK, RowsOK, StepOK, Listed,
    Fragmented, Messages, ListFails, Fault, channel, upload, purge, history
  <1>8. Swept' BY DEF TypeOK, PartsInv, ChannelOK, RowsOK, StepOK, Listed,
    Swept, Active, Messages, ListFails, Fault, channel, upload, purge, history
  <1>9. Sent' BY DEF TypeOK, PartsInv, Sent, ChannelOK, StepOK, ListFails,
    Fault, channel, upload, purge, history
  <1>10. Hiding' BY DEF TypeOK, PartsInv, ChannelOK, RowsOK, StepOK, Listed,
    Swept, Hiding, Content, Fragmented, Messages, ListFails, Fault, channel,
    upload, purge, history
  <1>11. Gone' BY DEF TypeOK, PartsInv, ChannelOK, RowsOK, StepOK, Known, Sent,
    Hiding, Gone, HiddenStays, Content, Fragmented, Messages, ListFails, Fault,
    channel, upload, purge, history
  <1> QED BY <1>1, <1>2, <1>3, <1>4, <1>5, <1>6, <1>7, <1>8, <1>9, <1>10, <1>11 DEF TypeOK, PartsInv

LEMMA PromoteKeeps ==
    ASSUME TypeOK, PartsInv, Promote
    PROVE  TypeOK' /\ PartsInv'
  <1>1. ChannelOK' BY DEF TypeOK, ChannelOK, Messages, Promote, channel,
    upload, purge, history
  <1>2. RowsOK' BY DEF TypeOK, ChannelOK, RowsOK, StepOK, Messages, Row,
    Promote, channel, upload, purge, history
  <1>3. StepOK' BY DEF TypeOK, ChannelOK, StepOK, Messages, Promote, channel,
    upload, purge, history
  <1>4. UserOK' BY DEF TypeOK, UserOK, Promote, channel, upload, purge, history
  <1>5. FaultsOK' BY DEF TypeOK, FaultsOK, Promote, channel, upload, purge,
    history
  <1>6. Known' BY DEF TypeOK, PartsInv, ChannelOK, RowsOK, StepOK, Known, Sent,
    Messages, Promote, channel, upload, purge, history
  <1>7. Listed' BY DEF TypeOK, PartsInv, ChannelOK, RowsOK, StepOK, Listed,
    Fragmented, Messages, Promote, channel, upload, purge, history
  <1>8. Swept' BY DEF TypeOK, PartsInv, ChannelOK, RowsOK, StepOK, Listed,
    Swept, Active, Messages, Promote, channel, upload, purge, history
  <1>9. Sent' BY DEF TypeOK, PartsInv, Sent, ChannelOK, StepOK, Promote,
    channel, upload, purge, history
  <1>10. Hiding' BY DEF TypeOK, PartsInv, ChannelOK, RowsOK, StepOK, Listed,
    Swept, Hiding, Content, Fragmented, Messages, Promote, channel, upload,
    purge, history
  <1>11. Gone' BY DEF TypeOK, PartsInv, ChannelOK, RowsOK, StepOK, Known, Sent,
    Hiding, Gone, HiddenStays, Content, Fragmented, Messages, Promote, channel,
    upload, purge, history
  <1> QED BY <1>1, <1>2, <1>3, <1>4, <1>5, <1>6, <1>7, <1>8, <1>9, <1>10, <1>11 DEF TypeOK, PartsInv

LEMMA SweepKeeps ==
    ASSUME TypeOK, PartsInv, Sweep
    PROVE  TypeOK' /\ PartsInv'
  <1>1. ChannelOK' BY DEF TypeOK, ChannelOK, Messages, Sweep, Deleted, Active,
    channel, upload, purge, history
  <1>2. RowsOK' BY DEF TypeOK, ChannelOK, RowsOK, StepOK, Messages, Row, Sweep,
    Deleted, Active, channel, upload, purge, history
  <1>3. StepOK' BY DEF TypeOK, ChannelOK, StepOK, Messages, Sweep, Deleted,
    Active, channel, upload, purge, history
  <1>4. UserOK' BY DEF TypeOK, UserOK, Sweep, Deleted, Active, channel, upload,
    purge, history
  <1>5. FaultsOK' BY DEF TypeOK, FaultsOK, Sweep, Deleted, Active, channel,
    upload, purge, history
  <1>6. Known' BY DEF TypeOK, PartsInv, ChannelOK, RowsOK, StepOK, Known, Sent,
    Messages, Sweep, Deleted, Active, channel, upload, purge, history
  <1>7. Listed' BY DEF TypeOK, PartsInv, ChannelOK, RowsOK, StepOK, Listed,
    Fragmented, Messages, Sweep, Deleted, Active, channel, upload, purge,
    history
  <1>8. Swept' BY DEF TypeOK, PartsInv, ChannelOK, RowsOK, StepOK, Listed,
    Swept, Active, Messages, Sweep, Deleted, channel, upload, purge, history
  <1>9. Sent' BY DEF TypeOK, PartsInv, Sent, ChannelOK, StepOK, Sweep, Deleted,
    Active, channel, upload, purge, history
  <1>10. Hiding' BY DEF TypeOK, PartsInv, ChannelOK, RowsOK, StepOK, Listed,
    Swept, Hiding, Content, Fragmented, Messages, Sweep, Deleted, Active,
    channel, upload, purge, history
  <1>11. Gone' BY DEF TypeOK, PartsInv, ChannelOK, RowsOK, StepOK, Known, Sent,
    Hiding, Gone, HiddenStays, Content, Fragmented, Messages, Sweep, Deleted,
    Active, channel, upload, purge, history
  <1> QED BY <1>1, <1>2, <1>3, <1>4, <1>5, <1>6, <1>7, <1>8, <1>9, <1>10, <1>11 DEF TypeOK, PartsInv

LEMMA HideKeeps ==
    ASSUME TypeOK, PartsInv, Hide
    PROVE  TypeOK' /\ PartsInv'
  <1>1. ChannelOK' BY DEF TypeOK, ChannelOK, Messages, Hide, Active, channel,
    upload, purge, history
  <1>2. RowsOK' BY DEF TypeOK, ChannelOK, RowsOK, StepOK, Messages, Row, Hide,
    Active, channel, upload, purge, history
  <1>3. StepOK'
    <2>1. PICK k \in Active : hiding' = k /\ todo' = Content(k) BY DEF Hide
    <2>2. k \in Messages BY <2>1 DEF Active
    <2>3. Content(k) \subseteq Messages
      BY <2>2 DEF Content, PartsInv, Known, TypeOK, ChannelOK, Messages
    <2> QED BY <2>1, <2>2, <2>3 DEF Hide, TypeOK, StepOK, channel, upload, Messages
  <1>4. UserOK' BY DEF TypeOK, UserOK, Hide, Active, channel, upload, purge,
    history
  <1>5. FaultsOK' BY DEF TypeOK, FaultsOK, Hide, Active, channel, upload,
    purge, history
  <1>6. Known' BY DEF TypeOK, PartsInv, ChannelOK, RowsOK, StepOK, Known, Sent,
    Messages, Hide, Active, channel, upload, purge, history
  <1>7. Listed' BY DEF TypeOK, PartsInv, ChannelOK, RowsOK, StepOK, Listed,
    Fragmented, Messages, Hide, Active, channel, upload, purge, history
  <1>8. Swept' BY DEF TypeOK, PartsInv, ChannelOK, RowsOK, StepOK, Listed,
    Swept, Active, Messages, Hide, channel, upload, purge, history
  <1>9. Sent' BY DEF TypeOK, PartsInv, Sent, ChannelOK, StepOK, Hide, Active,
    channel, upload, purge, history
  <1>10. Hiding' BY DEF TypeOK, PartsInv, ChannelOK, RowsOK, StepOK, Listed,
    Swept, Hiding, Content, Fragmented, Messages, Hide, Active, channel,
    upload, purge, history
  <1>11. Gone' BY DEF TypeOK, PartsInv, ChannelOK, RowsOK, StepOK, Known, Sent,
    Hiding, Gone, HiddenStays, Content, Fragmented, Messages, Hide, Active,
    channel, upload, purge, history
  <1> QED BY <1>1, <1>2, <1>3, <1>4, <1>5, <1>6, <1>7, <1>8, <1>9, <1>10, <1>11 DEF TypeOK, PartsInv

LEMMA UploadKeeps ==
    ASSUME TypeOK, PartsInv, Upload
    PROVE  TypeOK' /\ PartsInv'
  <1>1. ChannelOK' BY DEF TypeOK, ChannelOK, Messages, Upload, channel, upload,
    purge, history
  <1>2. RowsOK' BY DEF TypeOK, ChannelOK, RowsOK, StepOK, Messages, Row,
    Upload, channel, upload, purge, history
  <1>3. StepOK' BY DEF TypeOK, ChannelOK, StepOK, Messages, Upload, channel,
    upload, purge, history
  <1>4. UserOK' BY DEF TypeOK, UserOK, Upload, channel, upload, purge, history
  <1>5. FaultsOK' BY DEF TypeOK, FaultsOK, Upload, channel, upload, purge,
    history
  <1>6. Known' BY DEF TypeOK, PartsInv, ChannelOK, RowsOK, StepOK, Known, Sent,
    Messages, Upload, channel, upload, purge, history
  <1>7. Listed' BY DEF TypeOK, PartsInv, ChannelOK, RowsOK, StepOK, Listed,
    Fragmented, Messages, Upload, channel, upload, purge, history
  <1>8. Swept' BY DEF TypeOK, PartsInv, ChannelOK, RowsOK, StepOK, Listed,
    Swept, Active, Messages, Upload, channel, upload, purge, history
  <1>9. Sent' BY DEF TypeOK, PartsInv, Sent, ChannelOK, StepOK, Upload,
    channel, upload, purge, history
  <1>10. Hiding' BY DEF TypeOK, PartsInv, ChannelOK, RowsOK, StepOK, Listed,
    Swept, Hiding, Content, Fragmented, Messages, Upload, channel, upload,
    purge, history
  <1>11. Gone' BY DEF TypeOK, PartsInv, ChannelOK, RowsOK, StepOK, Known, Sent,
    Hiding, Gone, HiddenStays, Content, Fragmented, Messages, Upload, channel,
    upload, purge, history
  <1> QED BY <1>1, <1>2, <1>3, <1>4, <1>5, <1>6, <1>7, <1>8, <1>9, <1>10, <1>11 DEF TypeOK, PartsInv

LEMMA LeaveKeeps ==
    ASSUME TypeOK, PartsInv, Leave
    PROVE  TypeOK' /\ PartsInv'
  <1>1. ChannelOK' BY DEF TypeOK, ChannelOK, Messages, Leave, channel, upload,
    purge, history
  <1>2. RowsOK' BY DEF TypeOK, ChannelOK, RowsOK, StepOK, Messages, Row, Leave,
    channel, upload, purge, history
  <1>3. StepOK' BY DEF TypeOK, ChannelOK, StepOK, Messages, Leave, channel,
    upload, purge, history
  <1>4. UserOK' BY DEF TypeOK, UserOK, Leave, channel, upload, purge, history
  <1>5. FaultsOK' BY DEF TypeOK, FaultsOK, Leave, channel, upload, purge,
    history
  <1>6. Known' BY DEF TypeOK, PartsInv, ChannelOK, RowsOK, StepOK, Known, Sent,
    Messages, Leave, channel, upload, purge, history
  <1>7. Listed' BY DEF TypeOK, PartsInv, ChannelOK, RowsOK, StepOK, Listed,
    Fragmented, Messages, Leave, channel, upload, purge, history
  <1>8. Swept' BY DEF TypeOK, PartsInv, ChannelOK, RowsOK, StepOK, Listed,
    Swept, Active, Messages, Leave, channel, upload, purge, history
  <1>9. Sent' BY DEF TypeOK, PartsInv, Sent, ChannelOK, StepOK, Leave, channel,
    upload, purge, history
  <1>10. Hiding' BY DEF TypeOK, PartsInv, ChannelOK, RowsOK, StepOK, Listed,
    Swept, Hiding, Content, Fragmented, Messages, Leave, channel, upload,
    purge, history
  <1>11. Gone' BY DEF TypeOK, PartsInv, ChannelOK, RowsOK, StepOK, Known, Sent,
    Hiding, Gone, HiddenStays, Content, Fragmented, Messages, Leave, channel,
    upload, purge, history
  <1> QED BY <1>1, <1>2, <1>3, <1>4, <1>5, <1>6, <1>7, <1>8, <1>9, <1>10, <1>11 DEF TypeOK, PartsInv

LEMMA SendPartKeeps ==
    ASSUME TypeOK, PartsInv, SendPart
    PROVE  TypeOK' /\ PartsInv'
  <1>1. ChannelOK'
    <2>1. sent \in Nat /\ sent < MaxMessages /\ sent' = sent + 1
      BY DEF SendPart, Posted, TypeOK, ChannelOK
    <2>2. PICK n \in Nat : n = Cardinality(done) + 1
      <3>1. done \subseteq 1..sent BY DEF TypeOK, StepOK
      <3>2. Cardinality(done) \in Nat
        <4>1. IsFiniteSet(1..sent) BY <2>1, FS_Interval
        <4>2. IsFiniteSet(done) BY <3>1, <4>1, FS_Subset
        <4> QED BY <4>2, FS_CardinalityType
      <3> QED BY <3>2
    <2>3. part' = [part EXCEPT ![sent + 1] = n] BY <2>2 DEF SendPart, Posted
    <2>4. part' \in [Messages -> Nat] BY <2>2, <2>3 DEF TypeOK, ChannelOK
    <2>5. visible' \subseteq 1..sent'
      BY <2>1 DEF SendPart, Posted, TypeOK, ChannelOK
    <2> QED BY <2>1, <2>4, <2>5 DEF SendPart, TypeOK, ChannelOK
  <1>2. RowsOK' BY DEF TypeOK, ChannelOK, RowsOK, StepOK, Messages, Row,
    SendPart, Posted, channel, upload, purge, history
  <1>3. StepOK' BY DEF TypeOK, ChannelOK, StepOK, Messages, SendPart, Posted,
    channel, upload, purge, history
  <1>4. UserOK' BY DEF TypeOK, UserOK, SendPart, Posted, channel, upload,
    purge, history
  <1>5. FaultsOK' BY DEF TypeOK, FaultsOK, SendPart, Posted, channel, upload,
    purge, history
  <1>6. Known' BY DEF TypeOK, PartsInv, ChannelOK, RowsOK, StepOK, Known, Sent,
    Messages, SendPart, Posted, channel, upload, purge, history
  <1>7. Listed' BY DEF TypeOK, PartsInv, ChannelOK, RowsOK, StepOK, Listed,
    Fragmented, Messages, SendPart, Posted, channel, upload, purge, history
  <1>8. Swept' BY DEF TypeOK, PartsInv, ChannelOK, RowsOK, StepOK, Listed,
    Swept, Active, Messages, SendPart, Posted, channel, upload, purge, history
  <1>9. Sent' BY DEF TypeOK, PartsInv, Sent, ChannelOK, StepOK, SendPart,
    Posted, channel, upload, purge, history
  <1>10. Hiding' BY DEF TypeOK, PartsInv, ChannelOK, RowsOK, StepOK, Listed,
    Swept, Hiding, Content, Fragmented, Messages, SendPart, Posted, channel,
    upload, purge, history
  <1>11. Gone' BY DEF TypeOK, PartsInv, ChannelOK, RowsOK, StepOK, Known, Sent,
    Hiding, Gone, HiddenStays, Content, Fragmented, Messages, SendPart, Posted,
    channel, upload, purge, history
  <1> QED BY <1>1, <1>2, <1>3, <1>4, <1>5, <1>6, <1>7, <1>8, <1>9, <1>10, <1>11 DEF TypeOK, PartsInv

LEMMA PartHalfDoneKeeps ==
    ASSUME TypeOK, PartsInv, PartHalfDone
    PROVE  TypeOK' /\ PartsInv'
  <1>1. ChannelOK'
    <2>1. sent \in Nat /\ sent < MaxMessages /\ sent' = sent + 1
      BY DEF PartHalfDone, Posted, TypeOK, ChannelOK
    <2>2. PICK n \in Nat : n = Cardinality(done) + 1
      <3>1. done \subseteq 1..sent BY DEF TypeOK, StepOK
      <3>2. Cardinality(done) \in Nat
        <4>1. IsFiniteSet(1..sent) BY <2>1, FS_Interval
        <4>2. IsFiniteSet(done) BY <3>1, <4>1, FS_Subset
        <4> QED BY <4>2, FS_CardinalityType
      <3> QED BY <3>2
    <2>3. part' = [part EXCEPT ![sent + 1] = n] BY <2>2 DEF PartHalfDone, Posted
    <2>4. part' \in [Messages -> Nat] BY <2>2, <2>3 DEF TypeOK, ChannelOK
    <2>5. visible' \subseteq 1..sent'
      BY <2>1 DEF PartHalfDone, Posted, TypeOK, ChannelOK
    <2> QED BY <2>1, <2>4, <2>5 DEF PartHalfDone, TypeOK, ChannelOK
  <1>2. RowsOK' BY DEF TypeOK, ChannelOK, RowsOK, StepOK, Messages, Row,
    PartHalfDone, Posted, Fault, channel, upload, purge, history
  <1>3. StepOK' BY DEF TypeOK, ChannelOK, StepOK, Messages, PartHalfDone,
    Posted, Fault, channel, upload, purge, history
  <1>4. UserOK' BY DEF TypeOK, UserOK, PartHalfDone, Posted, Fault, channel,
    upload, purge, history
  <1>5. FaultsOK' BY DEF TypeOK, FaultsOK, PartHalfDone, Posted, Fault,
    channel, upload, purge, history
  <1>6. Known' BY DEF TypeOK, PartsInv, ChannelOK, RowsOK, StepOK, Known, Sent,
    Messages, PartHalfDone, Posted, Fault, channel, upload, purge, history
  <1>7. Listed' BY DEF TypeOK, PartsInv, ChannelOK, RowsOK, StepOK, Listed,
    Fragmented, Messages, PartHalfDone, Posted, Fault, channel, upload, purge,
    history
  <1>8. Swept' BY DEF TypeOK, PartsInv, ChannelOK, RowsOK, StepOK, Listed,
    Swept, Active, Messages, PartHalfDone, Posted, Fault, channel, upload,
    purge, history
  <1>9. Sent' BY DEF TypeOK, PartsInv, Sent, ChannelOK, StepOK, PartHalfDone,
    Posted, Fault, channel, upload, purge, history
  <1>10. Hiding' BY DEF TypeOK, PartsInv, ChannelOK, RowsOK, StepOK, Listed,
    Swept, Hiding, Content, Fragmented, Messages, PartHalfDone, Posted, Fault,
    channel, upload, purge, history
  <1>11. Gone' BY DEF TypeOK, PartsInv, ChannelOK, RowsOK, StepOK, Known, Sent,
    Hiding, Gone, HiddenStays, Content, Fragmented, Messages, PartHalfDone,
    Posted, Fault, channel, upload, purge, history
  <1> QED BY <1>1, <1>2, <1>3, <1>4, <1>5, <1>6, <1>7, <1>8, <1>9, <1>10, <1>11 DEF TypeOK, PartsInv

LEMMA PartFailsKeeps ==
    ASSUME TypeOK, PartsInv, PartFails
    PROVE  TypeOK' /\ PartsInv'
  <1>1. ChannelOK' BY DEF TypeOK, ChannelOK, Messages, PartFails, Fault,
    channel, upload, purge, history
  <1>2. RowsOK' BY DEF TypeOK, ChannelOK, RowsOK, StepOK, Messages, Row,
    PartFails, Fault, channel, upload, purge, history
  <1>3. StepOK' BY DEF TypeOK, ChannelOK, StepOK, Messages, PartFails, Fault,
    channel, upload, purge, history
  <1>4. UserOK' BY DEF TypeOK, UserOK, PartFails, Fault, channel, upload,
    purge, history
  <1>5. FaultsOK' BY DEF TypeOK, FaultsOK, PartFails, Fault, channel, upload,
    purge, history
  <1>6. Known' BY DEF TypeOK, PartsInv, ChannelOK, RowsOK, StepOK, Known, Sent,
    Messages, PartFails, Fault, channel, upload, purge, history
  <1>7. Listed' BY DEF TypeOK, PartsInv, ChannelOK, RowsOK, StepOK, Listed,
    Fragmented, Messages, PartFails, Fault, channel, upload, purge, history
  <1>8. Swept' BY DEF TypeOK, PartsInv, ChannelOK, RowsOK, StepOK, Listed,
    Swept, Active, Messages, PartFails, Fault, channel, upload, purge, history
  <1>9. Sent' BY DEF TypeOK, PartsInv, Sent, ChannelOK, StepOK, PartFails,
    Fault, channel, upload, purge, history
  <1>10. Hiding' BY DEF TypeOK, PartsInv, ChannelOK, RowsOK, StepOK, Listed,
    Swept, Hiding, Content, Fragmented, Messages, PartFails, Fault, channel,
    upload, purge, history
  <1>11. Gone' BY DEF TypeOK, PartsInv, ChannelOK, RowsOK, StepOK, Known, Sent,
    Hiding, Gone, HiddenStays, Content, Fragmented, Messages, PartFails, Fault,
    channel, upload, purge, history
  <1> QED BY <1>1, <1>2, <1>3, <1>4, <1>5, <1>6, <1>7, <1>8, <1>9, <1>10, <1>11 DEF TypeOK, PartsInv

LEMMA SourceFailsKeeps ==
    ASSUME TypeOK, PartsInv, SourceFails
    PROVE  TypeOK' /\ PartsInv'
  <1>1. ChannelOK' BY DEF TypeOK, ChannelOK, Messages, SourceFails, Fault,
    channel, upload, purge, history
  <1>2. RowsOK' BY DEF TypeOK, ChannelOK, RowsOK, StepOK, Messages, Row,
    SourceFails, Fault, channel, upload, purge, history
  <1>3. StepOK' BY DEF TypeOK, ChannelOK, StepOK, Messages, SourceFails, Fault,
    channel, upload, purge, history
  <1>4. UserOK' BY DEF TypeOK, UserOK, SourceFails, Fault, channel, upload,
    purge, history
  <1>5. FaultsOK' BY DEF TypeOK, FaultsOK, SourceFails, Fault, channel, upload,
    purge, history
  <1>6. Known' BY DEF TypeOK, PartsInv, ChannelOK, RowsOK, StepOK, Known, Sent,
    Messages, SourceFails, Fault, channel, upload, purge, history
  <1>7. Listed' BY DEF TypeOK, PartsInv, ChannelOK, RowsOK, StepOK, Listed,
    Fragmented, Messages, SourceFails, Fault, channel, upload, purge, history
  <1>8. Swept' BY DEF TypeOK, PartsInv, ChannelOK, RowsOK, StepOK, Listed,
    Swept, Active, Messages, SourceFails, Fault, channel, upload, purge, history
  <1>9. Sent' BY DEF TypeOK, PartsInv, Sent, ChannelOK, StepOK, SourceFails,
    Fault, channel, upload, purge, history
  <1>10. Hiding' BY DEF TypeOK, PartsInv, ChannelOK, RowsOK, StepOK, Listed,
    Swept, Hiding, Content, Fragmented, Messages, SourceFails, Fault, channel,
    upload, purge, history
  <1>11. Gone' BY DEF TypeOK, PartsInv, ChannelOK, RowsOK, StepOK, Known, Sent,
    Hiding, Gone, HiddenStays, Content, Fragmented, Messages, SourceFails, Fault,
    channel, upload, purge, history
  <1> QED BY <1>1, <1>2, <1>3, <1>4, <1>5, <1>6, <1>7, <1>8, <1>9, <1>10, <1>11 DEF TypeOK, PartsInv

LEMMA RetryKeeps ==
    ASSUME TypeOK, PartsInv, Retry
    PROVE  TypeOK' /\ PartsInv'
  <1>1. ChannelOK' BY DEF TypeOK, ChannelOK, Messages, Retry, channel, upload,
    purge, history
  <1>2. RowsOK' BY DEF TypeOK, ChannelOK, RowsOK, StepOK, Messages, Row, Retry,
    channel, upload, purge, history
  <1>3. StepOK' BY DEF TypeOK, ChannelOK, StepOK, Messages, Retry, channel,
    upload, purge, history
  <1>4. UserOK' BY DEF TypeOK, UserOK, Retry, channel, upload, purge, history
  <1>5. FaultsOK' BY DEF TypeOK, FaultsOK, Retry, channel, upload, purge,
    history
  <1>6. Known' BY DEF TypeOK, PartsInv, ChannelOK, RowsOK, StepOK, Known, Sent,
    Messages, Retry, channel, upload, purge, history
  <1>7. Listed' BY DEF TypeOK, PartsInv, ChannelOK, RowsOK, StepOK, Listed,
    Fragmented, Messages, Retry, channel, upload, purge, history
  <1>8. Swept' BY DEF TypeOK, PartsInv, ChannelOK, RowsOK, StepOK, Listed,
    Swept, Active, Messages, Retry, channel, upload, purge, history
  <1>9. Sent' BY DEF TypeOK, PartsInv, Sent, ChannelOK, StepOK, Retry, channel,
    upload, purge, history
  <1>10. Hiding' BY DEF TypeOK, PartsInv, ChannelOK, RowsOK, StepOK, Listed,
    Swept, Hiding, Content, Fragmented, Messages, Retry, channel, upload,
    purge, history
  <1>11. Gone' BY DEF TypeOK, PartsInv, ChannelOK, RowsOK, StepOK, Known, Sent,
    Hiding, Gone, HiddenStays, Content, Fragmented, Messages, Retry, channel,
    upload, purge, history
  <1> QED BY <1>1, <1>2, <1>3, <1>4, <1>5, <1>6, <1>7, <1>8, <1>9, <1>10, <1>11 DEF TypeOK, PartsInv

LEMMA GiveUpKeeps ==
    ASSUME TypeOK, PartsInv, GiveUp
    PROVE  TypeOK' /\ PartsInv'
  <1>1. ChannelOK' BY DEF TypeOK, ChannelOK, Messages, GiveUp, channel, upload,
    purge, history
  <1>2. RowsOK' BY DEF TypeOK, ChannelOK, RowsOK, StepOK, Messages, Row,
    GiveUp, channel, upload, purge, history
  <1>3. StepOK' BY DEF TypeOK, ChannelOK, StepOK, Messages, GiveUp, channel,
    upload, purge, history
  <1>4. UserOK' BY DEF TypeOK, UserOK, GiveUp, channel, upload, purge, history
  <1>5. FaultsOK' BY DEF TypeOK, FaultsOK, GiveUp, channel, upload, purge,
    history
  <1>6. Known' BY DEF TypeOK, PartsInv, ChannelOK, RowsOK, StepOK, Known, Sent,
    Messages, GiveUp, channel, upload, purge, history
  <1>7. Listed' BY DEF TypeOK, PartsInv, ChannelOK, RowsOK, StepOK, Listed,
    Fragmented, Messages, GiveUp, channel, upload, purge, history
  <1>8. Swept' BY DEF TypeOK, PartsInv, ChannelOK, RowsOK, StepOK, Listed,
    Swept, Active, Messages, GiveUp, channel, upload, purge, history
  <1>9. Sent' BY DEF TypeOK, PartsInv, Sent, ChannelOK, StepOK, GiveUp,
    channel, upload, purge, history
  <1>10. Hiding' BY DEF TypeOK, PartsInv, ChannelOK, RowsOK, StepOK, Listed,
    Swept, Hiding, Content, Fragmented, Messages, GiveUp, channel, upload,
    purge, history
  <1>11. Gone' BY DEF TypeOK, PartsInv, ChannelOK, RowsOK, StepOK, Known, Sent,
    Hiding, Gone, HiddenStays, Content, Fragmented, Messages, GiveUp, channel,
    upload, purge, history
  <1> QED BY <1>1, <1>2, <1>3, <1>4, <1>5, <1>6, <1>7, <1>8, <1>9, <1>10, <1>11 DEF TypeOK, PartsInv

LEMMA RecordKeeps ==
    ASSUME TypeOK, PartsInv, Record
    PROVE  TypeOK' /\ PartsInv'
  <1>1. ChannelOK' BY DEF TypeOK, ChannelOK, Messages, Record, Copied, Retired,
    NoRow, Oldest, channel, upload, purge, history
  <1>2. RowsOK'
    <2>1. PICK k \in Oldest(done) :
            \/ row' = [row EXCEPT ![k] = Copied(IF Fragmented THEN done ELSE {})]
            \/ \E old \in Retired :
                 row' = [row EXCEPT ![old] = NoRow, ![k] = Copied(row[old].frags)]
      BY DEF Record
    <2>2. k \in done /\ k \in Messages
      <3>1. k \in Oldest(done) BY <2>1
      <3>2. k \in done BY <3>1 DEF Oldest
      <3> QED BY <3>2 DEF TypeOK, StepOK, ChannelOK, Messages
    <2>3. row \in [Messages -> Row] BY DEF TypeOK, RowsOK
    <2>4. UNCHANGED <<sent, visible, purged, size>> BY DEF Record, channel
    <2>5. done \subseteq Messages BY DEF TypeOK, StepOK, ChannelOK, Messages
    <2>6. \A fr \in SUBSET Messages : Copied(fr) \in Row BY DEF Copied, Row
    <2>7. NoRow \in Row BY DEF NoRow, Row
    <2>8. \A x \in Messages : \/ row'[x] = row[x] \/ row'[x] = NoRow
                             \/ \E fr \in SUBSET Messages : row'[x] = Copied(fr)
      BY <2>1, <2>2, <2>3, <2>5 DEF Retired, Row
    <2>9. DOMAIN row' = Messages /\ row' = [x \in Messages |-> row'[x]]
      BY <2>1, <2>3
    <2>10. row' \in [Messages -> Row] BY <2>3, <2>6, <2>7, <2>8, <2>9
    <2> QED BY <2>8, <2>10 DEF Copied, NoRow, TypeOK, RowsOK
  <1>3. StepOK' BY DEF TypeOK, ChannelOK, StepOK, Messages, Record, Copied,
    Retired, NoRow, Oldest, channel, upload, purge, history
  <1>4. UserOK' BY DEF TypeOK, UserOK, Record, Copied, Retired, NoRow, Oldest,
    channel, upload, purge, history
  <1>5. FaultsOK' BY DEF TypeOK, FaultsOK, Record, Copied, Retired, NoRow,
    Oldest, channel, upload, purge, history
  <1>6. Known'
    <2>1. PICK k \in Oldest(done) :
            \/ row' = [row EXCEPT ![k] = Copied(IF Fragmented THEN done ELSE {})]
            \/ \E old \in Retired :
                 row' = [row EXCEPT ![old] = NoRow, ![k] = Copied(row[old].frags)]
      BY DEF Record
    <2>2. k \in done /\ k \in Messages
      <3>1. k \in Oldest(done) BY <2>1
      <3>2. k \in done BY <3>1 DEF Oldest
      <3> QED BY <3>2 DEF TypeOK, StepOK, ChannelOK, Messages
    <2>3. row \in [Messages -> Row] BY DEF TypeOK, RowsOK
    <2>4. UNCHANGED <<sent, visible, purged, size>> BY DEF Record, channel
    <2>5. done \subseteq 1..sent BY DEF TypeOK, StepOK
    <2>6. \A x \in Messages : row[x].frags \subseteq 1..sent BY DEF PartsInv, Known
    <2>7. Retired \subseteq Messages BY DEF Retired
    <2>8. \A x \in Messages : \/ row'[x] = row[x] \/ row'[x].frags = {}
                             \/ row'[x].frags \subseteq done
                             \/ \E old \in Messages : row'[x].frags = row[old].frags
      BY <2>1, <2>2, <2>3, <2>7 DEF Copied, NoRow
    <2>9. \A x \in Messages : x \in 1..sent \/ row'[x].of = "none"
      <3>1. \A x \in Messages : x # k => row'[x] = row[x] \/ row'[x].of = "none"
        BY <2>1, <2>2, <2>3, <2>7 DEF NoRow
      <3> QED BY <2>2, <2>5, <3>1 DEF PartsInv, Known
    <2> QED BY <2>4, <2>5, <2>6, <2>8, <2>9 DEF PartsInv, Known
  <1>7. Listed' BY DEF TypeOK, PartsInv, ChannelOK, RowsOK, StepOK, Listed,
    Fragmented, Messages, Record, Copied, Retired, NoRow, Oldest, channel,
    upload, purge, history
  <1>8. Swept' BY DEF TypeOK, PartsInv, ChannelOK, RowsOK, StepOK, Listed,
    Swept, Active, Messages, Record, Copied, Retired, NoRow, Oldest, channel,
    upload, purge, history
  <1>9. Sent' BY DEF TypeOK, PartsInv, Sent, ChannelOK, StepOK, Record, Copied,
    Retired, NoRow, Oldest, channel, upload, purge, history
  <1>10. Hiding' BY DEF TypeOK, PartsInv, ChannelOK, RowsOK, StepOK, Listed,
    Swept, Hiding, Content, Fragmented, Messages, Record, Copied, Retired,
    NoRow, Oldest, channel, upload, purge, history
  <1>11. Gone'
    <2>1. PICK k \in Oldest(done) :
            \/ row' = [row EXCEPT ![k] = Copied(IF Fragmented THEN done ELSE {})]
            \/ \E old \in Retired :
                 row' = [row EXCEPT ![old] = NoRow, ![k] = Copied(row[old].frags)]
      BY DEF Record
    <2>2. k \in done /\ k \in Messages
      <3>1. k \in Oldest(done) BY <2>1
      <3>2. k \in done BY <3>1 DEF Oldest
      <3> QED BY <3>2 DEF TypeOK, StepOK, ChannelOK, Messages
    <2>3. row \in [Messages -> Row] BY DEF TypeOK, RowsOK
    <2>4. UNCHANGED <<sent, visible, purged, size>> BY DEF Record, channel
    <2>5. k \notin purged BY <2>2 DEF Record, PartsInv, Sent, Gone
    <2>6. \A x \in purged : row'[x] = row[x] \/ row'[x].frags = {}
      BY <2>1, <2>2, <2>3, <2>5 DEF NoRow, TypeOK, StepOK
    <2>7. \A x \in purged : Content(x)' \cap visible = {}
      BY <2>4, <2>6 DEF Content, Fragmented, PartsInv, Gone, HiddenStays
    <2> QED BY <2>4, <2>7 DEF PartsInv, Gone, HiddenStays
  <1> QED BY <1>1, <1>2, <1>3, <1>4, <1>5, <1>6, <1>7, <1>8, <1>9, <1>10, <1>11 DEF TypeOK, PartsInv

LEMMA RecordFailsKeeps ==
    ASSUME TypeOK, PartsInv, RecordFails
    PROVE  TypeOK' /\ PartsInv'
  <1>1. ChannelOK' BY DEF TypeOK, ChannelOK, Messages, RecordFails, Fault,
    channel, upload, purge, history
  <1>2. RowsOK' BY DEF TypeOK, ChannelOK, RowsOK, StepOK, Messages, Row,
    RecordFails, Fault, channel, upload, purge, history
  <1>3. StepOK' BY DEF TypeOK, ChannelOK, StepOK, Messages, RecordFails, Fault,
    channel, upload, purge, history
  <1>4. UserOK' BY DEF TypeOK, UserOK, RecordFails, Fault, channel, upload,
    purge, history
  <1>5. FaultsOK' BY DEF TypeOK, FaultsOK, RecordFails, Fault, channel, upload,
    purge, history
  <1>6. Known' BY DEF TypeOK, PartsInv, ChannelOK, RowsOK, StepOK, Known, Sent,
    Messages, RecordFails, Fault, channel, upload, purge, history
  <1>7. Listed' BY DEF TypeOK, PartsInv, ChannelOK, RowsOK, StepOK, Listed,
    Fragmented, Messages, RecordFails, Fault, channel, upload, purge, history
  <1>8. Swept' BY DEF TypeOK, PartsInv, ChannelOK, RowsOK, StepOK, Listed,
    Swept, Active, Messages, RecordFails, Fault, channel, upload, purge,
    history
  <1>9. Sent' BY DEF TypeOK, PartsInv, Sent, ChannelOK, StepOK, RecordFails,
    Fault, channel, upload, purge, history
  <1>10. Hiding' BY DEF TypeOK, PartsInv, ChannelOK, RowsOK, StepOK, Listed,
    Swept, Hiding, Content, Fragmented, Messages, RecordFails, Fault, channel,
    upload, purge, history
  <1>11. Gone' BY DEF TypeOK, PartsInv, ChannelOK, RowsOK, StepOK, Known, Sent,
    Hiding, Gone, HiddenStays, Content, Fragmented, Messages, RecordFails,
    Fault, channel, upload, purge, history
  <1> QED BY <1>1, <1>2, <1>3, <1>4, <1>5, <1>6, <1>7, <1>8, <1>9, <1>10, <1>11 DEF TypeOK, PartsInv

LEMMA HidePartKeeps ==
    ASSUME TypeOK, PartsInv, HidePart
    PROVE  TypeOK' /\ PartsInv'
  <1>1. ChannelOK' BY DEF TypeOK, ChannelOK, Messages, HidePart, NextToHide,
    channel, upload, purge, history
  <1>2. RowsOK' BY DEF TypeOK, ChannelOK, RowsOK, StepOK, Messages, Row,
    HidePart, NextToHide, channel, upload, purge, history
  <1>3. StepOK' BY DEF TypeOK, ChannelOK, StepOK, Messages, HidePart,
    NextToHide, channel, upload, purge, history
  <1>4. UserOK' BY DEF TypeOK, UserOK, HidePart, NextToHide, channel, upload,
    purge, history
  <1>5. FaultsOK' BY DEF TypeOK, FaultsOK, HidePart, NextToHide, channel,
    upload, purge, history
  <1>6. Known' BY DEF TypeOK, PartsInv, ChannelOK, RowsOK, StepOK, Known, Sent,
    Messages, HidePart, NextToHide, channel, upload, purge, history
  <1>7. Listed' BY DEF TypeOK, PartsInv, ChannelOK, RowsOK, StepOK, Listed,
    Fragmented, Messages, HidePart, NextToHide, channel, upload, purge, history
  <1>8. Swept' BY DEF TypeOK, PartsInv, ChannelOK, RowsOK, StepOK, Listed,
    Swept, Active, Messages, HidePart, NextToHide, channel, upload, purge,
    history
  <1>9. Sent' BY DEF TypeOK, PartsInv, Sent, ChannelOK, StepOK, HidePart,
    NextToHide, channel, upload, purge, history
  <1>10. Hiding' BY DEF TypeOK, PartsInv, ChannelOK, RowsOK, StepOK, Listed,
    Swept, Hiding, Content, Fragmented, Messages, HidePart, NextToHide,
    channel, upload, purge, history
  <1>11. Gone' BY DEF TypeOK, PartsInv, ChannelOK, RowsOK, StepOK, Known, Sent,
    Hiding, Gone, HiddenStays, Content, Fragmented, Messages, HidePart,
    NextToHide, channel, upload, purge, history
  <1> QED BY <1>1, <1>2, <1>3, <1>4, <1>5, <1>6, <1>7, <1>8, <1>9, <1>10, <1>11 DEF TypeOK, PartsInv

LEMMA HideFailsKeeps ==
    ASSUME TypeOK, PartsInv, HideFails
    PROVE  TypeOK' /\ PartsInv'
  <1>1. ChannelOK' BY DEF TypeOK, ChannelOK, Messages, HideFails, Fault,
    channel, upload, purge, history
  <1>2. RowsOK' BY DEF TypeOK, ChannelOK, RowsOK, StepOK, Messages, Row,
    HideFails, Fault, channel, upload, purge, history
  <1>3. StepOK' BY DEF TypeOK, ChannelOK, StepOK, Messages, HideFails, Fault,
    channel, upload, purge, history
  <1>4. UserOK' BY DEF TypeOK, UserOK, HideFails, Fault, channel, upload,
    purge, history
  <1>5. FaultsOK' BY DEF TypeOK, FaultsOK, HideFails, Fault, channel, upload,
    purge, history
  <1>6. Known' BY DEF TypeOK, PartsInv, ChannelOK, RowsOK, StepOK, Known, Sent,
    Messages, HideFails, Fault, channel, upload, purge, history
  <1>7. Listed' BY DEF TypeOK, PartsInv, ChannelOK, RowsOK, StepOK, Listed,
    Fragmented, Messages, HideFails, Fault, channel, upload, purge, history
  <1>8. Swept' BY DEF TypeOK, PartsInv, ChannelOK, RowsOK, StepOK, Listed,
    Swept, Active, Messages, HideFails, Fault, channel, upload, purge, history
  <1>9. Sent' BY DEF TypeOK, PartsInv, Sent, ChannelOK, StepOK, HideFails,
    Fault, channel, upload, purge, history
  <1>10. Hiding' BY DEF TypeOK, PartsInv, ChannelOK, RowsOK, StepOK, Listed,
    Swept, Hiding, Content, Fragmented, Messages, HideFails, Fault, channel,
    upload, purge, history
  <1>11. Gone' BY DEF TypeOK, PartsInv, ChannelOK, RowsOK, StepOK, Known, Sent,
    Hiding, Gone, HiddenStays, Content, Fragmented, Messages, HideFails, Fault,
    channel, upload, purge, history
  <1> QED BY <1>1, <1>2, <1>3, <1>4, <1>5, <1>6, <1>7, <1>8, <1>9, <1>10, <1>11 DEF TypeOK, PartsInv

LEMMA HiddenKeeps ==
    ASSUME TypeOK, PartsInv, Hidden
    PROVE  TypeOK' /\ PartsInv'
  <1>1. ChannelOK' BY DEF TypeOK, ChannelOK, Messages, Hidden, Deleted,
    channel, upload, purge, history
  <1>2. RowsOK'
    <2>1. hiding \in Messages BY DEF Hidden, TypeOK, StepOK, Messages
    <2>2. PICK r : r = Deleted(row[hiding]) OBVIOUS
    <2>3. row' = [row EXCEPT ![hiding] = r] BY <2>2 DEF Hidden
    <2>4. row[hiding] \in Row BY <2>1 DEF TypeOK, RowsOK
    <2>5. r \in Row /\ r.status = "deleted" /\ r.of = row[hiding].of
      BY <2>2, <2>4 DEF Deleted, Row
    <2>6. row[hiding].of # "none" BY DEF Hidden, PartsInv, Hiding
    <2> QED BY <2>1, <2>3, <2>5, <2>6 DEF TypeOK, RowsOK
  <1>3. StepOK' BY DEF TypeOK, ChannelOK, StepOK, Messages, Hidden, Deleted,
    channel, upload, purge, history
  <1>4. UserOK' BY DEF TypeOK, UserOK, Hidden, Deleted, channel, upload, purge,
    history
  <1>5. FaultsOK' BY DEF TypeOK, FaultsOK, Hidden, Deleted, channel, upload,
    purge, history
  <1>6. Known'
    <2>1. hiding \in Messages BY DEF Hidden, TypeOK, StepOK, Messages
    <2>2. PICK r : r = Deleted(row[hiding]) OBVIOUS
    <2>3. row' = [row EXCEPT ![hiding] = r] BY <2>2 DEF Hidden
    <2>4. row[hiding] \in Row BY <2>1 DEF TypeOK, RowsOK
    <2>5. r.frags = row[hiding].frags BY <2>2 DEF Deleted
    <2>6. \A x \in Messages : row'[x].frags = row[x].frags
      BY <2>1, <2>3, <2>5 DEF TypeOK, RowsOK
    <2>7. hiding \in 1..sent BY <2>1 DEF Hidden, PartsInv, Hiding, Known
    <2>9. \A x \in Messages : x \in 1..sent \/ row'[x].of = "none"
      BY <2>1, <2>3, <2>7 DEF PartsInv, Known, TypeOK, RowsOK
    <2>8. purged' \subseteq 1..sent /\ sent' = sent
      BY <2>7 DEF Hidden, PartsInv, Known, channel
    <2> QED BY <2>6, <2>8, <2>9 DEF PartsInv, Known
  <1>7. Listed' BY DEF TypeOK, PartsInv, ChannelOK, RowsOK, StepOK, Listed,
    Fragmented, Messages, Hidden, Deleted, channel, upload, purge, history
  <1>8. Swept' BY DEF TypeOK, PartsInv, ChannelOK, RowsOK, StepOK, Listed,
    Swept, Active, Messages, Hidden, Deleted, channel, upload, purge, history
  <1>9. Sent' BY DEF TypeOK, PartsInv, Sent, ChannelOK, StepOK, Hidden,
    Deleted, channel, upload, purge, history
  <1>10. Hiding' BY DEF TypeOK, PartsInv, ChannelOK, RowsOK, StepOK, Listed,
    Swept, Hiding, Content, Fragmented, Messages, Hidden, Deleted, channel,
    upload, purge, history
  <1>11. Gone' BY DEF TypeOK, PartsInv, ChannelOK, RowsOK, StepOK, Known, Sent,
    Hiding, Gone, HiddenStays, Content, Fragmented, Messages, Hidden, Deleted,
    channel, upload, purge, history
  <1> QED BY <1>1, <1>2, <1>3, <1>4, <1>5, <1>6, <1>7, <1>8, <1>9, <1>10, <1>11 DEF TypeOK, PartsInv

LEMMA KillKeeps ==
    ASSUME TypeOK, PartsInv, Kill
    PROVE  TypeOK' /\ PartsInv'
  <1>1. ChannelOK' BY DEF TypeOK, ChannelOK, Messages, Kill, Fault, Kind,
    channel, upload, purge, history
  <1>2. RowsOK' BY DEF TypeOK, ChannelOK, RowsOK, StepOK, Messages, Row, Kill,
    Fault, Kind, channel, upload, purge, history
  <1>3. StepOK' BY DEF TypeOK, ChannelOK, StepOK, Messages, Kill, Fault, Kind,
    channel, upload, purge, history
  <1>4. UserOK' BY DEF TypeOK, UserOK, Kill, Fault, Kind, channel, upload,
    purge, history
  <1>5. FaultsOK' BY DEF TypeOK, FaultsOK, Kill, Fault, Kind, channel, upload,
    purge, history
  <1>6. Known' BY DEF TypeOK, PartsInv, ChannelOK, RowsOK, StepOK, Known, Sent,
    Messages, Kill, Fault, Kind, channel, upload, purge, history
  <1>7. Listed' BY DEF TypeOK, PartsInv, ChannelOK, RowsOK, StepOK, Listed,
    Fragmented, Messages, Kill, Fault, Kind, channel, upload, purge, history
  <1>8. Swept' BY DEF TypeOK, PartsInv, ChannelOK, RowsOK, StepOK, Listed,
    Swept, Active, Messages, Kill, Fault, Kind, channel, upload, purge, history
  <1>9. Sent' BY DEF TypeOK, PartsInv, Sent, ChannelOK, StepOK, Kill, Fault,
    Kind, channel, upload, purge, history
  <1>10. Hiding' BY DEF TypeOK, PartsInv, ChannelOK, RowsOK, StepOK, Listed,
    Swept, Hiding, Content, Fragmented, Messages, Kill, Fault, Kind, channel,
    upload, purge, history
  <1>11. Gone' BY DEF TypeOK, PartsInv, ChannelOK, RowsOK, StepOK, Known, Sent,
    Hiding, Gone, HiddenStays, Content, Fragmented, Messages, Kill, Fault,
    Kind, channel, upload, purge, history
  <1> QED BY <1>1, <1>2, <1>3, <1>4, <1>5, <1>6, <1>7, <1>8, <1>9, <1>10, <1>11 DEF TypeOK, PartsInv

LEMMA ChangeKeeps ==
    ASSUME TypeOK, PartsInv, Change
    PROVE  TypeOK' /\ PartsInv'
  <1>1. ChannelOK' BY DEF TypeOK, ChannelOK, Messages, Change, channel, upload,
    purge, history
  <1>2. RowsOK' BY DEF TypeOK, ChannelOK, RowsOK, StepOK, Messages, Row,
    Change, channel, upload, purge, history
  <1>3. StepOK' BY DEF TypeOK, ChannelOK, StepOK, Messages, Change, channel,
    upload, purge, history
  <1>4. UserOK' BY DEF TypeOK, UserOK, Change, channel, upload, purge, history
  <1>5. FaultsOK' BY DEF TypeOK, FaultsOK, Change, channel, upload, purge,
    history
  <1>6. Known' BY DEF TypeOK, PartsInv, ChannelOK, RowsOK, StepOK, Known, Sent,
    Messages, Change, channel, upload, purge, history
  <1>7. Listed' BY DEF TypeOK, PartsInv, ChannelOK, RowsOK, StepOK, Listed,
    Fragmented, Messages, Change, channel, upload, purge, history
  <1>8. Swept' BY DEF TypeOK, PartsInv, ChannelOK, RowsOK, StepOK, Listed,
    Swept, Active, Messages, Change, channel, upload, purge, history
  <1>9. Sent' BY DEF TypeOK, PartsInv, Sent, ChannelOK, StepOK, Change,
    channel, upload, purge, history
  <1>10. Hiding' BY DEF TypeOK, PartsInv, ChannelOK, RowsOK, StepOK, Listed,
    Swept, Hiding, Content, Fragmented, Messages, Change, channel, upload,
    purge, history
  <1>11. Gone' BY DEF TypeOK, PartsInv, ChannelOK, RowsOK, StepOK, Known, Sent,
    Hiding, Gone, HiddenStays, Content, Fragmented, Messages, Change, channel,
    upload, purge, history
  <1> QED BY <1>1, <1>2, <1>3, <1>4, <1>5, <1>6, <1>7, <1>8, <1>9, <1>10, <1>11 DEF TypeOK, PartsInv

-----------------------------------------------------------------------------
(* No part is lacking: one lemma per action for FullInv. *)

LEMMA TotalType == TypeOK => Total \in Nat
  <1> SUFFICES ASSUME TypeOK PROVE Total \in Nat OBVIOUS
  <1>1. size \in Nat BY DEF TypeOK, ChannelOK
  <1>2. CASE Fragmented
    <2>1. PICK n : n = size + MaxPart - 1 OBVIOUS
    <2>2. n \in Nat BY <1>1, <1>2, <2>1 DEF Fragmented
    <2>3. n \div MaxPart \in Nat BY <2>2
    <2> QED BY <1>2, <2>1, <2>3 DEF Total
  <1>3. CASE ~Fragmented BY <1>3 DEF Total
  <1> QED BY <1>2, <1>3

LEMMA SentType == TypeOK => IsFiniteSet(done) /\ Cardinality(done) \in Nat
  <1> SUFFICES ASSUME TypeOK PROVE IsFiniteSet(done) /\ Cardinality(done) \in Nat
    OBVIOUS
  <1>1. sent \in Nat /\ done \subseteq 1..sent BY DEF TypeOK, ChannelOK, StepOK
  <1>2. IsFiniteSet(1..sent) BY <1>1, FS_Interval
  <1>3. IsFiniteSet(done) BY <1>1, <1>2, FS_Subset
  <1> QED BY <1>3, FS_CardinalityType

\* What an upload has sent in full is in the channel.
LEMMA RecordComplete == TypeOK /\ PartsInv /\ Numbered /\ pc = "record" =>
                            Complete(done) /\ Complete(visible)
  <1> SUFFICES ASSUME TypeOK, PartsInv, Numbered, pc = "record"
               PROVE  Complete(done) /\ Complete(visible) OBVIOUS
  <1>1. Complete(done) BY DEF Numbered, Complete
  <1>2. done \subseteq visible BY DEF PartsInv, Sent
  <1> QED BY <1>1, <1>2 DEF Complete

LEMMA ListFull ==
    ASSUME TypeOK, PartsInv, FullInv, List
    PROVE  FullInv'
  <1>1. size' = size /\ Total' = Total /\ Fragmented' = Fragmented
    BY DEF List, Total, Fragmented
  <1>2. Numbered'
    <2>1. UNCHANGED <<sent, part, done>> BY DEF List, channel, upload
    <2>2. pc' \in {"send", "record"} => pc' = pc BY DEF List
    <2> QED BY <1>1, <2>1, <2>2 DEF FullInv, Numbered
  <1>3. Uncut' => Uncut BY DEF Uncut, List, Upserted, Fragments, NativeID,
    Oldest, Newest, First, channel, upload, purge, history
  <1>4. RowsFull /\ ChannelFull => RowsFull'
    <2> SUFFICES ASSUME RowsFull, ChannelFull, Fragmented PROVE RowsFull'
      BY <1>1 DEF RowsFull
    <2>1. part' = part BY DEF List, channel
    <2>2. CASE UNCHANGED row BY <1>1, <2>1, <2>2 DEF RowsFull, Complete
    <2>3. CASE \E k \in NativeID(visible) : row' = [row EXCEPT ![k] = Upserted(k, visible)]
      <3>1. PICK k \in NativeID(visible) : row' = [row EXCEPT ![k] = Upserted(k, visible)]
        BY <2>3
      <3>2. visible # {} BY <3>1 DEF NativeID, Oldest, Newest, First
      <3>3. Complete(visible) BY <3>2 DEF ChannelFull, List
      <3>4. PICK u : u = Upserted(k, visible) OBVIOUS
      <3>5. u.frags = visible BY <3>4 DEF Upserted, Fragments
      <3>6. row' = [row EXCEPT ![k] = u] BY <3>1, <3>4
      <3>7. \A x \in Messages : row'[x] = row[x] \/ row'[x] = u
        BY <3>6 DEF TypeOK, RowsOK
      <3> QED BY <1>1, <2>1, <3>3, <3>5, <3>7 DEF RowsFull, Complete
    <2> QED BY <2>2, <2>3 DEF List
  <1>5. Uncut' /\ ChannelFull => ChannelFull'
    BY <1>1 DEF ChannelFull, Complete, List, channel, purge
  <1> QED BY <1>2, <1>3, <1>4, <1>5 DEF FullInv

LEMMA ListFailsFull ==
    ASSUME TypeOK, PartsInv, FullInv, ListFails
    PROVE  FullInv'
  <1>1. size' = size /\ Total' = Total /\ Fragmented' = Fragmented
    BY DEF ListFails, Total, Fragmented
  <1>2. Numbered'
    <2>1. UNCHANGED <<sent, part, done>> BY DEF ListFails, channel, upload
    <2>2. pc' \in {"send", "record"} => pc' = pc BY DEF ListFails
    <2> QED BY <1>1, <2>1, <2>2 DEF FullInv, Numbered
  <1>3. Uncut' => Uncut BY DEF Uncut, ListFails, Fault, channel, upload, purge,
    history
  <1>4. RowsFull => RowsFull'
    BY <1>1 DEF RowsFull, Complete, ListFails, channel
  <1>5. Uncut' /\ ChannelFull => ChannelFull'
    BY <1>1 DEF ChannelFull, Complete, ListFails, channel, purge
  <1> QED BY <1>2, <1>3, <1>4, <1>5 DEF FullInv

LEMMA PromoteFull ==
    ASSUME TypeOK, PartsInv, FullInv, Promote
    PROVE  FullInv'
  <1>1. size' = size /\ Total' = Total /\ Fragmented' = Fragmented
    BY DEF Promote, Total, Fragmented
  <1>2. Numbered'
    <2>1. UNCHANGED <<sent, part, done>> BY DEF Promote, channel, upload
    <2>2. pc' \in {"send", "record"} => pc' = pc BY DEF Promote
    <2> QED BY <1>1, <2>1, <2>2 DEF FullInv, Numbered
  <1>3. Uncut' => Uncut BY DEF Uncut, Promote, channel, upload, purge, history
  <1>4. RowsFull => RowsFull'
    BY <1>1 DEF RowsFull, Complete, Promote, channel, TypeOK, RowsOK
  <1>5. Uncut' /\ ChannelFull => ChannelFull'
    BY <1>1 DEF ChannelFull, Complete, Promote, channel, purge
  <1> QED BY <1>2, <1>3, <1>4, <1>5 DEF FullInv

LEMMA SweepFull ==
    ASSUME TypeOK, PartsInv, FullInv, Sweep
    PROVE  FullInv'
  <1>1. size' = size /\ Total' = Total /\ Fragmented' = Fragmented
    BY DEF Sweep, Total, Fragmented
  <1>2. Numbered'
    <2>1. UNCHANGED <<sent, part, done>> BY DEF Sweep, channel, upload
    <2>2. pc' \in {"send", "record"} => pc' = pc BY DEF Sweep
    <2> QED BY <1>1, <2>1, <2>2 DEF FullInv, Numbered
  <1>3. Uncut' => Uncut BY DEF Uncut, Sweep, Deleted, Active, channel, upload,
    purge, history
  <1>4. RowsFull => RowsFull'
    BY <1>1 DEF RowsFull, Complete, Sweep, Deleted, Active, channel, TypeOK, RowsOK
  <1>5. Uncut' /\ ChannelFull => ChannelFull'
    BY <1>1 DEF ChannelFull, Complete, Sweep, channel, purge
  <1> QED BY <1>2, <1>3, <1>4, <1>5 DEF FullInv

LEMMA HideFull ==
    ASSUME TypeOK, PartsInv, FullInv, Hide
    PROVE  FullInv'
  <1>1. size' = size /\ Total' = Total /\ Fragmented' = Fragmented
    BY DEF Hide, Total, Fragmented
  <1>2. Numbered'
    <2>1. UNCHANGED <<sent, part, done>> BY DEF Hide, channel, upload
    <2>2. pc' \in {"send", "record"} => pc' = pc BY DEF Hide
    <2> QED BY <1>1, <2>1, <2>2 DEF FullInv, Numbered
  <1>3. Uncut' => Uncut BY DEF Uncut, Hide, Active, channel, upload, purge,
    history
  <1>4. RowsFull => RowsFull'
    BY <1>1 DEF RowsFull, Complete, Hide, channel
  <1>5. Uncut' /\ ChannelFull => ChannelFull'
    <2>1. PICK k \in Active : todo' = Content(k) BY DEF Hide
    <2>2. Fragmented => visible \subseteq todo'
      BY <2>1 DEF Content, Hide, PartsInv, Swept, Listed
    <2>3. visible' = visible /\ pc' = "hide" BY DEF Hide, channel
    <2> QED BY <1>1, <2>2, <2>3 DEF ChannelFull
  <1> QED BY <1>2, <1>3, <1>4, <1>5 DEF FullInv

LEMMA UploadFull ==
    ASSUME TypeOK, PartsInv, FullInv, Upload
    PROVE  FullInv'
  <1>1. size' = size /\ Total' = Total /\ Fragmented' = Fragmented
    BY DEF Upload, Total, Fragmented
  <1>2. Numbered'
    <2>1. done' = {} /\ pc' = "send" /\ UNCHANGED <<sent, part>> BY DEF Upload, channel
    <2>2. Cardinality(done') = 0 BY <2>1, FS_EmptySet
    <2>3. Total \in Nat BY TotalType
    <2>4. \A m \in 1..sent' : part'[m] \in 1..Total' BY <1>1, <2>1 DEF FullInv, Numbered
    <2>5. Cardinality(done') <= Total' BY <1>1, <2>2, <2>3
    <2>6. \A i \in 1..Cardinality(done') : \E m \in done' : part'[m] = i BY <2>2
    <2> QED BY <2>1, <2>4, <2>5, <2>6 DEF Numbered
  <1>3. Uncut' => Uncut BY DEF Uncut, Upload, channel, upload, purge, history
  <1>4. RowsFull => RowsFull'
    BY <1>1 DEF RowsFull, Complete, Upload, channel
  <1>5. Uncut' /\ ChannelFull => ChannelFull'
    BY <1>1 DEF ChannelFull, Complete, Upload, channel, purge
  <1> QED BY <1>2, <1>3, <1>4, <1>5 DEF FullInv

LEMMA LeaveFull ==
    ASSUME TypeOK, PartsInv, FullInv, Leave
    PROVE  FullInv'
  <1>1. size' = size /\ Total' = Total /\ Fragmented' = Fragmented
    BY DEF Leave, Total, Fragmented
  <1>2. Numbered'
    <2>1. UNCHANGED <<sent, part, done>> BY DEF Leave, channel, upload
    <2>2. pc' \in {"send", "record"} => pc' = pc BY DEF Leave
    <2> QED BY <1>1, <2>1, <2>2 DEF FullInv, Numbered
  <1>3. Uncut' => Uncut BY DEF Uncut, Leave, channel, upload, purge, history
  <1>4. RowsFull => RowsFull'
    BY <1>1 DEF RowsFull, Complete, Leave, channel
  <1>5. Uncut' /\ ChannelFull => ChannelFull'
    BY <1>1 DEF ChannelFull, Complete, Leave, channel, purge
  <1> QED BY <1>2, <1>3, <1>4, <1>5 DEF FullInv

LEMMA SendPartFull ==
    ASSUME TypeOK, PartsInv, FullInv, SendPart
    PROVE  FullInv'
  <1>1. size' = size /\ Total' = Total /\ Fragmented' = Fragmented
    BY DEF SendPart, Total, Fragmented
  <1>2. Numbered'
    <2>1. sent \in Nat /\ sent' = sent + 1 /\ Cardinality(done) \in Nat /\ Total \in Nat
      BY SentType, TotalType DEF SendPart, Posted, TypeOK, ChannelOK
    <2>2. PICK n : n = Cardinality(done) + 1 OBVIOUS
    <2>3. n \in 1..Total BY <2>1, <2>2 DEF SendPart, Posted
    <2>4. part' = [part EXCEPT ![sent + 1] = n] /\ sent + 1 \in Messages
      BY <2>1, <2>2 DEF SendPart, Posted, Messages, TypeOK, ChannelOK
    <2>5. \A m \in 1..sent : part'[m] = part[m] BY <2>1, <2>4 DEF TypeOK, ChannelOK
    <2>6. part'[sent + 1] = n BY <2>4 DEF TypeOK, ChannelOK
    <2>7. \A m \in 1..sent' : part'[m] \in 1..Total'
      BY <1>1, <2>1, <2>3, <2>5, <2>6 DEF FullInv, Numbered
    <2>8. done' = done \cup {sent + 1} /\ sent + 1 \notin done
      BY <2>1 DEF SendPart, TypeOK, StepOK
    <2>9. Cardinality(done') = n BY <2>2, <2>8, SentType, FS_AddElement
    <2>10. ASSUME NEW i \in 1..n PROVE \E m \in done' : part'[m] = i
      <3>1. CASE i = n BY <3>1, <2>6, <2>8
      <3>2. CASE i \in 1..Cardinality(done)
        BY <3>2, <2>5, <2>8 DEF SendPart, Posted, FullInv, Numbered, TypeOK, StepOK
      <3> QED BY <2>1, <2>2, <3>1, <3>2
    <2>11. n <= Total' /\ (pc' = "record" => n = Total')
      BY <1>1, <2>1, <2>3, <2>9 DEF SendPart
    <2> QED BY <2>7, <2>9, <2>10, <2>11 DEF Numbered
  <1>3. Uncut' => Uncut BY DEF Uncut, SendPart, Posted, channel, upload, purge,
    history
  <1>4. RowsFull => RowsFull'
    <2>1. \A m \in 1..sent : part'[m] = part[m]
      BY DEF SendPart, Posted, TypeOK, ChannelOK, Messages
    <2>2. \A k \in Messages : row[k].frags \subseteq 1..sent BY DEF PartsInv, Known
    <2>3. row' = row BY DEF SendPart
    <2> QED BY <1>1, <2>1, <2>2, <2>3 DEF RowsFull, Complete
  <1>5. Uncut' /\ ChannelFull => ChannelFull' BY DEF ChannelFull, SendPart
  <1> QED BY <1>2, <1>3, <1>4, <1>5 DEF FullInv

LEMMA PartHalfDoneFull ==
    ASSUME TypeOK, PartsInv, FullInv, PartHalfDone
    PROVE  FullInv'
  <1>1. size' = size /\ Total' = Total /\ Fragmented' = Fragmented
    BY DEF PartHalfDone, Total, Fragmented
  <1>2. Numbered'
    <2>1. sent \in Nat /\ sent' = sent + 1 /\ Cardinality(done) \in Nat /\ Total \in Nat
      BY SentType, TotalType DEF PartHalfDone, Posted, TypeOK, ChannelOK
    <2>2. PICK n : n = Cardinality(done) + 1 OBVIOUS
    <2>3. n \in 1..Total BY <2>1, <2>2 DEF PartHalfDone, Posted
    <2>4. part' = [part EXCEPT ![sent + 1] = n] /\ sent + 1 \in Messages
      BY <2>1, <2>2 DEF PartHalfDone, Posted, Messages, TypeOK, ChannelOK
    <2>5. \A m \in 1..sent : part'[m] = part[m] BY <2>1, <2>4 DEF TypeOK, ChannelOK
    <2>6. part'[sent + 1] = n BY <2>4 DEF TypeOK, ChannelOK
    <2>7. \A m \in 1..sent' : part'[m] \in 1..Total'
      BY <1>1, <2>1, <2>3, <2>5, <2>6 DEF FullInv, Numbered
    <2> QED BY <2>7 DEF Numbered, PartHalfDone
  <1>3. ~Uncut' BY DEF PartHalfDone, Fault, Uncut
  <1> QED BY <1>2, <1>3 DEF FullInv

LEMMA PartFailsFull ==
    ASSUME TypeOK, PartsInv, FullInv, PartFails
    PROVE  FullInv'
  <1>1. size' = size /\ Total' = Total /\ Fragmented' = Fragmented
    BY DEF PartFails, Total, Fragmented
  <1>2. Numbered'
    <2>1. UNCHANGED <<sent, part, done>> BY DEF PartFails, channel, upload
    <2>2. pc' \in {"send", "record"} => pc' = pc BY DEF PartFails
    <2> QED BY <1>1, <2>1, <2>2 DEF FullInv, Numbered
  <1>3. ~Uncut' BY DEF PartFails, Fault, Uncut
  <1> QED BY <1>2, <1>3 DEF FullInv

LEMMA RetryFull ==
    ASSUME TypeOK, PartsInv, FullInv, Retry
    PROVE  FullInv'
  <1>1. size' = size /\ Total' = Total /\ Fragmented' = Fragmented
    BY DEF Retry, Total, Fragmented
  <1>2. Numbered'
    <2>1. done' = {} /\ pc' = "send" /\ UNCHANGED <<sent, part>> BY DEF Retry, channel
    <2>2. Cardinality(done') = 0 BY <2>1, FS_EmptySet
    <2>3. Total \in Nat BY TotalType
    <2>4. \A m \in 1..sent' : part'[m] \in 1..Total' BY <1>1, <2>1 DEF FullInv, Numbered
    <2>5. Cardinality(done') <= Total' BY <1>1, <2>2, <2>3
    <2>6. \A i \in 1..Cardinality(done') : \E m \in done' : part'[m] = i BY <2>2
    <2> QED BY <2>1, <2>4, <2>5, <2>6 DEF Numbered
  <1>3. Uncut' => Uncut BY DEF Uncut, Retry, channel, upload, purge, history
  <1>4. RowsFull => RowsFull'
    BY <1>1 DEF RowsFull, Complete, Retry, channel
  <1>5. Uncut' /\ ChannelFull => ChannelFull'
    BY <1>1 DEF ChannelFull, Complete, Retry, channel, purge
  <1> QED BY <1>2, <1>3, <1>4, <1>5 DEF FullInv

LEMMA GiveUpFull ==
    ASSUME TypeOK, PartsInv, FullInv, GiveUp
    PROVE  FullInv'
  <1>1. size' = size /\ Total' = Total /\ Fragmented' = Fragmented
    BY DEF GiveUp, Total, Fragmented
  <1>2. Numbered'
    <2>1. UNCHANGED <<sent, part, done>> BY DEF GiveUp, channel, upload
    <2>2. pc' \in {"send", "record"} => pc' = pc BY DEF GiveUp
    <2> QED BY <1>1, <2>1, <2>2 DEF FullInv, Numbered
  <1>3. Uncut' => Uncut BY DEF Uncut, GiveUp, channel, upload, purge, history
  <1>4. RowsFull => RowsFull'
    BY <1>1 DEF RowsFull, Complete, GiveUp, channel
  <1>5. Uncut' /\ ChannelFull => ChannelFull'
    BY <1>1 DEF ChannelFull, Complete, GiveUp, channel, purge
  <1> QED BY <1>2, <1>3, <1>4, <1>5 DEF FullInv

LEMMA RecordFull ==
    ASSUME TypeOK, PartsInv, FullInv, Record
    PROVE  FullInv'
  <1>1. size' = size /\ Total' = Total /\ Fragmented' = Fragmented
    BY DEF Record, Total, Fragmented
  <1>2. Numbered'
    <2>1. UNCHANGED <<sent, part, done>> BY DEF Record, channel, upload
    <2>2. pc' \in {"send", "record"} => pc' = pc BY DEF Record
    <2> QED BY <1>1, <2>1, <2>2 DEF FullInv, Numbered
  <1>3. Uncut' => Uncut BY DEF Uncut, Record, Copied, Retired, NoRow, Oldest,
    channel, upload, purge, history
  <1>4. RowsFull => RowsFull'
    <2> SUFFICES ASSUME RowsFull, Fragmented PROVE RowsFull' BY <1>1 DEF RowsFull
    <2>1. part' = part /\ Complete(done)
      BY RecordComplete DEF Record, channel, FullInv
    <2>2. PICK k \in Oldest(done) :
            \/ row' = [row EXCEPT ![k] = Copied(IF Fragmented THEN done ELSE {})]
            \/ \E old \in Retired :
                 row' = [row EXCEPT ![old] = NoRow, ![k] = Copied(row[old].frags)]
      BY DEF Record
    <2>3. \A old \in Retired : Complete(row[old].frags) BY DEF Retired, RowsFull
    <2>4. PICK c : c = Copied(done) OBVIOUS
    <2>5. \A x \in Messages : \/ row'[x] = row[x] \/ row'[x] = NoRow \/ row'[x] = c
                             \/ \E old \in Retired : row'[x] = Copied(row[old].frags)
      BY <2>2, <2>4 DEF TypeOK, RowsOK
    <2>6. c.frags = done BY <2>4 DEF Copied
    <2>7. \A x \in Messages : row'[x].status # "none" =>
            \/ row'[x].frags = row[x].frags /\ row[x].status # "none"
            \/ Complete(row'[x].frags)
      <3> SUFFICES ASSUME NEW x \in Messages, row'[x].status # "none"
                   PROVE  \/ row'[x].frags = row[x].frags /\ row[x].status # "none"
                          \/ Complete(row'[x].frags) OBVIOUS
      <3>1. CASE row'[x] = row[x] BY <3>1
      <3>2. row'[x] # NoRow BY DEF NoRow
      <3>3. CASE row'[x] = c BY <2>1, <2>6, <3>3
      <3>4. CASE \E old \in Retired : row'[x] = Copied(row[old].frags)
        <4>1. PICK old \in Retired : row'[x] = Copied(row[old].frags) BY <3>4
        <4>2. row'[x].frags = row[old].frags BY <4>1 DEF Copied
        <4> QED BY <2>3, <4>2
      <3> QED BY <2>5, <3>1, <3>2, <3>3, <3>4
    <2> QED BY <1>1, <2>1, <2>7 DEF RowsFull, Complete
  <1>5. Uncut' /\ ChannelFull => ChannelFull'
    <2>1. UNCHANGED <<visible, part>> /\ pc' = "done" BY DEF Record, channel
    <2>2. Complete(visible) BY RecordComplete DEF Record, FullInv
    <2> QED BY <1>1, <2>1, <2>2 DEF ChannelFull, Complete
  <1> QED BY <1>2, <1>3, <1>4, <1>5 DEF FullInv

LEMMA RecordFailsFull ==
    ASSUME TypeOK, PartsInv, FullInv, RecordFails
    PROVE  FullInv'
  <1>1. size' = size /\ Total' = Total /\ Fragmented' = Fragmented
    BY DEF RecordFails, Total, Fragmented
  <1>2. Numbered'
    <2>1. UNCHANGED <<sent, part, done>> BY DEF RecordFails, channel, upload
    <2>2. pc' \in {"send", "record"} => pc' = pc BY DEF RecordFails
    <2> QED BY <1>1, <2>1, <2>2 DEF FullInv, Numbered
  <1>3. Uncut' => Uncut BY DEF Uncut, RecordFails, Fault, channel, upload,
    purge, history
  <1>4. RowsFull => RowsFull'
    BY <1>1 DEF RowsFull, Complete, RecordFails, channel
  <1>5. Uncut' /\ ChannelFull => ChannelFull'
    <2>1. UNCHANGED <<visible, part>> /\ pc' = "done" BY DEF RecordFails, channel
    <2>2. Complete(visible) BY RecordComplete DEF RecordFails, FullInv
    <2> QED BY <1>1, <2>1, <2>2 DEF ChannelFull, Complete
  <1> QED BY <1>2, <1>3, <1>4, <1>5 DEF FullInv

LEMMA SourceFailsFull ==
    ASSUME TypeOK, PartsInv, FullInv, SourceFails
    PROVE  FullInv'
  <1>1. size' = size /\ Total' = Total /\ Fragmented' = Fragmented
    BY DEF SourceFails, Total, Fragmented
  <1>2. Numbered'
    <2>1. UNCHANGED <<sent, part, done>> BY DEF SourceFails, channel, upload
    <2>2. pc' \in {"send", "record"} => pc' = pc BY DEF SourceFails
    <2> QED BY <1>1, <2>1, <2>2 DEF FullInv, Numbered
  <1>3. Uncut' => Uncut BY DEF Uncut, SourceFails, Fault, channel, upload,
    purge, history
  <1>4. RowsFull => RowsFull'
    BY <1>1 DEF RowsFull, Complete, SourceFails, channel
  <1>5. Uncut' /\ ChannelFull => ChannelFull'
    <2>1. UNCHANGED <<visible, part>> /\ pc' = "failed" BY DEF SourceFails, channel
    <2>2. Complete(visible) BY RecordComplete DEF SourceFails, FullInv
    <2> QED BY <1>1, <2>1, <2>2 DEF ChannelFull, Complete
  <1> QED BY <1>2, <1>3, <1>4, <1>5 DEF FullInv

LEMMA HidePartFull ==
    ASSUME TypeOK, PartsInv, FullInv, HidePart
    PROVE  FullInv'
  <1>1. size' = size /\ Total' = Total /\ Fragmented' = Fragmented
    BY DEF HidePart, Total, Fragmented
  <1>2. Numbered'
    <2>1. UNCHANGED <<sent, part, done>> BY DEF HidePart, channel, upload
    <2>2. pc' \in {"send", "record"} => pc' = pc BY DEF HidePart
    <2> QED BY <1>1, <2>1, <2>2 DEF FullInv, Numbered
  <1>3. Uncut' => Uncut BY DEF Uncut, HidePart, NextToHide, channel, upload,
    purge, history
  <1>4. RowsFull => RowsFull'
    BY <1>1 DEF RowsFull, Complete, HidePart
  <1>5. Uncut' /\ ChannelFull => ChannelFull'
    BY <1>1 DEF ChannelFull, HidePart
  <1> QED BY <1>2, <1>3, <1>4, <1>5 DEF FullInv

LEMMA HideFailsFull ==
    ASSUME TypeOK, PartsInv, FullInv, HideFails
    PROVE  FullInv'
  <1>1. size' = size /\ Total' = Total /\ Fragmented' = Fragmented
    BY DEF HideFails, Total, Fragmented
  <1>2. Numbered'
    <2>1. UNCHANGED <<sent, part, done>> BY DEF HideFails, channel, upload
    <2>2. pc' \in {"send", "record"} => pc' = pc BY DEF HideFails
    <2> QED BY <1>1, <2>1, <2>2 DEF FullInv, Numbered
  <1>3. ~Uncut' BY DEF HideFails, Fault, Uncut
  <1> QED BY <1>2, <1>3 DEF FullInv

LEMMA HiddenFull ==
    ASSUME TypeOK, PartsInv, FullInv, Hidden
    PROVE  FullInv'
  <1>1. size' = size /\ Total' = Total /\ Fragmented' = Fragmented
    BY DEF Hidden, Total, Fragmented
  <1>2. Numbered'
    <2>1. UNCHANGED <<sent, part, done>> BY DEF Hidden, channel, upload
    <2>2. pc' \in {"send", "record"} => pc' = pc BY DEF Hidden
    <2> QED BY <1>1, <2>1, <2>2 DEF FullInv, Numbered
  <1>3. Uncut' => Uncut BY DEF Uncut, Hidden, Deleted, channel, upload, purge,
    history
  <1>4. RowsFull => RowsFull'
    <2>1. part' = part BY DEF Hidden, channel
    <2>2. hiding \in Messages BY DEF Hidden, TypeOK, StepOK, Messages
    <2>3. PICK r : r = Deleted(row[hiding]) OBVIOUS
    <2>4. r.frags = row[hiding].frags BY <2>3 DEF Deleted
    <2>5. row' = [row EXCEPT ![hiding] = r] BY <2>3 DEF Hidden
    <2>6. \A x \in Messages : row'[x].frags = row[x].frags
      BY <2>2, <2>4, <2>5 DEF TypeOK, RowsOK
    <2>7. row[hiding].status # "none"
      BY <2>2 DEF Hidden, PartsInv, Hiding, TypeOK, RowsOK
    <2>8. \A x \in Messages : row'[x].status # "none" => row[x].status # "none"
      BY <2>2, <2>5, <2>7 DEF TypeOK, RowsOK
    <2> QED BY <1>1, <2>1, <2>6, <2>8 DEF RowsFull, Complete
  <1>5. Uncut' /\ ChannelFull => ChannelFull'
    <2> SUFFICES ASSUME ChannelFull PROVE ChannelFull' OBVIOUS
    <2>1. UNCHANGED <<visible, part, sent>> /\ pc' = "done" BY DEF Hidden, channel
    <2>2. CASE Fragmented
      <3>1. visible = {} BY <2>2 DEF ChannelFull, Hidden
      <3> QED BY <2>1, <3>1 DEF ChannelFull
    <2>3. CASE ~Fragmented
      <3>1. Total = 1 BY <2>3 DEF Total
      <3>2. \A m \in visible : part[m] = 1
        BY <3>1 DEF FullInv, Numbered, TypeOK, ChannelOK
      <3>3. visible = {} \/ Complete(visible) BY <3>1, <3>2 DEF Complete
      <3> QED BY <1>1, <2>1, <3>3 DEF ChannelFull, Complete
    <2> QED BY <2>2, <2>3
  <1> QED BY <1>2, <1>3, <1>4, <1>5 DEF FullInv

LEMMA KillFull ==
    ASSUME TypeOK, PartsInv, FullInv, Kill
    PROVE  FullInv'
  <1>1. size' = size /\ Total' = Total /\ Fragmented' = Fragmented
    BY DEF Kill, Total, Fragmented
  <1>2. Numbered'
    <2>1. UNCHANGED <<sent, part, done>> BY DEF Kill, channel, upload
    <2>2. pc' \in {"send", "record"} => pc' = pc BY DEF Kill
    <2> QED BY <1>1, <2>1, <2>2 DEF FullInv, Numbered
  <1>3. Uncut' => Uncut BY DEF Uncut, Kill, Fault, Kind, channel, upload,
    purge, history
  <1>4. RowsFull => RowsFull'
    BY <1>1 DEF RowsFull, Complete, Kill, channel
  <1>5. Uncut' /\ ChannelFull => ChannelFull'
    <2> SUFFICES ASSUME Uncut', ChannelFull PROVE ChannelFull' OBVIOUS
    <2>1. UNCHANGED <<visible, part>> /\ pc' = "idle" BY DEF Kill, channel
    <2>2. pc \notin {"send", "hide"} BY DEF Kill, Fault, Kind, Uncut
    <2>3. visible = {} \/ Complete(visible)
      BY <2>2, RecordComplete DEF ChannelFull, FullInv
    <2> QED BY <1>1, <2>1, <2>3 DEF ChannelFull, Complete
  <1> QED BY <1>2, <1>3, <1>4, <1>5 DEF FullInv

LEMMA ChangeFull ==
    ASSUME TypeOK, PartsInv, FullInv, Change
    PROVE  FullInv'
  <1>1. size' = size /\ Total' = Total /\ Fragmented' = Fragmented
    BY DEF Change, Total, Fragmented
  <1>2. Numbered'
    <2>1. UNCHANGED <<sent, part, done>> BY DEF Change, channel, upload
    <2>2. pc' \in {"send", "record"} => pc' = pc BY DEF Change
    <2> QED BY <1>1, <2>1, <2>2 DEF FullInv, Numbered
  <1>3. Uncut' => Uncut BY DEF Uncut, Change, channel, upload, purge, history
  <1>4. RowsFull => RowsFull'
    BY <1>1 DEF RowsFull, Complete, Change, channel
  <1>5. Uncut' /\ ChannelFull => ChannelFull'
    BY <1>1 DEF ChannelFull, Complete, Change, channel, purge
  <1> QED BY <1>2, <1>3, <1>4, <1>5 DEF FullInv

LEMMA FullBegins == Init => FullInv
  <1> SUFFICES ASSUME Init PROVE FullInv OBVIOUS
  <1>1. Numbered BY DEF Init, Numbered
  <1>2. RowsFull /\ ChannelFull BY DEF Init, RowsFull, ChannelFull, NoRow
  <1> QED BY <1>1, <1>2 DEF FullInv

LEMMA FullKept == TypeOK /\ PartsInv /\ FullInv /\ [Next]_vars => FullInv'
  <1> SUFFICES ASSUME TypeOK, PartsInv, FullInv, [Next]_vars PROVE FullInv' OBVIOUS
  <1>1. CASE Sync
    BY <1>1, ListFull, PromoteFull, SweepFull, HideFull, UploadFull, LeaveFull,
       SendPartFull, RetryFull, GiveUpFull, RecordFull, HidePartFull, HiddenFull
    DEF Sync
  <1>2. CASE Fails
    BY <1>2, ListFailsFull, PartHalfDoneFull, PartFailsFull, SourceFailsFull,
       RecordFailsFull, HideFailsFull, KillFull DEF Fails
  <1>3. CASE Change BY <1>3, ChangeFull
  <1>4. CASE UNCHANGED vars
    BY <1>4 DEF vars, channel, upload, purge, history, FullInv, Numbered, Uncut,
                RowsFull, ChannelFull, Complete, Total, Fragmented
  <1> QED BY <1>1, <1>2, <1>3, <1>4 DEF Next

LEMMA FullLacksNothing == TypeOK /\ PartsInv /\ FullInv => LacksOnlyIfCut
  <1> SUFFICES ASSUME TypeOK, PartsInv, FullInv, Uncut, NEW k \in Active
               PROVE  ~Lacks(k)
    BY DEF LacksOnlyIfCut, Uncut
  <1>1. k \in Messages /\ row[k].status = "active" BY DEF Active
  <1>2. CASE Fragmented
    <2>1. Complete(row[k].frags) BY <1>1, <1>2 DEF FullInv, RowsFull
    <2> QED BY <1>2, <2>1 DEF Lacks, Has, Content, Complete
  <1>3. CASE ~Fragmented
    <2>1. k \in 1..sent BY <1>1 DEF PartsInv, Known, TypeOK, RowsOK
    <2>2. Total = 1 BY <1>3 DEF Total
    <2>3. part[k] = 1 BY <2>1, <2>2 DEF FullInv, Numbered
    <2> QED BY <1>3, <2>2, <2>3 DEF Lacks, Has, Content
  <1> QED BY <1>2, <1>3

-----------------------------------------------------------------------------
(* No part is there twice unless the file was sent again.  A new upload      *)
(* begins only when nothing shows, for what shows has a row, the one under   *)
(* which a listing knows it, and that row is not deleted.                    *)

Distinct(S) == \A l, m \in S : part[l] = part[m] => l = m
Clean  == wrong \cap {"cut", "missed", "source"} = {}
OnceRows == Distinct(visible) /\ \A k \in Messages : Distinct(row[k].frags)
Sending  == pc \in {"send", "record"} =>
    /\ visible = done
    /\ \A m \in done : /\ part[m] <= Cardinality(done) /\ row[m].of = "none"
                       /\ part[m] = 1 => \A x \in done : m <= x
\* The row under which a listing knows what shows.
Headed ==
    /\ pc \in {"promote", "sweep", "decide"} =>
         /\ seen = NativeID(visible) /\ (seen = {} => visible = {})
         /\ \A k \in seen : row[k].status = "active"
    /\ pc \notin {"send", "record", "hide"} =>
         \A k \in NativeID(visible) : row[k].status # "deleted"
\* Only after a hiding that failed does a listing name the file after another part.
Strays == \A k \in Messages : row[k].of # "none" /\ part[k] # 1 =>
    /\ pc \notin {"send", "record", "hide"}
    /\ row[k].status = "active" /\ row[k].of # "file" /\ k \in NativeID(visible)
Taking == pc = "hide" =>
    row[hiding].status = "active" /\ visible \subseteq todo /\ todo \subseteq row[hiding].frags
OnceNow == pc # "failed" /\ OnceRows /\ Sending /\ Headed /\ Strays /\ Taking
OnceInv == Fragmented /\ Clean => OnceNow

\* A listing names a file after one of its messages.
LEMMA Heads ==
    ASSUME TypeOK, NEW k \in NativeID(visible)
    PROVE  /\ k \in visible /\ k \in Messages
           /\ \A l \in NativeID(visible) : l = k
  <1>1. k \in visible BY DEF NativeID, Newest, Oldest, First
  <1>2. visible \subseteq Messages /\ visible \subseteq Int
    BY DEF TypeOK, ChannelOK, Messages
  <1>3. ASSUME NEW l \in NativeID(visible) PROVE l = k
    <2>1. l \in visible BY <1>3 DEF NativeID, Newest, Oldest, First
    <2>2. l <= k /\ k <= l BY <1>1, <1>3, <2>1 DEF NativeID, Newest, Oldest, First
    <2> QED BY <1>1, <1>2, <2>1, <2>2
  <1> QED BY <1>1, <1>2, <1>3

\* It depends on the captions only.
LEMMA SameHeads ==
    ASSUME UNCHANGED <<size, part, visible>>
    PROVE  NativeID(visible)' = NativeID(visible) /\ Fragmented' = Fragmented
  BY DEF NativeID, Newest, Oldest, First, Fragmented

LEMMA ListOnce ==
    ASSUME TypeOK, PartsInv, FullInv, OnceNow, Fragmented, Clean', List
    PROVE  OnceNow'
  <1>1. /\ UNCHANGED <<size, sent, part, visible, done, todo, hiding>>
        /\ pc' = "promote" /\ pc \in {"idle", "done"}
    BY DEF List, channel, upload, purge
  <1>2. OnceRows /\ Headed /\ Strays BY DEF OnceNow
  <1>3. NativeID(visible)' = NativeID(visible) BY <1>1, SameHeads
  <1>4. CASE visible = {} /\ UNCHANGED row /\ seen' = {}
    <2>1. NativeID(visible) = {} BY <1>4, Heads
    <2>2. OnceRows' BY <1>1, <1>2, <1>4 DEF OnceRows, Distinct
    <2>3. Headed' BY <1>1, <1>3, <1>4, <2>1 DEF Headed
    <2>4. Strays' BY <1>1, <1>2, <1>3, <1>4, <2>1 DEF Strays
    <2> QED BY <1>1, <2>2, <2>3, <2>4 DEF OnceNow, Sending, Taking
  <1>5. CASE \E k \in NativeID(visible) :
               row' = [row EXCEPT ![k] = Upserted(k, visible)] /\ seen' = {k}
    <2>1. PICK k \in NativeID(visible) :
               row' = [row EXCEPT ![k] = Upserted(k, visible)] /\ seen' = {k} BY <1>5
    <2>2. k \in visible /\ k \in Messages /\ NativeID(visible) = {k} BY <2>1, Heads
    <2>3. PICK u : u = Upserted(k, visible) OBVIOUS
    <2>4. /\ u.frags = visible /\ u.status = "active"
          /\ u.of = IF row[k].of = "none" THEN "orphan" ELSE row[k].of
      BY <1>1, <1>2, <2>1, <2>3 DEF Upserted, Fragments, Headed
    <2>5. row' = [row EXCEPT ![k] = u] BY <2>1, <2>3
    <2>6. row'[k] = u /\ \A j \in Messages : j # k => row'[j] = row[j]
      BY <2>2, <2>5 DEF TypeOK, RowsOK
    <2>7. OnceRows'
      <3>1. \A j \in Messages : row'[j].frags = row[j].frags \/ row'[j].frags = visible
        BY <2>4, <2>6
      <3> QED BY <1>1, <1>2, <3>1 DEF OnceRows, Distinct
    <2>8. Headed' BY <1>1, <1>3, <2>1, <2>2, <2>4, <2>6 DEF Headed
    <2>9. Strays' BY <1>1, <1>2, <1>3, <2>2, <2>4, <2>6 DEF Strays
    <2> QED BY <1>1, <2>7, <2>8, <2>9 DEF OnceNow, Sending, Taking
  <1> QED BY <1>4, <1>5 DEF List

LEMMA PromoteOnce ==
    ASSUME TypeOK, PartsInv, FullInv, OnceNow, Fragmented, Clean', Promote
    PROVE  OnceNow'
  <1>1. /\ UNCHANGED <<size, sent, part, visible, done, todo, hiding, seen>>
        /\ pc = "promote" /\ pc' = "sweep"
    BY DEF Promote, channel, upload, purge
  <1>2. OnceRows /\ Headed /\ Strays BY DEF OnceNow
  <1>3. NativeID(visible)' = NativeID(visible) BY <1>1, SameHeads
  <1>4. \A k \in Messages : /\ row'[k].status = row[k].status
                            /\ row'[k].frags = row[k].frags
                            /\ row'[k].of = IF row[k].of = "orphan" THEN "other" ELSE row[k].of
    BY DEF Promote
  <1>5. NativeID(visible) \subseteq Messages BY Heads
  <1>6. OnceRows' BY <1>1, <1>2, <1>4 DEF OnceRows, Distinct
  <1>7. Headed' BY <1>1, <1>2, <1>3, <1>4, <1>5 DEF Headed
  <1>8. Strays' BY <1>1, <1>2, <1>3, <1>4 DEF Strays
  <1> QED BY <1>1, <1>6, <1>7, <1>8 DEF OnceNow, Sending, Taking

LEMMA SweepOnce ==
    ASSUME TypeOK, PartsInv, FullInv, OnceNow, Fragmented, Clean', Sweep
    PROVE  OnceNow'
  <1>1. /\ UNCHANGED <<size, sent, part, visible, done, todo, hiding, seen>>
        /\ pc = "sweep" /\ pc' = "decide"
    BY DEF Sweep, channel, upload, purge
  <1>2. OnceRows /\ Headed /\ Strays BY DEF OnceNow
  <1>3. NativeID(visible)' = NativeID(visible) BY <1>1, SameHeads
  <1>4. \A k \in Messages : /\ k \in seen => row'[k] = row[k]
                            /\ row'[k].frags = row[k].frags
                            /\ row'[k].of = row[k].of
    BY DEF Sweep, Deleted
  <1>5. NativeID(visible) \subseteq Messages /\ seen = NativeID(visible)
    BY <1>1, <1>2, Heads DEF Headed
  <1>6. OnceRows' BY <1>1, <1>2, <1>4 DEF OnceRows, Distinct
  <1>7. Headed' BY <1>1, <1>2, <1>3, <1>4, <1>5 DEF Headed
  <1>8. Strays' BY <1>1, <1>2, <1>3, <1>4, <1>5 DEF Strays
  <1> QED BY <1>1, <1>6, <1>7, <1>8 DEF OnceNow, Sending, Taking

LEMMA HideOnce ==
    ASSUME TypeOK, PartsInv, FullInv, OnceNow, Fragmented, Clean', Hide
    PROVE  OnceNow'
  <1>1. /\ UNCHANGED <<size, sent, part, visible, row, done, seen>>
        /\ pc = "decide" /\ pc' = "hide"
    BY DEF Hide, channel, upload
  <1>2. PICK k \in Active : row[k].of = "file" /\ hiding' = k /\ todo' = Content(k)
    BY DEF Hide
  <1>3. OnceRows /\ Headed /\ Strays BY DEF OnceNow
  <1>4. k \in seen /\ row[k].frags = visible
    BY <1>1, <1>2 DEF PartsInv, Swept, Listed
  <1>5. k \in NativeID(visible) BY <1>1, <1>3, <1>4 DEF Headed
  <1>6. Taking'
    BY <1>1, <1>2, <1>4 DEF Taking, Content, Active
  <1>7. OnceRows' BY <1>1, <1>3 DEF OnceRows, Distinct
  <1>8. \A j \in Messages : row[j].of # "none" => part[j] = 1
    BY <1>2, <1>3, <1>5, Heads DEF Strays
  <1>9. Strays' BY <1>1, <1>8 DEF Strays
  <1> QED BY <1>1, <1>6, <1>7, <1>9 DEF OnceNow, Sending, Headed

LEMMA UploadOnce ==
    ASSUME TypeOK, PartsInv, FullInv, OnceNow, Fragmented, Clean', Upload
    PROVE  OnceNow'
  <1>1. /\ UNCHANGED <<size, sent, part, visible, row, seen, todo, hiding>>
        /\ pc = "decide" /\ pc' = "send" /\ done' = {} /\ Active = {}
    BY DEF Upload, Missing, channel, purge
  <1>2. OnceRows /\ Headed /\ Strays BY DEF OnceNow
  <1>3. seen \subseteq Messages BY DEF TypeOK, StepOK
  <1>4. visible = {} BY <1>1, <1>2, <1>3 DEF Headed, Active
  <1>5. \A j \in Messages : row[j].of # "none" => part[j] = 1
    BY <1>2, <1>4, Heads DEF Strays
  <1>6. OnceRows' BY <1>1, <1>2 DEF OnceRows, Distinct
  <1>7. Sending' BY <1>1, <1>4 DEF Sending
  <1>8. Strays' BY <1>1, <1>5 DEF Strays
  <1> QED BY <1>1, <1>6, <1>7, <1>8 DEF OnceNow, Headed, Taking

LEMMA SendPartOnce ==
    ASSUME TypeOK, PartsInv, FullInv, OnceNow, Fragmented, Clean', SendPart
    PROVE  OnceNow'
  <1>1. /\ UNCHANGED <<row, todo, hiding>>
        /\ pc = "send" /\ pc' \in {"send", "record"}
        /\ done' = done \cup {sent + 1} /\ visible' = visible \cup {sent + 1}
    BY DEF SendPart, Posted, purge
  <1>2. OnceRows /\ Sending /\ Strays BY DEF OnceNow
  <1>3. sent \in Nat /\ sent + 1 \in Messages /\ Cardinality(done) \in Nat /\ IsFiniteSet(done)
    BY SentType DEF SendPart, Posted, TypeOK, ChannelOK, Messages
  <1>4. PICK n : n = Cardinality(done) + 1 OBVIOUS
  <1>5. part' = [part EXCEPT ![sent + 1] = n] BY <1>4 DEF SendPart, Posted
  <1>6. part'[sent + 1] = n /\ \A m \in 1..sent : part'[m] = part[m]
    BY <1>3, <1>5 DEF TypeOK, ChannelOK, Messages
  <1>7. done \subseteq 1..sent /\ visible = done /\ sent + 1 \notin done
    BY <1>1, <1>2, <1>3 DEF TypeOK, StepOK, Sending
  <1>8. Cardinality(done') = n BY <1>1, <1>3, <1>4, <1>7, FS_AddElement
  <1>9. \A m \in done : part[m] \in Nat /\ part[m] <= Cardinality(done)
    BY <1>1, <1>2, <1>7 DEF Sending, TypeOK, ChannelOK, Messages
  <1>10. \A k \in Messages : /\ row[k].frags \subseteq 1..sent
                             /\ row[k].of # "none" => k \in 1..sent
    BY DEF PartsInv, Known
  <1>11. OnceRows'
    <2>1. Distinct(visible)'
      <3> SUFFICES ASSUME NEW l \in done', NEW m \in done', part'[l] = part'[m] PROVE l = m
        BY <1>1, <1>7 DEF Distinct
      <3>1. CASE l \in done /\ m \in done
        BY <1>2, <1>6, <1>7, <3>1 DEF OnceRows, Distinct
      <3>2. CASE l = sent + 1 /\ m \in done
        BY <1>3, <1>4, <1>6, <1>7, <1>9, <3>2
      <3>3. CASE l \in done /\ m = sent + 1
        BY <1>3, <1>4, <1>6, <1>7, <1>9, <3>3
      <3> QED BY <1>1, <3>1, <3>2, <3>3
    <2>2. ASSUME NEW k \in Messages PROVE Distinct(row[k].frags)'
      <3>1. Distinct(row[k].frags) BY <1>2 DEF OnceRows
      <3> QED BY <1>1, <1>6, <1>10, <3>1 DEF Distinct
    <2> QED BY <2>1, <2>2 DEF OnceRows
  <1>12. Sending'
    <2> SUFFICES ASSUME NEW m \in done'
                 PROVE  /\ part'[m] <= n /\ row[m].of = "none"
                        /\ part'[m] = 1 => \A x \in done' : m <= x
      BY <1>1, <1>7, <1>8 DEF Sending
    <2>1. CASE m \in done
      <3>1. part'[m] = part[m] /\ part[m] <= n /\ row[m].of = "none"
        BY <1>1, <1>2, <1>3, <1>4, <1>6, <1>7, <1>9, <2>1 DEF Sending
      <3>2. part[m] = 1 => \A x \in done : m <= x BY <1>1, <1>2, <2>1 DEF Sending
      <3>3. m <= sent + 1 BY <1>3, <1>7, <2>1
      <3> QED BY <1>1, <3>1, <3>2, <3>3
    <2>2. CASE m = sent + 1
      <3>1. row[m].of = "none" BY <1>3, <1>10, <2>2
      <3>2. n = 1 => done = {} BY <1>3, <1>4, FS_EmptySet
      <3>3. n \in Nat BY <1>3, <1>4
      <3> QED BY <1>1, <1>3, <1>6, <2>2, <3>1, <3>2, <3>3
    <2> QED BY <1>1, <2>1, <2>2
  <1>13. Strays' BY <1>1, <1>2, <1>6, <1>10 DEF Strays
  <1> QED BY <1>1, <1>11, <1>12, <1>13 DEF OnceNow, Headed, Taking

\* What has been sent in full is known by the message of its first part, which
\* is the oldest.
LEMMA SentHead ==
    ASSUME TypeOK, FullInv, OnceNow, Fragmented, pc = "record"
    PROVE  \A j \in NativeID(visible) : j \in done /\ j \in Oldest(done) /\ row[j].of = "none"
  <1> SUFFICES ASSUME NEW j \in NativeID(visible)
               PROVE  j \in done /\ j \in Oldest(done) /\ row[j].of = "none" OBVIOUS
  <1>1. Sending BY DEF OnceNow
  <1>2. j \in done /\ visible = done BY <1>1, Heads DEF Sending
  <1>3. Total \in Nat /\ Cardinality(done) = Total /\ IsFiniteSet(done)
    BY TotalType, SentType DEF FullInv, Numbered
  <1>4. Cardinality(done) # 0 BY <1>2, <1>3, FS_EmptySet
  <1>5. \E m \in done : part[m] = 1
    <2>1. 1 \in 1..Cardinality(done) BY <1>3, <1>4
    <2> QED BY <2>1 DEF FullInv, Numbered
  <1>6. First(visible) # {} BY <1>2, <1>5 DEF First
  <1>7. part[j] = 1 BY <1>6 DEF NativeID, Newest, First
  <1> QED BY <1>1, <1>2, <1>7 DEF Sending, Oldest

LEMMA RecordOnce ==
    ASSUME TypeOK, PartsInv, FullInv, OnceNow, Fragmented, Clean', Record
    PROVE  OnceNow'
  <1>1. /\ UNCHANGED <<size, sent, part, visible, done, todo, hiding>>
        /\ pc = "record" /\ pc' = "done"
    BY DEF Record, channel, upload, purge
  <1>2. OnceRows /\ Sending /\ Strays BY DEF OnceNow
  <1>3. PICK k \in Oldest(done) :
          \/ row' = [row EXCEPT ![k] = Copied(IF Fragmented THEN done ELSE {})]
          \/ \E old \in Retired :
                row' = [row EXCEPT ![old] = NoRow, ![k] = Copied(row[old].frags)]
    BY DEF Record
  <1>4. k \in Messages /\ done \subseteq Int /\ visible = done
    BY <1>1, <1>2, <1>3 DEF Oldest, TypeOK, ChannelOK, StepOK, Messages, Sending
  <1>5. /\ row'[k].of = "file" /\ row'[k].status = "active"
        /\ \A x \in Messages \ {k} : row'[x] = row[x] \/ row'[x] = NoRow
        /\ \A x \in Messages :
             \/ row'[x].frags \in {done, {}}
             \/ \E y \in Messages : row'[x].frags = row[y].frags
    <2>1. CASE row' = [row EXCEPT ![k] = Copied(IF Fragmented THEN done ELSE {})]
      <3>1. PICK c : c = Copied(done) OBVIOUS
      <3>2. c.of = "file" /\ c.status = "active" /\ c.frags = done BY <3>1 DEF Copied
      <3>3. row' = [row EXCEPT ![k] = c] BY <2>1, <3>1
      <3>4. row'[k] = c /\ \A x \in Messages \ {k} : row'[x] = row[x]
        BY <1>4, <3>3 DEF TypeOK, RowsOK
      <3> QED BY <1>4, <3>2, <3>4
    <2>2. CASE \E old \in Retired :
                row' = [row EXCEPT ![old] = NoRow, ![k] = Copied(row[old].frags)]
      <3>1. PICK old \in Retired :
                row' = [row EXCEPT ![old] = NoRow, ![k] = Copied(row[old].frags)] BY <2>2
      <3>2. PICK c : c = Copied(row[old].frags) OBVIOUS
      <3>3. c.of = "file" /\ c.status = "active" /\ c.frags = row[old].frags
        BY <3>2 DEF Copied
      <3>4. row' = [row EXCEPT ![old] = NoRow, ![k] = c] BY <3>1, <3>2
      <3>5. row'[k] = c /\ \A x \in Messages \ {k} : row'[x] = row[x] \/ row'[x] = NoRow
        BY <1>4, <3>4 DEF TypeOK, RowsOK
      <3>6. NoRow.frags = {} /\ old \in Messages BY DEF NoRow, Retired
      <3> QED BY <1>4, <3>3, <3>5, <3>6
    <2> QED BY <1>3, <2>1, <2>2
  <1>6. NoRow.of = "none" BY DEF NoRow
  <1>7. OnceRows'
    <2>1. Distinct(done) /\ Distinct({}) /\ \A y \in Messages : Distinct(row[y].frags)
      BY <1>2, <1>4 DEF OnceRows, Distinct
    <2> QED BY <1>1, <1>4, <1>5, <2>1 DEF OnceRows, Distinct
  <1>8. \A j \in NativeID(visible) : j = k
    <2> SUFFICES ASSUME NEW j \in NativeID(visible) PROVE j = k OBVIOUS
    <2>1. j \in Oldest(done) BY <1>1, SentHead
    <2> QED BY <1>3, <1>4, <2>1 DEF Oldest
  <1>9. NativeID(visible)' = NativeID(visible) BY <1>1, SameHeads
  <1>10. Headed' BY <1>1, <1>5, <1>8, <1>9 DEF Headed
  <1>11. part[k] = 1
    <2>1. Total \in Nat /\ Cardinality(done) = Total /\ IsFiniteSet(done)
      BY <1>1, TotalType, SentType DEF FullInv, Numbered
    <2>2. k \in done BY <1>3 DEF Oldest
    <2>3. Cardinality(done) # 0 BY <2>1, <2>2, FS_EmptySet
    <2>4. 1 \in 1..Cardinality(done) BY <2>1, <2>3
    <2>5. PICK m \in done : part[m] = 1 BY <1>1, <2>4 DEF FullInv, Numbered
    <2>6. m <= k /\ k <= m BY <1>1, <1>2, <1>3, <2>2, <2>5 DEF Sending, Oldest
    <2> QED BY <1>4, <2>2, <2>5, <2>6
  <1>12. Strays' BY <1>1, <1>2, <1>5, <1>6, <1>11 DEF Strays
  <1> QED BY <1>1, <1>7, <1>10, <1>12 DEF OnceNow, Sending, Taking

\* Also when the row of an upload is not written.
LEMMA UnrecordedOnce ==
    ASSUME TypeOK, PartsInv, FullInv, OnceNow, Fragmented, pc = "record",
           pc' \in {"idle", "done"}, UNCHANGED <<size, sent, part, visible, row>>
    PROVE  OnceNow'
  <1>1. OnceRows /\ Strays BY DEF OnceNow
  <1>2. NativeID(visible)' = NativeID(visible) /\ NativeID(visible) \subseteq Messages
    BY SameHeads, Heads
  <1>3. \A j \in NativeID(visible) : row[j].status = "none"
    BY <1>2, SentHead DEF TypeOK, RowsOK
  <1>4. OnceRows' BY <1>1 DEF OnceRows, Distinct
  <1>5. Headed' BY <1>2, <1>3 DEF Headed
  <1>6. Strays' BY <1>1 DEF Strays
  <1> QED BY <1>4, <1>5, <1>6 DEF OnceNow, Sending, Taking

LEMMA RecordFailsOnce ==
    ASSUME TypeOK, PartsInv, FullInv, OnceNow, Fragmented, Clean', RecordFails
    PROVE  OnceNow'
  <1>1. /\ UNCHANGED <<size, sent, part, visible, row>>
        /\ pc = "record" /\ pc' = "done"
    BY DEF RecordFails, channel
  <1> QED BY <1>1, UnrecordedOnce

LEMMA HidePartOnce ==
    ASSUME TypeOK, PartsInv, FullInv, OnceNow, Fragmented, Clean', HidePart
    PROVE  OnceNow'
  <1>1. UNCHANGED <<part, row, hiding>> /\ pc = "hide" /\ pc' = pc
    BY DEF HidePart
  <1>2. PICK m \in NextToHide : visible' = visible \ {m} /\ todo' = todo \ {m}
    BY DEF HidePart
  <1>3. OnceRows /\ Strays /\ Taking BY DEF OnceNow
  <1>4. OnceRows' BY <1>1, <1>2, <1>3 DEF OnceRows, Distinct
  <1>5. Strays' BY <1>1, <1>3 DEF Strays
  <1>6. Taking' BY <1>1, <1>2, <1>3 DEF Taking
  <1> QED BY <1>1, <1>4, <1>5, <1>6 DEF OnceNow, Sending, Headed

\* When hiding stops in the middle, what still shows has the row that was to be
\* hidden, or none.
LEMMA UnhiddenOnce ==
    ASSUME TypeOK, PartsInv, FullInv, OnceNow, Fragmented, pc = "hide",
           pc' \in {"idle", "done"}, UNCHANGED <<size, sent, part, visible, row>>
    PROVE  OnceNow'
  <1>1. OnceRows /\ Strays /\ Taking BY DEF OnceNow
  <1>2. NativeID(visible)' = NativeID(visible) /\ NativeID(visible) \subseteq Messages
    BY SameHeads, Heads
  <1>3. /\ hiding \in Messages /\ row[hiding].of = "file"
        /\ hiding \in row[hiding].frags
    BY DEF PartsInv, Hiding, Content, TypeOK, StepOK, Messages
  <1>4. part[hiding] = 1 BY <1>1, <1>3 DEF Strays
  <1>5. ASSUME NEW j \in NativeID(visible) PROVE row[j].status # "deleted"
    <2>1. j \in row[hiding].frags /\ j \in Messages BY <1>1, Heads DEF Taking
    <2>2. CASE part[j] = 1
      <3>1. j = hiding BY <1>1, <1>3, <1>4, <2>1, <2>2 DEF OnceRows, Distinct
      <3> QED BY <1>1, <3>1 DEF Taking
    <2>3. CASE part[j] # 1
      <3>1. row[j].of = "none" BY <1>1, <2>1, <2>3 DEF Strays
      <3> QED BY <2>1, <3>1 DEF TypeOK, RowsOK
    <2> QED BY <2>2, <2>3
  <1>6. OnceRows' BY <1>1 DEF OnceRows, Distinct
  <1>7. Headed' BY <1>2, <1>5 DEF Headed
  <1>8. Strays' BY <1>1 DEF Strays
  <1> QED BY <1>6, <1>7, <1>8 DEF OnceNow, Sending, Taking

LEMMA HideFailsOnce ==
    ASSUME TypeOK, PartsInv, FullInv, OnceNow, Fragmented, Clean', HideFails
    PROVE  OnceNow'
  <1>1. /\ UNCHANGED <<size, sent, part, visible, row>>
        /\ pc = "hide" /\ pc' = "done"
    BY DEF HideFails, channel
  <1> QED BY <1>1, UnhiddenOnce

LEMMA HiddenOnce ==
    ASSUME TypeOK, PartsInv, FullInv, OnceNow, Fragmented, Clean', Hidden
    PROVE  OnceNow'
  <1>1. /\ UNCHANGED <<size, sent, part, visible, done, todo>>
        /\ pc = "hide" /\ pc' = "done" /\ todo = {}
    BY DEF Hidden, channel, upload
  <1>2. OnceRows /\ Strays /\ Taking BY DEF OnceNow
  <1>3. visible = {} BY <1>1, <1>2 DEF Taking
  <1>4. \A x \in Messages : row'[x].frags = row[x].frags /\ row'[x].of = row[x].of
    <2>1. hiding \in Messages BY <1>1 DEF TypeOK, StepOK, Messages
    <2>2. PICK r : r = Deleted(row[hiding]) OBVIOUS
    <2>3. r.frags = row[hiding].frags /\ r.of = row[hiding].of BY <2>2 DEF Deleted
    <2>4. row' = [row EXCEPT ![hiding] = r] BY <2>2 DEF Hidden
    <2> QED BY <2>1, <2>3, <2>4 DEF TypeOK, RowsOK
  <1>5. OnceRows' BY <1>1, <1>2, <1>4 DEF OnceRows, Distinct
  <1>6. NativeID(visible)' = NativeID(visible) /\ NativeID(visible) = {}
    BY <1>1, <1>3, SameHeads, Heads
  <1>7. Headed' BY <1>1, <1>6 DEF Headed
  <1>8. Strays' BY <1>1, <1>2, <1>4 DEF Strays
  <1> QED BY <1>1, <1>5, <1>7, <1>8 DEF OnceNow, Sending, Taking

\* A step that changes neither the channel nor the rows, between two steps of
\* equal rank.
LEMMA StillOnce ==
    ASSUME TypeOK, OnceNow, UNCHANGED <<size, part, visible, row>>,
           \/ UNCHANGED <<pc, seen, done, todo, hiding>>
           \/ pc \in {"promote", "sweep", "decide"} /\ pc' \in {"idle", "done"}
    PROVE  OnceNow'
  <1>1. pc # "failed" /\ OnceRows /\ Sending /\ Headed /\ Strays /\ Taking BY DEF OnceNow
  <1>2. NativeID(visible)' = NativeID(visible) BY SameHeads
  <1>3. OnceRows' BY <1>1 DEF OnceRows, Distinct
  <1>4. Sending' BY <1>1 DEF Sending
  <1>5. Headed' BY <1>1, <1>2 DEF Headed
  <1>6. Strays' BY <1>1, <1>2 DEF Strays
  <1>7. Taking' BY <1>1 DEF Taking
  <1> QED BY <1>1, <1>3, <1>4, <1>5, <1>6, <1>7 DEF OnceNow

LEMMA KillOnce ==
    ASSUME TypeOK, PartsInv, FullInv, OnceNow, Fragmented, Clean', Kill
    PROVE  OnceNow'
  <1>1. UNCHANGED <<size, sent, part, visible, row>> /\ pc' = "idle"
    BY DEF Kill, channel
  <1>2. pc \notin {"send", "failed", "idle", "done"}
    BY DEF Kill, Fault, Kind, Clean, OnceNow
  <1>3. pc \in {"promote", "sweep", "decide", "record", "hide"} BY <1>2 DEF TypeOK, StepOK
  <1> QED BY <1>1, <1>3, UnrecordedOnce, UnhiddenOnce, StillOnce

LEMMA OnceBegins == Init => OnceInv
  <1> SUFFICES ASSUME Init PROVE OnceNow BY DEF OnceInv
  <1>1. \A k \in Messages : row[k].of = "none" /\ row[k].frags = {} BY DEF Init, NoRow
  <1>2. visible = {} /\ pc = "idle" BY DEF Init
  <1>3. NativeID(visible) = {} BY <1>2 DEF NativeID, Newest, Oldest, First
  <1> QED BY <1>1, <1>2, <1>3 DEF OnceNow, OnceRows, Distinct, Sending, Headed, Strays, Taking

LEMMA OnceKept == TypeOK /\ PartsInv /\ FullInv /\ OnceInv /\ [Next]_vars => OnceInv'
  <1> SUFFICES ASSUME TypeOK, PartsInv, FullInv, OnceInv, [Next]_vars, Fragmented', Clean'
               PROVE  OnceNow' BY DEF OnceInv
  <1>1. size' = size /\ wrong \subseteq wrong'
    <2>1. CASE Sync
      BY <2>1 DEF Sync, List, Promote, Sweep, Hide, Upload, Leave, SendPart, Retry, GiveUp,
         Record, HidePart, Hidden, history
    <2>2. CASE Fails
      BY <2>2 DEF Fails, ListFails, PartHalfDone, PartFails, SourceFails, RecordFails,
                  HideFails, Kill, Fault
    <2>3. CASE Change BY <2>3 DEF Change
    <2>4. CASE UNCHANGED vars BY <2>4 DEF vars, history
    <2> QED BY <2>1, <2>2, <2>3, <2>4 DEF Next
  <1>2. Fragmented /\ OnceNow BY <1>1 DEF OnceInv, Clean, Fragmented
  <1>3. CASE Leave
    <2>1. UNCHANGED <<size, part, visible, row>> /\ pc = "decide" /\ pc' = "done"
      BY <1>3 DEF Leave, channel
    <2> QED BY <1>2, <2>1, StillOnce
  <1>4. CASE Retry \/ GiveUp BY <1>2, <1>4 DEF Retry, GiveUp, OnceNow
  <1>5. CASE ListFails \/ PartHalfDone \/ PartFails \/ SourceFails
    BY <1>5 DEF ListFails, PartHalfDone, PartFails, SourceFails, Fault, Clean
  <1>6. CASE Change
    <2>1. UNCHANGED <<size, part, visible, row, pc, seen, done, todo, hiding>>
      BY <1>6 DEF Change, channel, upload, purge
    <2> QED BY <1>2, <2>1, StillOnce
  <1>7. CASE UNCHANGED vars
    <2>1. UNCHANGED <<size, part, visible, row, pc, seen, done, todo, hiding>>
      BY <1>7 DEF vars, channel, upload, purge
    <2> QED BY <1>2, <2>1, StillOnce
  <1>8. CASE Sync
    BY <1>2, <1>3, <1>4, <1>8, ListOnce, PromoteOnce, SweepOnce, HideOnce, UploadOnce,
       SendPartOnce, RecordOnce, HidePartOnce, HiddenOnce DEF Sync
  <1>9. CASE Fails
    BY <1>2, <1>5, <1>9, RecordFailsOnce, HideFailsOnce, KillOnce DEF Fails
  <1> QED BY <1>6, <1>7, <1>8, <1>9 DEF Next

-----------------------------------------------------------------------------
(* Syncs that nothing disturbs.  Between them there is nothing, or one copy   *)
(* whose row is the one under which a listing finds it.                       *)

Nothing == visible = {} /\ Active = {}
Copy(k) == /\ Active = {k} /\ row[k].of = "file" /\ k \in visible
           /\ Fragmented \/ visible = {k}
OneCopy == \E k \in Messages : Copy(k)
MirrorNow ==
    /\ wrong = {} /\ pc # "failed"
    /\ \A k \in Messages : row[k].of \in {"none", "file"}
    /\ pc \in {"idle", "done", "promote", "sweep", "decide"} => Nothing \/ OneCopy
    /\ pc \in {"promote", "sweep", "decide"} => seen = Active
    /\ pc = "done" => IF goal THEN OneCopy ELSE Nothing
    /\ pc \in {"send", "record"} => goal /\ Active = {} /\ visible = done
    /\ pc = "hide" => ~goal /\ Active = {hiding} /\ visible \subseteq todo
MirrorInv == faults = 0 => MirrorNow

\* The row of the only copy is the one under which a listing finds it.
LEMMA CopyHead ==
    ASSUME TypeOK, OnceInv, MirrorNow, NEW k \in Messages, Copy(k)
    PROVE  \A j \in NativeID(visible) : j = k
  <1> SUFFICES ASSUME NEW j \in NativeID(visible) PROVE j = k OBVIOUS
  <1>1. j \in visible /\ j \in Messages BY Heads
  <1>2. CASE ~Fragmented BY <1>1, <1>2 DEF Copy
  <1>3. CASE Fragmented
    <2>1. Distinct(visible) /\ Strays
      BY <1>3 DEF MirrorNow, OnceInv, Clean, OnceNow, OnceRows
    <2>2. part[k] = 1 /\ k \in visible BY <2>1 DEF Strays, Copy
    <2>3. First(visible) # {} BY <2>2 DEF First
    <2>4. part[j] = 1 BY <1>3, <2>3 DEF NativeID, Newest, First
    <2> QED BY <1>1, <2>1, <2>2, <2>4 DEF Distinct
  <1> QED BY <1>2, <1>3

\* Steps that leave the messages and which rows are active leave the copy.
LEMMA CopyStays ==
    ASSUME UNCHANGED <<size, visible>>, Active' = Active,
           \A k \in Active : row'[k].of = row[k].of
    PROVE  (Nothing' <=> Nothing) /\ (OneCopy' <=> OneCopy)
  <1>1. Fragmented' = Fragmented BY DEF Fragmented
  <1>2. \A k \in Messages : Copy(k)' <=> Copy(k) BY <1>1 DEF Copy
  <1> QED BY <1>2 DEF Nothing, OneCopy

LEMMA ListMirror ==
    ASSUME TypeOK, OnceInv, MirrorNow, List, wrong' = {}
    PROVE  MirrorNow'
  <1>1. UNCHANGED <<size, visible>> /\ pc' = "promote" /\ pc \in {"idle", "done"}
    BY DEF List, channel
  <1>2. \A k \in Messages : row[k].of \in {"none", "file"} BY DEF MirrorNow
  <1>3. CASE visible = {} /\ UNCHANGED row /\ seen' = {}
    <2>1. Nothing BY <1>1, <1>3 DEF MirrorNow, OneCopy, Copy
    <2>2. Active' = Active BY <1>3 DEF Active
    <2>3. Nothing' BY <1>1, <1>3, <2>1, <2>2 DEF Nothing
    <2> QED BY <1>1, <1>2, <1>3, <2>1, <2>2, <2>3 DEF MirrorNow, Nothing
  <1>4. CASE \E k \in NativeID(visible) :
               row' = [row EXCEPT ![k] = Upserted(k, visible)] /\ seen' = {k}
    <2>1. PICK k \in NativeID(visible) :
               row' = [row EXCEPT ![k] = Upserted(k, visible)] /\ seen' = {k} BY <1>4
    <2>2. k \in visible /\ k \in Messages BY <2>1, Heads
    <2>3. PICK c \in Messages : Copy(c) BY <1>1, <2>2 DEF MirrorNow, Nothing, OneCopy
    <2>4. Active = {k} /\ row[k].of = "file" /\ row[k].status = "active"
      <3>1. c = k BY <2>1, <2>3, CopyHead
      <3> QED BY <2>3, <3>1 DEF Copy, Active
    <2>5. PICK u : u = Upserted(k, visible) OBVIOUS
    <2>6. u.of = "file" /\ u.status = "active" BY <2>4, <2>5 DEF Upserted
    <2>7. row' = [row EXCEPT ![k] = u] BY <2>1, <2>5
    <2>8. row'[k] = u /\ \A x \in Messages \ {k} : row'[x] = row[x]
      BY <2>2, <2>7 DEF TypeOK, RowsOK
    <2>9. Active' = Active BY <2>4, <2>6, <2>8 DEF Active
    <2>10. \A x \in Messages : row'[x].of = row[x].of BY <2>4, <2>6, <2>8
    <2>11. OneCopy'
      <3>1. OneCopy BY <2>3 DEF OneCopy
      <3>2. \A x \in Active : row'[x].of = row[x].of BY <2>10 DEF Active
      <3> QED BY <1>1, <2>9, <3>1, <3>2, CopyStays
    <2> QED BY <1>1, <1>2, <2>1, <2>4, <2>9, <2>10, <2>11 DEF MirrorNow
  <1> QED BY <1>3, <1>4 DEF List

LEMMA PromoteMirror ==
    ASSUME TypeOK, OnceInv, MirrorNow, Promote, wrong' = {}
    PROVE  MirrorNow'
  <1>1. UNCHANGED <<size, visible, seen>> /\ pc = "promote" /\ pc' = "sweep"
    BY DEF Promote, channel
  <1>2. \A k \in Messages : row[k].of \in {"none", "file"} BY DEF MirrorNow
  <1>3. \A k \in Messages : row'[k].of = row[k].of /\ row'[k].status = row[k].status
    BY <1>2 DEF Promote
  <1>4. Active' = Active BY <1>3 DEF Active
  <1>5. (Nothing' <=> Nothing) /\ (OneCopy' <=> OneCopy)
    <2>1. \A k \in Active : row'[k].of = row[k].of BY <1>3 DEF Active
    <2> QED BY <1>1, <1>4, <2>1, CopyStays
  <1> QED BY <1>1, <1>2, <1>3, <1>4, <1>5 DEF MirrorNow

LEMMA SweepMirror ==
    ASSUME TypeOK, OnceInv, MirrorNow, Sweep, wrong' = {}
    PROVE  MirrorNow'
  <1>1. UNCHANGED <<size, visible, seen>> /\ pc = "sweep" /\ pc' = "decide"
    BY DEF Sweep, channel
  <1>2. (\A k \in Messages : row[k].of \in {"none", "file"}) /\ seen = Active
    BY <1>1 DEF MirrorNow
  <1>3. \A k \in Messages : row'[k].of = row[k].of /\ row'[k].status = row[k].status
    BY <1>2 DEF Sweep, Active
  <1>4. Active' = Active BY <1>3 DEF Active
  <1>5. (Nothing' <=> Nothing) /\ (OneCopy' <=> OneCopy)
    <2>1. \A k \in Active : row'[k].of = row[k].of BY <1>3 DEF Active
    <2> QED BY <1>1, <1>4, <2>1, CopyStays
  <1> QED BY <1>1, <1>2, <1>3, <1>4, <1>5 DEF MirrorNow

LEMMA HideMirror ==
    ASSUME TypeOK, PartsInv, MirrorNow, Hide, wrong' = {}
    PROVE  MirrorNow'
  <1>1. /\ UNCHANGED <<size, visible, row>> /\ ~goal /\ goal' = goal
        /\ pc = "decide" /\ pc' = "hide"
    BY DEF Hide, channel
  <1>2. PICK k \in Active : row[k].of = "file" /\ hiding' = k /\ todo' = Content(k)
    BY DEF Hide
  <1>3. PICK c \in Messages : Copy(c) BY <1>1, <1>2 DEF MirrorNow, Nothing, OneCopy
  <1>4. Active = {k} /\ (Fragmented \/ visible = {k}) BY <1>2, <1>3 DEF Copy
  <1>5. visible \subseteq todo'
    <2>1. CASE Fragmented
      <3>1. row[k].frags = visible BY <1>1, <1>2, <2>1 DEF PartsInv, Swept, Listed
      <3> QED BY <1>2, <2>1, <3>1 DEF Content
    <2>2. CASE ~Fragmented BY <1>2, <1>4, <2>2 DEF Content
    <2> QED BY <2>1, <2>2
  <1>6. Active' = {hiding'} BY <1>1, <1>2, <1>4 DEF Active
  <1> QED BY <1>1, <1>5, <1>6 DEF MirrorNow

LEMMA UploadMirror ==
    ASSUME TypeOK, MirrorNow, Upload, wrong' = {}
    PROVE  MirrorNow'
  <1>1. /\ UNCHANGED <<size, visible, row>> /\ goal /\ goal' = goal
        /\ pc = "decide" /\ pc' = "send" /\ Active = {} /\ done' = {}
    BY DEF Upload, Missing, channel
  <1>2. Nothing BY <1>1 DEF MirrorNow, OneCopy, Copy
  <1>3. Active' = Active BY <1>1 DEF Active
  <1> QED BY <1>1, <1>2, <1>3 DEF MirrorNow, Nothing

LEMMA LeaveMirror ==
    ASSUME TypeOK, MirrorNow, Leave, wrong' = {}
    PROVE  MirrorNow'
  <1>1. /\ UNCHANGED <<size, visible, row>> /\ goal' = goal /\ goal \in BOOLEAN
        /\ pc = "decide" /\ pc' = "done"
    BY DEF Leave, channel, TypeOK, UserOK
  <1>2. IF goal THEN Active # {} ELSE \A k \in Active : row[k].of # "file"
    BY DEF Leave, Missing
  <1>3. IF goal THEN OneCopy ELSE Nothing
    BY <1>1, <1>2 DEF MirrorNow, Nothing, OneCopy, Copy
  <1>4. (Nothing' <=> Nothing) /\ (OneCopy' <=> OneCopy)
    <2>1. Active' = Active BY <1>1 DEF Active
    <2> QED BY <1>1, <2>1, CopyStays
  <1> QED BY <1>1, <1>3, <1>4 DEF MirrorNow

LEMMA SendPartMirror ==
    ASSUME TypeOK, MirrorNow, SendPart, wrong' = {}
    PROVE  MirrorNow'
  <1>1. /\ row' = row /\ goal' = goal /\ pc = "send" /\ pc' \in {"send", "record"}
        /\ done' = done \cup {sent + 1} /\ visible' = visible \cup {sent + 1}
    BY DEF SendPart, Posted
  <1>2. Active' = Active BY <1>1 DEF Active
  <1> QED BY <1>1, <1>2 DEF MirrorNow

LEMMA RecordMirror ==
    ASSUME TypeOK, FullInv, MirrorNow, Record, wrong' = {}
    PROVE  MirrorNow'
  <1>1. /\ UNCHANGED <<size, visible>> /\ pc = "record" /\ pc' = "done" /\ goal' = goal
        /\ goal /\ Active = {} /\ visible = done
    BY DEF Record, channel, MirrorNow
  <1>2. \A k \in Messages : row[k].of \in {"none", "file"} BY DEF MirrorNow
  <1>3. PICK k \in Oldest(done) :
          \/ row' = [row EXCEPT ![k] = Copied(IF Fragmented THEN done ELSE {})]
          \/ \E old \in Retired :
                row' = [row EXCEPT ![old] = NoRow, ![k] = Copied(row[old].frags)]
    BY DEF Record
  <1>4. k \in done /\ k \in Messages
    BY <1>3 DEF Oldest, TypeOK, ChannelOK, StepOK, Messages
  <1>5. /\ row'[k].of = "file" /\ row'[k].status = "active"
        /\ \A x \in Messages \ {k} : row'[x] = row[x] \/ row'[x] = NoRow
    <2>1. PICK fr : \/ row' = [row EXCEPT ![k] = Copied(fr)]
                    \/ \E old \in Retired : row' = [row EXCEPT ![old] = NoRow, ![k] = Copied(fr)]
      <3>1. CASE row' = [row EXCEPT ![k] = Copied(IF Fragmented THEN done ELSE {})]
        <4>1. PICK fr : fr = IF Fragmented THEN done ELSE {} OBVIOUS
        <4> QED BY <3>1, <4>1
      <3>2. CASE \E old \in Retired :
                    row' = [row EXCEPT ![old] = NoRow, ![k] = Copied(row[old].frags)]
        BY <3>2
      <3> QED BY <1>3, <3>1, <3>2
    <2>2. PICK c : c = Copied(fr) OBVIOUS
    <2>3. c.of = "file" /\ c.status = "active" BY <2>2 DEF Copied
    <2>4. row'[k] = c /\ \A x \in Messages \ {k} : row'[x] = row[x] \/ row'[x] = NoRow
      BY <1>4, <2>1, <2>2 DEF TypeOK, RowsOK
    <2> QED BY <2>3, <2>4
  <1>6. NoRow.of = "none" /\ NoRow.status = "none" BY DEF NoRow
  <1>7. Active' = {k} BY <1>1, <1>4, <1>5, <1>6 DEF Active
  <1>8. Fragmented' \/ visible' = {k}
    <2>1. CASE ~Fragmented
      <3>1. Total = 1 /\ IsFiniteSet(done) BY <2>1, SentType DEF Total
      <3>2. Cardinality(done) = 1 BY <1>1, <3>1 DEF FullInv, Numbered
      <3>3. PICK x : done = {x} BY <3>1, <3>2, FS_Singleton
      <3> QED BY <1>1, <1>4, <3>3
    <2>2. CASE Fragmented BY <1>1, <2>2 DEF Fragmented
    <2> QED BY <2>1, <2>2
  <1>9. OneCopy' BY <1>1, <1>4, <1>5, <1>7, <1>8 DEF OneCopy, Copy
  <1> QED BY <1>1, <1>2, <1>5, <1>6, <1>9 DEF MirrorNow

LEMMA HidePartMirror ==
    ASSUME TypeOK, MirrorNow, HidePart, wrong' = {}
    PROVE  MirrorNow'
  <1>1. UNCHANGED <<row, goal, hiding>> /\ pc = "hide" /\ pc' = pc
    BY DEF HidePart
  <1>2. PICK m \in NextToHide : visible' = visible \ {m} /\ todo' = todo \ {m}
    BY DEF HidePart
  <1>3. Active' = Active BY <1>1 DEF Active
  <1> QED BY <1>1, <1>2, <1>3 DEF MirrorNow

LEMMA HiddenMirror ==
    ASSUME TypeOK, MirrorNow, Hidden, wrong' = {}
    PROVE  MirrorNow'
  <1>1. /\ UNCHANGED <<size, visible, goal>> /\ pc = "hide" /\ pc' = "done"
        /\ todo = {} /\ ~goal /\ Active = {hiding} /\ visible = {}
    BY DEF Hidden, channel, MirrorNow
  <1>2. hiding \in Messages BY <1>1 DEF Active
  <1>3. PICK r : r = Deleted(row[hiding]) OBVIOUS
  <1>4. r.of = row[hiding].of /\ r.status = "deleted" BY <1>3 DEF Deleted
  <1>5. row' = [row EXCEPT ![hiding] = r] BY <1>3 DEF Hidden
  <1>6. row'[hiding] = r /\ \A x \in Messages \ {hiding} : row'[x] = row[x]
    BY <1>2, <1>5 DEF TypeOK, RowsOK
  <1>7. Nothing' BY <1>1, <1>4, <1>6 DEF Nothing, Active
  <1> QED BY <1>1, <1>4, <1>6, <1>7 DEF MirrorNow

LEMMA MirrorBegins == Init => MirrorInv
  <1> SUFFICES ASSUME Init PROVE MirrorNow BY DEF MirrorInv
  <1>1. \A k \in Messages : row[k].of = "none" /\ row[k].status = "none" BY DEF Init, NoRow
  <1>2. Nothing BY <1>1 DEF Init, Nothing, Active
  <1> QED BY <1>1, <1>2 DEF Init, MirrorNow

LEMMA MirrorKept ==
    TypeOK /\ PartsInv /\ FullInv /\ OnceInv /\ MirrorInv /\ [Next]_vars => MirrorInv'
  <1> SUFFICES ASSUME TypeOK, PartsInv, FullInv, OnceInv, MirrorInv, [Next]_vars, faults' = 0
               PROVE  MirrorNow' BY DEF MirrorInv
  <1>1. faults \in Nat BY DEF TypeOK, FaultsOK
  <1>2. CASE Fails
    <2>1. faults' = faults + 1
      BY <1>2 DEF Fails, ListFails, PartHalfDone, PartFails, SourceFails, RecordFails,
                  HideFails, Kill, Fault
    <2> QED BY <1>1, <2>1
  <1>3. CASE Sync
    <2>1. faults' = faults /\ wrong' = wrong
      BY <1>3 DEF Sync, List, Promote, Sweep, Hide, Upload, Leave, SendPart, Retry, GiveUp,
         Record, HidePart, Hidden, history
    <2>2. MirrorNow /\ wrong' = {} BY <2>1 DEF MirrorInv, MirrorNow
    <2>3. CASE Retry \/ GiveUp BY <2>2, <2>3 DEF Retry, GiveUp, MirrorNow
    <2> QED
      BY <1>3, <2>2, <2>3, ListMirror, PromoteMirror, SweepMirror, HideMirror, UploadMirror,
         LeaveMirror, SendPartMirror, RecordMirror, HidePartMirror, HiddenMirror DEF Sync
  <1>4. CASE Change \/ UNCHANGED vars
    <2>1. /\ UNCHANGED <<size, visible, row, pc, seen, done, todo, hiding, goal>>
          /\ UNCHANGED <<faults, wrong>>
      BY <1>4 DEF Change, vars, channel, upload, purge, history
    <2>2. MirrorNow BY <2>1 DEF MirrorInv
    <2>3. Active' = Active BY <2>1 DEF Active
    <2>4. (Nothing' <=> Nothing) /\ (OneCopy' <=> OneCopy) BY <2>1, <2>3, CopyStays
    <2> QED BY <2>1, <2>2, <2>3, <2>4 DEF MirrorNow
  <1> QED BY <1>2, <1>3, <1>4 DEF Next

\* Such a copy is whole, and nothing else of the file shows.
LEMMA MirrorsCalmly ==
    TypeOK /\ PartsInv /\ FullInv /\ OnceInv /\ MirrorInv => CalmMirrors
  <1> SUFFICES ASSUME TypeOK, PartsInv, FullInv, OnceInv, MirrorInv, pc = "done", faults = 0
               PROVE  IF goal THEN \E k \in Messages :
                                      /\ Active = {k} /\ row[k].of = "file" /\ Whole(k)
                                      /\ {part[m] : m \in visible} = 1..Total
                                      /\ Cardinality(visible) = Total
                      ELSE Active = {} /\ visible = {}
    BY DEF CalmMirrors
  <1>1. MirrorNow BY DEF MirrorInv
  <1>2. goal \in BOOLEAN BY DEF TypeOK, UserOK
  <1>3. CASE ~goal BY <1>1, <1>3 DEF MirrorNow, Nothing
  <1>4. CASE goal
    <2>1. PICK k \in Messages : Copy(k) BY <1>1, <1>4 DEF MirrorNow, OneCopy
    <2>2. wrong = {} BY <1>1 DEF MirrorNow
    <2>3. Uncut /\ Clean BY <2>2 DEF Uncut, Clean
    <2>4. Total \in Nat BY TotalType
    <2>5. \A m \in visible : part[m] \in 1..Total
      BY DEF FullInv, Numbered, TypeOK, ChannelOK
    <2>6. Distinct(visible) /\ Complete(visible) /\ Whole(k)
      <3>1. CASE Fragmented
        <4>1. /\ Distinct(visible) /\ Distinct(row[k].frags)
          BY <2>3, <3>1 DEF OnceInv, OnceNow, OnceRows
        <4>2. Complete(visible) BY <2>1, <2>3 DEF FullInv, ChannelFull, Copy
        <4>3. row[k].status = "active" BY <2>1 DEF Copy, Active
        <4>4. Complete(row[k].frags) BY <2>3, <3>1, <4>3 DEF FullInv, RowsFull
        <4>5. Content(k) = row[k].frags BY <3>1 DEF Content
        <4> QED BY <4>1, <4>2, <4>4, <4>5 DEF Whole, Lacks, Has, Repeats, Distinct, Complete
      <3>2. CASE ~Fragmented
        <4>1. Total = 1 /\ Content(k) = {k} /\ visible = {k}
          BY <2>1, <3>2 DEF Total, Content, Copy
        <4>2. part[k] = 1 BY <2>5, <4>1
        <4> QED BY <4>1, <4>2 DEF Whole, Lacks, Has, Repeats, Distinct, Complete
      <3> QED BY <3>1, <3>2
    <2>7. {part[m] : m \in visible} = 1..Total BY <2>5, <2>6 DEF Complete
    <2>8. Cardinality(visible) = Total
      <3> DEFINE number == [m \in visible |-> part[m]]
      <3>1. IsFiniteSet(visible)
        <4>1. sent \in Nat /\ visible \subseteq 1..sent BY DEF TypeOK, ChannelOK
        <4>2. IsFiniteSet(1..sent) BY <4>1, FS_Interval
        <4> QED BY <4>1, <4>2, FS_Subset
      <3>2. number \in Bijection(visible, 1..Total)
        <4>1. number \in [visible -> 1..Total] BY <2>5
        <4>2. \A l, m \in visible : number[l] = number[m] => l = m
          BY <2>6 DEF Distinct
        <4>3. \A i \in 1..Total : \E m \in visible : number[m] = i
          BY <2>6 DEF Complete
        <4> QED BY <4>1, <4>2, <4>3 DEF Bijection, Injection, Surjection, IsInjective
      <3>3. Cardinality(visible) = Cardinality(1..Total)
        BY <3>1, <3>2, FS_Bijection DEF ExistsBijection
      <3>4. Cardinality(1..Total) = Total BY <2>4, FS_Interval
      <3> QED BY <3>3, <3>4
    <2> QED BY <1>4, <2>1, <2>6, <2>7, <2>8 DEF Copy
  <1> QED BY <1>2, <1>3, <1>4

LEMMA Keeps == TypeOK /\ PartsInv /\ [Next]_vars => TypeOK' /\ PartsInv'
  <1> SUFFICES ASSUME TypeOK, PartsInv, [Next]_vars PROVE TypeOK' /\ PartsInv'
    OBVIOUS
  <1>1. CASE Sync
    BY <1>1, ListKeeps, PromoteKeeps, SweepKeeps, HideKeeps, UploadKeeps, LeaveKeeps,
       SendPartKeeps, RetryKeeps, GiveUpKeeps, RecordKeeps, HidePartKeeps, HiddenKeeps
    DEF Sync
  <1>2. CASE Fails
    BY <1>2, ListFailsKeeps, PartHalfDoneKeeps, PartFailsKeeps, SourceFailsKeeps,
       RecordFailsKeeps, HideFailsKeeps, KillKeeps DEF Fails
  <1>3. CASE Change BY <1>3, ChangeKeeps
  <1>4. CASE UNCHANGED vars
    <2>1. TypeOK'
      BY <1>4 DEF vars, channel, upload, purge, history, TypeOK, ChannelOK, RowsOK,
                  StepOK, UserOK, FaultsOK
    <2>2. PartsInv'
      BY <1>4 DEF vars, channel, upload, purge, history, PartsInv, Known, Listed, Swept,
                  Sent, Hiding, Gone, HiddenStays, Content, Fragmented, Active
    <2> QED BY <2>1, <2>2
  <1> QED BY <1>1, <1>2, <1>3, <1>4 DEF Next

LEMMA Invariance == Spec => [](TypeOK /\ PartsInv)
  <1> QED BY Begins, Keeps, PTL DEF Spec

\* Every variable has its type in every state of the channel and the rows.
THEOREM TypeCorrect == Spec => []TypeOK
  <1> QED BY Invariance, PTL

\* No listing, upload or failure brings back a message of a copy that was hidden
\* as a whole.
THEOREM HiddenForGood == Spec => []HiddenStays
  <1>1. PartsInv => HiddenStays BY DEF PartsInv, Gone
  <1> QED BY <1>1, Invariance, PTL

\* A copy in use lacks a part only if an upload was cut off in the middle or some
\* messages of the file could not be hidden.
THEOREM LackingMeansCut == Spec => []LacksOnlyIfCut
  <1>1. Init => TypeOK /\ PartsInv /\ FullInv BY Begins, FullBegins
  <1>2. TypeOK /\ PartsInv /\ FullInv /\ [Next]_vars =>
          (TypeOK /\ PartsInv /\ FullInv)' BY Keeps, FullKept
  <1> QED BY <1>1, <1>2, FullLacksNothing, PTL DEF Spec

LEMMA PartsInvariance == Spec => [](TypeOK /\ PartsInv /\ FullInv /\ OnceInv)
  <1>1. Init => TypeOK /\ PartsInv /\ FullInv /\ OnceInv
    BY Begins, FullBegins, OnceBegins
  <1>2. TypeOK /\ PartsInv /\ FullInv /\ OnceInv /\ [Next]_vars =>
          (TypeOK /\ PartsInv /\ FullInv /\ OnceInv)' BY Keeps, FullKept, OnceKept
  <1> QED BY <1>1, <1>2, PTL DEF Spec

\* A copy in use has a part twice only if an upload was cut off in the middle, or
\* the file was sent again after a listing had missed it or its source had reported
\* an error at the end: not because a row was not written, messages could not be
\* hidden, or a sync was killed between its steps.
THEOREM RepeatedMeansAgain == Spec => []RepeatsOnlyIfAgain
  <1>1. TypeOK /\ OnceInv => RepeatsOnlyIfAgain
    <2> SUFFICES ASSUME TypeOK, OnceInv, Clean, NEW k \in Active PROVE ~Repeats(k)
      BY DEF RepeatsOnlyIfAgain, Clean
    <2>1. CASE Fragmented
      <3>1. Distinct(row[k].frags) BY <2>1 DEF OnceInv, OnceNow, OnceRows, Active
      <3> QED BY <2>1, <3>1 DEF Repeats, Content, Distinct
    <2>2. CASE ~Fragmented BY <2>2 DEF Repeats, Content
    <2> QED BY <2>1, <2>2
  <1> QED BY <1>1, PartsInvariance, PTL

\* Syncs that nothing disturbs mirror the file, of any size and however often the
\* user deletes and restores it: one copy, whole, of its own row, and nothing else
\* of it in the channel; or nothing at all.
THEOREM UndisturbedMirrors == Spec => []CalmMirrors
  <1>1. Init => TypeOK /\ PartsInv /\ FullInv /\ OnceInv /\ MirrorInv
    BY Begins, FullBegins, OnceBegins, MirrorBegins
  <1>2. TypeOK /\ PartsInv /\ FullInv /\ OnceInv /\ MirrorInv /\ [Next]_vars =>
          (TypeOK /\ PartsInv /\ FullInv /\ OnceInv /\ MirrorInv)'
    BY Keeps, FullKept, OnceKept, MirrorKept
  <1> QED BY <1>1, <1>2, MirrorsCalmly, PTL DEF Spec

=============================================================================
