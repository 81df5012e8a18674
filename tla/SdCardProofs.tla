---------------------------- MODULE SdCardProofs ----------------------------
(***************************************************************************)
(* For all cards, kinds and sectors: no sector is written to another card, *)
(* and "initialized" means what it says.                                   *)
(***************************************************************************)
EXTENDS SdCard, TLAPS

Reads    == {"rdCmd", "rdToken", "rdData"}
Writes   == {"wrCmd", "wrData", "wrBusy"}
Mounting == {"boot", "part", "info"}
InBoot   == pc \in Initializing \cup {"mount", "mounted"} \/ (pc \in Reads /\ ctx \in Mounting)
InUse    == pc \in {"use", "synced"} \cup Writes \/ (pc \in Reads /\ ctx \notin Mounting)
\* The boot record has been read, and what it says is in use or will be.
Known    == pc = "mounted" \/ (pc \in Reads /\ ctx \in {"part", "info"})
Takes    == card \in {"ready", "ocr", "data", "recv"}
TypeFits == typeSDSC = (Kind[slot] = "SDSC")
Belongs  == winsect = Boot \/ win = Junk \/ win = Made(winsect)

\* The card: off when it is out; after CMD8 one that works; what the command has
\* read of it when it sets "initialized", which is right when no poll has seen the card.
CardInv ==
  /\ ~Present => card = "off"
  /\ card = "ocr" => pc = "readR3"
  /\ pc \in {"ACMD41", "CMD58", "readR3", "setInit"} /\ Present => Kind[slot] # "V1"
  /\ pc \in {"readR3", "setInit"} /\ Present => Takes
  /\ pc = "readR3" /\ Present /\ ~lastCardDetect => card = "ocr"
  /\ pc = "setInit" /\ Present => /\ kind = "SDSC" => Kind[slot] = "SDSC"
                                  /\ ~lastCardDetect => kind = Kind[slot]

\* "initialized", as set by the polling task, which has seen the card, or by the
\* command, which may not have.
InitInv ==
  /\ initialized /\ Present /\ lastCardDetect =>
       /\ Kind[slot] # "V1" /\ (typeSDSC => Kind[slot] = "SDSC") /\ card # "off"
       /\ pc \notin {"CMD8", "ACMD41"} => card # "idle"
  /\ pc \in Initializing \ {"clear"} /\ ~lastCardDetect => ~initialized
  /\ initialized /\ Takes /\ ~lastCardDetect => TypeFits
  /\ card \in {"data", "recv"} /\ ~lastCardDetect => TypeFits

\* A command that uses a card no poll has seen addresses it as it should: the poll will
\* not change that.
KindInv ==
  Present /\ ~lastCardDetect =>
    (InUse \/ Known \/ (fs = "yes" /\ initialized) \/ (pc = "mount" /\ win # Junk) => TypeFits)

\* The command: where it mounts, the volume is unknown; where it uses the window,
\* this is known to belong to the volume.
PlaceInv ==
  /\ InBoot => fs = "no"
  /\ pc \in Initializing => ctx = "boot"
  /\ pc \in Reads => ctx \notin {"label", "sync"}
  /\ pc = "mount" => win = Junk \/ (Present => win.card = slot)
  /\ fs = "yes" \/ InUse => Belongs

\* What is written: a window that was changed is some sector's, and FSInfo was made for
\* its own.
PartInv ==
  /\ wflag /\ (fs = "yes" \/ InUse) => winsect # Boot
  /\ pc = "synced" \/ (pc \in Reads /\ ctx = "move") => ~wflag
  /\ pc \in Writes => CASE part = "win" -> wflag
                        [] part = "copy" -> ~wflag /\ winsect \in DOMAIN FatCopy
                        [] part = "info" -> ~wflag /\ win = Made(FsInfo)

\* The volume is that of the card in the slot.
VolumeInv ==
  /\ ~Present /\ ~lastCardDetect /\ (fs = "yes" \/ Known \/ pc \in {"rdToken", "rdData", "mount"})
       => ~initialized
  /\ fs = "yes" /\ initialized /\ Present => vol = slot
  /\ InUse \/ pc = "mounted" \/ (pc \in Reads /\ ctx = "info") => (Present => vol = slot)

Inv == TypeOK /\ CardInv /\ InitInv /\ KindInv /\ PlaceInv /\ PartInv /\ VolumeInv

-----------------------------------------------------------------------------
(* The steps. *)

Places == [card : Cards \cup {NoCard}, sector : AllSectors, sdsc : BOOLEAN]

LEMMA PlaceType ==
  ASSUME TypeOK, NEW s \in AllSectors
  PROVE  Content(s) \in Places /\ Made(s) \in Places /\ Junk \in Places
<1>1. typeSDSC \in BOOLEAN /\ FALSE \in BOOLEAN
  BY Zenon DEF TypeOK
<1>2. slot \in Cards \cup {NoCard} /\ vol \in Cards \cup {NoCard} /\ Boot \in AllSectors
  BY DEF TypeOK, AllSectors
<1>3. QED
  BY <1>1, <1>2 DEF Content, Made, Junk, Places

\* Every step keeps the types.
LEMMA TypeStep ==
  ASSUME Inv, [Next]_vars
  PROVE  TypeOK'
<1> USE DEF Inv, TypeOK
<1>1. CASE UNCHANGED vars
  BY <1>1 DEF vars, hw, sd, fat, loc
<1>2. CASE Eject
BY <1>2 DEF Eject, Present, sd, fat, loc, PCs, Initializing
<1>3. ASSUME NEW c \in Cards, Insert(c)
      PROVE  TypeOK'
BY <1>3 DEF Insert, Present, Afresh, sd, fat, loc, PCs, Initializing
<1>4. CASE Poll
  <2>1. lastCardDetect' \in BOOLEAN
    BY Zenon, <1>4 DEF Poll, Present
  <2>2. initialized' \in BOOLEAN /\ typeSDSC' \in BOOLEAN
    BY Zenon, <1>4 DEF Poll, Inserted, Ejected
  <2>3. wflag' \in BOOLEAN /\ win' = win
    BY Zenon, <1>4 DEF Poll, Inserted, Ejected, f_mount, fat
  <2>4. QED
    BY <2>1, <2>2, <2>3, <1>4 DEF Poll, Inserted, Ejected, f_mount, fat, loc
<1>5. CASE Begin
BY <1>5 DEF Begin, hw, sd, fat, loc, PCs, Initializing
<1>6. CASE Kill
BY <1>6, KillAssumption DEF Kill, hw, sd, fat, loc, PCs, Initializing
<1>7. CASE chk_mounted
  BY <1>7 DEF chk_mounted, PCs, AllSectors, Initializing, hw, sd, fat, loc, Leave
<1>8. CASE validate
BY <1>8 DEF validate, hw, sd, fat, loc, PCs, Initializing
<1>9. CASE UseWindow
  <2>1. wflag' \in BOOLEAN
    BY Zenon, <1>9 DEF UseWindow, fat
  <2>2. QED
    BY <2>1, <1>9 DEF UseWindow, hw, sd, fat, loc, PCs, Initializing, AllSectors, Leave
<1>10. CASE synced
  <2>1. Made(tgt) \in Places /\ Made(FsInfo) \in Places
    BY PlaceType DEF AllSectors
  <2>2. win' \in Places
    BY <2>1, <1>10 DEF synced, Places
  <2>3. QED
    BY <2>2, <1>10 DEF synced, Places, hw, sd, PCs, Initializing, AllSectors
<1>11. CASE clear
  <2>1. initialized' \in BOOLEAN
    BY Zenon, <1>11 DEF clear
  <2>2. QED
    BY <2>1, <1>11 DEF clear, hw, fat, loc, PCs, Initializing
<1>12. CASE CMD0
BY <1>12 DEF CMD0, Command, sd, fat, loc, Present, PCs, Initializing
<1>13. CASE CMD8
BY <1>13 DEF CMD8, Command, sd, fat, loc, Works, Present, PCs, Initializing
<1>14. CASE ACMD41
BY <1>14 DEF ACMD41, Command, sd, fat, loc, PCs, Initializing
<1>15. CASE CMD58
BY <1>15 DEF CMD58, Command, sd, fat, loc, PCs, Initializing
<1>16. CASE readR3
  BY <1>16, SdAssumption DEF readR3, PCs, Initializing, sd, fat, Deselected, CardInv, Present, Kinds
<1>17. CASE setInit
BY <1>17 DEF setInit, hw, fat, loc, PCs, Initializing
<1>18. CASE rdCmd
BY <1>18 DEF rdCmd, sd, fat, loc, Deselected, ReadFails, Leave, PCs, Initializing
<1>19. CASE rdToken
BY <1>19 DEF rdToken, sd, fat, loc, Deselected, ReadFails, Leave, PCs, Initializing
<1>20. CASE rdData
  <2>1. Content(tgt) \in Places /\ Junk \in Places
    BY PlaceType
  <2>2. win' \in Places
    BY <2>1, <1>20 DEF rdData, Places
  <2>3. QED
    BY <2>2, <1>20 DEF rdData, Places, PCs, Initializing, AllSectors, sd, loc, Deselected
<1>21. CASE mount
  BY <1>21 DEF mount, hw, sd, PCs, Initializing, AllSectors
<1>22. CASE mounted
  <2>1. wflag' \in BOOLEAN
    BY Zenon, <1>22 DEF mounted
  <2>2. QED
    BY <2>1, <1>22 DEF mounted, hw, sd, PCs, Initializing, AllSectors
<1>23. CASE wrCmd
BY <1>23 DEF wrCmd, sd, fat, loc, Deselected, WriteFails, Leave, PCs, Initializing
<1>24. CASE wrData
BY <1>24 DEF wrData, sd, fat, loc, WriteFails, Leave, PCs, Initializing
<1>25. CASE wrBusy
  <2>1. wflag' \in BOOLEAN
    BY Zenon, <1>25 DEF wrBusy, fat
  <2>2. QED
    BY <2>1, <1>25 DEF wrBusy, hw, sd, fat, loc, PCs, Initializing, WriteFails, Leave
<1>26. QED
BY <1>1, <1>2, <1>3, <1>4, <1>5, <1>6, <1>7, <1>8, <1>9, <1>10, <1>11, <1>12, <1>13,
     <1>14, <1>15, <1>16, <1>17, <1>18, <1>19, <1>20, <1>21, <1>22, <1>23, <1>24,
     <1>25 DEF Next, Operator, Access

\* A card that is out is off, and one that came in is not yet spoken to; R3 is read as it is
\* sent, or as ones.
LEMMA CardStep ==
  ASSUME Inv, [Next]_vars
  PROVE  CardInv'
<1> USE DEF Inv, CardInv, TypeOK, Takes, Present
<1>1. CASE UNCHANGED vars
  BY <1>1 DEF vars, hw, sd, fat, loc
<1>2. CASE Eject
BY <1>2 DEF Eject, sd, fat, loc, Initializing
<1>3. ASSUME NEW c \in Cards, Insert(c)
      PROVE  CardInv'
BY <1>3 DEF Insert, Afresh, sd, fat, loc, Initializing
<1>4. CASE Poll
BY <1>4 DEF Poll, Inserted, Ejected, Works, f_mount, fat, loc, Initializing
<1>5. CASE Begin
BY <1>5 DEF Begin, hw, sd, fat, loc, Initializing
<1>6. CASE Kill
BY <1>6, KillAssumption DEF Kill, hw, sd, fat, loc, Initializing
<1>7. CASE chk_mounted
BY <1>7 DEF chk_mounted, hw, sd, fat, Leave, loc, Initializing
<1>8. CASE validate
BY <1>8 DEF validate, hw, sd, fat, loc, Initializing
<1>9. CASE UseWindow
BY <1>9 DEF UseWindow, hw, sd, fat, loc, Leave, Initializing
<1>10. CASE synced
BY <1>10 DEF synced, hw, sd, Made, Initializing
<1>11. CASE clear
BY <1>11 DEF clear, hw, fat, loc, Initializing
<1>12. CASE CMD0
BY <1>12 DEF CMD0, Command, sd, fat, loc, Initializing
<1>13. CASE CMD8
BY <1>13 DEF CMD8, Command, sd, fat, loc, Works, Initializing
<1>14. CASE ACMD41
BY <1>14 DEF ACMD41, Command, sd, fat, loc, Initializing
<1>15. CASE CMD58
BY <1>15 DEF CMD58, Command, sd, fat, loc, Initializing
<1>16. CASE readR3
BY <1>16 DEF readR3, sd, fat, Deselected, Initializing
<1>17. CASE setInit
BY <1>17 DEF setInit, hw, fat, loc, Initializing
<1>18. CASE rdCmd
BY <1>18 DEF rdCmd, sd, fat, loc, Deselected, ReadFails, Leave, Initializing
<1>19. CASE rdToken
BY <1>19 DEF rdToken, sd, fat, loc, Deselected, ReadFails, Leave, Initializing
<1>20. CASE rdData
BY <1>20 DEF rdData, sd, loc, Deselected, Content, Initializing
<1>21. CASE mount
BY <1>21 DEF mount, hw, sd, Initializing
<1>22. CASE mounted
BY <1>22 DEF mounted, hw, sd, Initializing
<1>23. CASE wrCmd
BY <1>23 DEF wrCmd, sd, fat, loc, Deselected, WriteFails, Leave, Initializing
<1>24. CASE wrData
BY <1>24 DEF wrData, sd, fat, loc, WriteFails, Leave, Initializing
<1>25. CASE wrBusy
BY <1>25 DEF wrBusy, hw, sd, fat, loc, WriteFails, Leave, Initializing
<1>26. QED
BY <1>1, <1>2, <1>3, <1>4, <1>5, <1>6, <1>7, <1>8, <1>9, <1>10, <1>11, <1>12, <1>13,
     <1>14, <1>15, <1>16, <1>17, <1>18, <1>19, <1>20, <1>21, <1>22, <1>23, <1>24,
     <1>25 DEF Next, Operator, Access

\* "initialized" stays true of the card in the slot, whether the polling task or the
\* command set it.
LEMMA InitializedStep ==
  ASSUME Inv, [Next]_vars
  PROVE  InitInv'
<1> USE DEF Inv, InitInv, CardInv, Takes, Present, TypeFits, Initializing
<1>1. CASE UNCHANGED vars
  BY <1>1 DEF vars, hw, sd, fat, loc
<1>2. CASE Eject
BY <1>2 DEF Eject, sd, fat, loc
<1>3. ASSUME NEW c \in Cards, Insert(c)
      PROVE  InitInv'
BY <1>3 DEF Insert, Afresh, sd, fat, loc
<1>4. CASE Poll
BY <1>4 DEF Poll, Inserted, Ejected, Works, f_mount, fat, loc
<1>5. CASE Begin
BY <1>5 DEF Begin, hw, sd, fat, loc
<1>6. CASE Kill
BY <1>6, KillAssumption DEF Kill, hw, sd, fat, loc
<1>7. CASE chk_mounted
BY <1>7 DEF chk_mounted, hw, sd, fat, Leave, loc
<1>8. CASE validate
BY <1>8 DEF validate, hw, sd, fat, loc
<1>9. CASE UseWindow
BY <1>9 DEF UseWindow, hw, sd, fat, loc, Leave
<1>10. CASE synced
BY <1>10 DEF synced, hw, sd, Made
<1>11. CASE clear
BY <1>11 DEF clear, hw, fat, loc
<1>12. CASE CMD0
BY <1>12 DEF CMD0, Command, sd, fat, loc
<1>13. CASE CMD8
BY <1>13 DEF CMD8, Command, sd, fat, loc, Works
<1>14. CASE ACMD41
BY <1>14 DEF ACMD41, Command, sd, fat, loc
<1>15. CASE CMD58
BY <1>15 DEF CMD58, Command, sd, fat, loc
<1>16. CASE readR3
BY <1>16 DEF readR3, sd, fat, Deselected
<1>17. CASE setInit
BY <1>17 DEF setInit, hw, fat, loc
<1>18. CASE rdCmd
BY <1>18 DEF rdCmd, sd, fat, loc, Deselected, ReadFails, Leave
<1>19. CASE rdToken
BY <1>19 DEF rdToken, sd, fat, loc, Deselected, ReadFails, Leave
<1>20. CASE rdData
BY <1>20 DEF rdData, sd, loc, Deselected, Content
<1>21. CASE mount
BY <1>21 DEF mount, hw, sd
<1>22. CASE mounted
BY <1>22 DEF mounted, hw, sd
<1>23. CASE wrCmd
BY <1>23 DEF wrCmd, sd, fat, loc, Deselected, WriteFails, Leave
<1>24. CASE wrData
BY <1>24 DEF wrData, sd, fat, loc, WriteFails, Leave
<1>25. CASE wrBusy
BY <1>25 DEF wrBusy, hw, sd, fat, loc, WriteFails, Leave
<1>26. QED
BY <1>1, <1>2, <1>3, <1>4, <1>5, <1>6, <1>7, <1>8, <1>9, <1>10, <1>11, <1>12, <1>13,
     <1>14, <1>15, <1>16, <1>17, <1>18, <1>19, <1>20, <1>21, <1>22, <1>23, <1>24,
     <1>25 DEF Next, Operator, Access

\* A command that uses a card no poll has seen knows its kind.
LEMMA KindStep ==
  ASSUME Inv, [Next]_vars
  PROVE  KindInv'
<1> USE DEF Inv, KindInv, Present, TypeFits, InUse, Known, Reads, Writes, Mounting,
      Initializing
<1>1. CASE UNCHANGED vars
  BY <1>1 DEF vars, hw, sd, fat, loc
<1>2. CASE Eject
BY <1>2 DEF Eject, sd, fat, loc
<1>3. ASSUME NEW c \in Cards, Insert(c)
      PROVE  KindInv'
  BY <1>3 DEF Insert, Afresh, sd, fat, loc, VolumeInv
<1>4. CASE Poll
BY <1>4 DEF Poll, Inserted, Ejected, Works, f_mount, fat, loc
<1>5. CASE Begin
BY <1>5 DEF Begin, hw, sd, fat, loc
<1>6. CASE Kill
BY <1>6, KillAssumption DEF Kill, hw, sd, fat, loc
<1>7. CASE chk_mounted
BY <1>7 DEF chk_mounted, hw, sd, fat, Leave, loc
<1>8. CASE validate
BY <1>8 DEF validate, hw, sd, fat, loc
<1>9. CASE UseWindow
BY <1>9 DEF UseWindow, hw, sd, fat, loc, Leave
<1>10. CASE synced
BY <1>10 DEF synced, hw, sd, Made
<1>11. CASE clear
BY <1>11 DEF clear, hw, fat, loc
<1>12. CASE CMD0
BY <1>12 DEF CMD0, Command, sd, fat, loc
<1>13. CASE CMD8
  BY <1>13 DEF CMD8, Command, sd, fat, loc, PlaceInv, InBoot
<1>14. CASE ACMD41
  BY <1>14 DEF ACMD41, Command, sd, fat, loc, PlaceInv, InBoot
<1>15. CASE CMD58
  BY <1>15 DEF CMD58, Command, sd, fat, loc, PlaceInv, InBoot
<1>16. CASE readR3
BY <1>16 DEF readR3, sd, fat, Deselected
<1>17. CASE setInit
  BY <1>17 DEF setInit, hw, fat, loc, PlaceInv, InBoot
<1>18. CASE rdCmd
BY <1>18 DEF rdCmd, sd, fat, loc, Deselected, ReadFails, Leave
<1>19. CASE rdToken
BY <1>19 DEF rdToken, sd, fat, loc, Deselected, ReadFails, Leave
<1>20. CASE rdData
  BY <1>20 DEF rdData, sd, loc, Deselected, Content, InitInv, PlaceInv, InBoot
<1>21. CASE mount
  BY <1>21 DEF mount, hw, sd, Legible, PlaceInv, InBoot
<1>22. CASE mounted
BY <1>22 DEF mounted, hw, sd
<1>23. CASE wrCmd
BY <1>23 DEF wrCmd, sd, fat, loc, Deselected, WriteFails, Leave
<1>24. CASE wrData
BY <1>24 DEF wrData, sd, fat, loc, WriteFails, Leave
<1>25. CASE wrBusy
BY <1>25 DEF wrBusy, hw, sd, fat, loc, WriteFails, Leave
<1>26. QED
BY <1>1, <1>2, <1>3, <1>4, <1>5, <1>6, <1>7, <1>8, <1>9, <1>10, <1>11, <1>12, <1>13,
     <1>14, <1>15, <1>16, <1>17, <1>18, <1>19, <1>20, <1>21, <1>22, <1>23, <1>24,
     <1>25 DEF Next, Operator, Access

\* The window belongs to the volume wherever the command uses it.
LEMMA PlaceStep ==
  ASSUME Inv, [Next]_vars
  PROVE  PlaceInv'
<1> USE DEF Inv, PlaceInv, InBoot, InUse, Belongs, Made, Reads, Writes, Mounting,
      Initializing, Present
<1>1. CASE UNCHANGED vars
  BY <1>1 DEF vars, hw, sd, fat, loc
<1>2. CASE Eject
BY <1>2 DEF Eject, sd, fat, loc
<1>3. ASSUME NEW c \in Cards, Insert(c)
      PROVE  PlaceInv'
BY <1>3 DEF Insert, Afresh, sd, fat, loc
<1>4. CASE Poll
  BY <1>4 DEF Poll, Inserted, Ejected, Works, f_mount, fat, loc, KindInv, TypeFits
<1>5. CASE Begin
BY <1>5 DEF Begin, hw, sd, fat, loc
<1>6. CASE Kill
BY <1>6, KillAssumption DEF Kill, hw, sd, fat, loc
<1>7. CASE chk_mounted
BY <1>7 DEF chk_mounted, hw, sd, fat, Leave, loc
<1>8. CASE validate
BY <1>8 DEF validate, hw, sd, fat, loc
<1>9. CASE UseWindow
BY <1>9 DEF UseWindow, hw, sd, fat, loc, Leave
<1>10. CASE synced
BY <1>10 DEF synced, hw, sd
<1>11. CASE clear
BY <1>11 DEF clear, hw, fat, loc
<1>12. CASE CMD0
BY <1>12 DEF CMD0, Command, sd, fat, loc
<1>13. CASE CMD8
BY <1>13 DEF CMD8, Command, sd, fat, loc, Works
<1>14. CASE ACMD41
BY <1>14 DEF ACMD41, Command, sd, fat, loc
<1>15. CASE CMD58
BY <1>15 DEF CMD58, Command, sd, fat, loc
<1>16. CASE readR3
BY <1>16 DEF readR3, sd, fat, Deselected
<1>17. CASE setInit
BY <1>17 DEF setInit, hw, fat, loc
<1>18. CASE rdCmd
BY <1>18 DEF rdCmd, sd, fat, loc, Deselected, ReadFails, Leave
<1>19. CASE rdToken
BY <1>19 DEF rdToken, sd, fat, loc, Deselected, ReadFails, Leave
<1>20. CASE rdData

  <2> USE <1>20 DEF rdData
  <2>1. UNCHANGED <<slot, fs, vol, typeSDSC, tgt, ctx>>
    BY DEF sd, loc
  <2>2. pc' \notin Initializing \cup {"rdCmd", "rdToken", "rdData", "wrCmd", "wrData", "wrBusy"}
    OBVIOUS
  <2>3. CASE ctx \in Mounting
    <3>1. fs = "no" /\ pc' \in {"mount", "mounted"}
      BY <2>3
    <3>2. win' = Junk \/ win'.card = slot
      BY <2>3 DEF Content
    <3>3. QED
      BY <2>1, <2>2, <2>3, <3>1, <3>2
  <2>4. CASE ctx = "file"
    <3>1. win' = win /\ winsect' = winsect /\ pc' = "use" /\ Belongs
      BY <2>4
    <3>2. QED
      BY <2>1, <2>2, <3>1
  <2>5. CASE ctx = "move"
    <3>1. winsect' = tgt /\ pc' = "use"
      BY <2>5
    <3>2. card = "data" => slot = vol
      BY <2>5 DEF VolumeInv, CardInv
    <3>3. win' = Junk \/ win' = [card |-> vol, sector |-> tgt, sdsc |-> typeSDSC]
      BY <2>5, <3>2 DEF Content
    <3>4. Belongs'
      BY <2>1, <3>1, <3>3
    <3>5. QED
      BY <2>2, <3>1, <3>4
  <2>6. CASE ctx \in {"label", "sync"}
    <3>1. QED
      BY <2>6
  <2>7. QED
    BY <2>3, <2>4, <2>5, <2>6 DEF TypeOK
<1>21. CASE mount
BY <1>21 DEF mount, hw, sd
<1>22. CASE mounted
BY <1>22 DEF mounted, hw, sd
<1>23. CASE wrCmd
BY <1>23 DEF wrCmd, sd, fat, loc, Deselected, WriteFails, Leave
<1>24. CASE wrData
BY <1>24 DEF wrData, sd, fat, loc, WriteFails, Leave
<1>25. CASE wrBusy
BY <1>25 DEF wrBusy, hw, sd, fat, loc, WriteFails, Leave
<1>26. QED
BY <1>1, <1>2, <1>3, <1>4, <1>5, <1>6, <1>7, <1>8, <1>9, <1>10, <1>11, <1>12, <1>13,
     <1>14, <1>15, <1>16, <1>17, <1>18, <1>19, <1>20, <1>21, <1>22, <1>23, <1>24,
     <1>25 DEF Next, Operator, Access

\* A window that was changed stays that of its sector until it is written.
LEMMA PartStep ==
  ASSUME Inv, [Next]_vars
  PROVE  PartInv'
<1> USE DEF Inv, PartInv, InUse, Made, Reads, Writes, Mounting
<1>1. CASE UNCHANGED vars
  BY <1>1 DEF vars, hw, sd, fat, loc
<1>2. CASE Eject
BY <1>2 DEF Eject, Present, sd, fat, loc
<1>3. ASSUME NEW c \in Cards, Insert(c)
      PROVE  PartInv'
BY <1>3 DEF Insert, Present, Afresh, sd, fat, loc
<1>4. CASE Poll

  <2> USE <1>4 DEF Poll
  <2>1. UNCHANGED <<pc, part, ctx, vol, win, winsect>>
    BY DEF Inserted, Ejected, f_mount, fat, loc
  <2>2. UNCHANGED wflag /\ (fs' = "yes" => fs = "yes")
    BY Zenon DEF Inserted, Ejected, f_mount, fat
  <2>3. CASE Present /\ ~lastCardDetect /\ Works
    <3>1. typeSDSC' = (Kind[slot] = "SDSC")
      BY Zenon, <2>3 DEF Inserted
    <3>2. pc \in Writes => typeSDSC' = typeSDSC
      BY Zenon, <2>3, <3>1 DEF KindInv, TypeFits
    <3>3. QED
      BY <2>1, <2>2, <3>2
  <2>4. CASE ~(Present /\ ~lastCardDetect /\ Works)
    <3>1. typeSDSC' = typeSDSC
      BY Zenon, <2>4 DEF Inserted, Ejected
    <3>2. QED
      BY <2>1, <2>2, <3>1
  <2>5. QED
    BY <2>3, <2>4
<1>5. CASE Begin
BY <1>5 DEF Begin, hw, sd, fat, loc
<1>6. CASE Kill
BY <1>6, KillAssumption DEF Kill, hw, sd, fat, loc
<1>7. CASE chk_mounted
BY <1>7 DEF chk_mounted, hw, sd, fat, Leave, loc
<1>8. CASE validate
BY <1>8 DEF validate, hw, sd, fat, loc
<1>9. CASE UseWindow
  <2>1. CASE /\ pc' = (IF wflag THEN "wrCmd" ELSE "synced")
             /\ part' = "win" /\ UNCHANGED fat
    BY <1>9, <2>1 DEF UseWindow, fat
  <2>2. CASE /\ winsect # Boot /\ wflag' = TRUE
             /\ UNCHANGED <<pc, loc, fs, vol, win, winsect>>
    BY <1>9, <2>2 DEF UseWindow, loc
  <2>3. CASE ctx' = "file" /\ pc' = "rdCmd" /\ UNCHANGED fat
    BY <1>9, <2>3 DEF UseWindow, fat
  <2>4. CASE Leave /\ UNCHANGED fat
    BY <1>9, <2>4 DEF UseWindow, Leave, fat, loc
  <2>5. QED
    BY <1>9, <2>1, <2>2, <2>3, <2>4 DEF UseWindow
<1>10. CASE synced
BY <1>10 DEF synced, hw, sd
<1>11. CASE clear
BY <1>11 DEF clear, hw, fat, loc
<1>12. CASE CMD0
  BY <1>12 DEF CMD0, Command, sd, fat, loc, Initializing, PlaceInv, InBoot
<1>13. CASE CMD8
  BY <1>13 DEF CMD8, Command, sd, fat, loc, Initializing, PlaceInv, InBoot
<1>14. CASE ACMD41
  BY <1>14 DEF ACMD41, Command, sd, fat, loc, Initializing, PlaceInv, InBoot
<1>15. CASE CMD58
  BY <1>15 DEF CMD58, Command, sd, fat, loc, Initializing, PlaceInv, InBoot
<1>16. CASE readR3
BY <1>16 DEF readR3, sd, fat, Deselected
<1>17. CASE setInit
  BY <1>17 DEF setInit, hw, fat, loc, Initializing, PlaceInv, InBoot
<1>18. CASE rdCmd
BY <1>18 DEF rdCmd, sd, fat, loc, Deselected, ReadFails, Leave
<1>19. CASE rdToken
BY <1>19 DEF rdToken, sd, fat, loc, Deselected, ReadFails, Leave
<1>20. CASE rdData
BY <1>20 DEF rdData, sd, loc, Deselected, Content
<1>21. CASE mount
BY <1>21 DEF mount, hw, sd
<1>22. CASE mounted
BY <1>22 DEF mounted, hw, sd
<1>23. CASE wrCmd
BY <1>23 DEF wrCmd, sd, fat, loc, Deselected, WriteFails, Leave
<1>24. CASE wrData
BY <1>24 DEF wrData, sd, fat, loc, WriteFails, Leave
<1>25. CASE wrBusy
BY <1>25 DEF wrBusy, hw, sd, fat, loc, WriteFails, Leave
<1>26. QED
BY <1>1, <1>2, <1>3, <1>4, <1>5, <1>6, <1>7, <1>8, <1>9, <1>10, <1>11, <1>12, <1>13,
     <1>14, <1>15, <1>16, <1>17, <1>18, <1>19, <1>20, <1>21, <1>22, <1>23, <1>24,
     <1>25 DEF Next, Operator, Access

\* The volume stays that of the card in the slot: a card that comes in is not
\* initialized, and once it is, a poll or the command has forgotten the volume.
LEMMA VolumeStep ==
  ASSUME Inv, [Next]_vars
  PROVE  VolumeInv'
<1> USE DEF Inv, VolumeInv, InUse, Known, Reads, Writes, Mounting, Present
<1>1. CASE UNCHANGED vars
  BY <1>1 DEF vars, hw, sd, fat, loc
<1>2. CASE Eject
BY <1>2 DEF Eject, sd, fat, loc
<1>3. ASSUME NEW c \in Cards, Insert(c)
      PROVE  VolumeInv'
BY <1>3 DEF Insert, Afresh, sd, fat, loc
<1>4. CASE Poll
BY <1>4 DEF Poll, Inserted, Ejected, Works, f_mount, fat, loc
<1>5. CASE Begin
BY <1>5 DEF Begin, hw, sd, fat, loc
<1>6. CASE Kill
BY <1>6, KillAssumption DEF Kill, hw, sd, fat, loc
<1>7. CASE chk_mounted
BY <1>7 DEF chk_mounted, hw, sd, fat, Leave, loc
<1>8. CASE validate
BY <1>8 DEF validate, hw, sd, fat, loc
<1>9. CASE UseWindow
BY <1>9 DEF UseWindow, hw, sd, fat, loc, Leave
<1>10. CASE synced
BY <1>10 DEF synced, hw, sd, Made
<1>11. CASE clear
BY <1>11 DEF clear, hw, fat, loc
<1>12. CASE CMD0
  BY <1>12 DEF CMD0, Command, sd, fat, loc, Initializing, PlaceInv, InBoot
<1>13. CASE CMD8
  BY <1>13 DEF CMD8, Command, sd, fat, loc, Initializing, PlaceInv, InBoot
<1>14. CASE ACMD41
  BY <1>14 DEF ACMD41, Command, sd, fat, loc, Initializing, PlaceInv, InBoot
<1>15. CASE CMD58
  BY <1>15 DEF CMD58, Command, sd, fat, loc, Initializing, PlaceInv, InBoot
<1>16. CASE readR3
BY <1>16 DEF readR3, sd, fat, Deselected
<1>17. CASE setInit
  BY <1>17 DEF setInit, hw, fat, loc, Initializing, PlaceInv, InBoot
<1>18. CASE rdCmd
  BY <1>18 DEF rdCmd, sd, fat, loc, ReadFails, Leave, CardInv
<1>19. CASE rdToken
BY <1>19 DEF rdToken, sd, fat, loc, Deselected, ReadFails, Leave
<1>20. CASE rdData
BY <1>20 DEF rdData, sd, loc, Deselected, Content
<1>21. CASE mount
  BY <1>21 DEF mount, hw, sd, Legible, PlaceInv
<1>22. CASE mounted
BY <1>22 DEF mounted, hw, sd
<1>23. CASE wrCmd
BY <1>23 DEF wrCmd, sd, fat, loc, Deselected, WriteFails, Leave
<1>24. CASE wrData
BY <1>24 DEF wrData, sd, fat, loc, WriteFails, Leave
<1>25. CASE wrBusy
BY <1>25 DEF wrBusy, hw, sd, fat, loc, WriteFails, Leave
<1>26. QED
BY <1>1, <1>2, <1>3, <1>4, <1>5, <1>6, <1>7, <1>8, <1>9, <1>10, <1>11, <1>12, <1>13,
     <1>14, <1>15, <1>16, <1>17, <1>18, <1>19, <1>20, <1>21, <1>22, <1>23, <1>24,
     <1>25 DEF Next, Operator, Access

\* The invariant holds in every state.
LEMMA Invariant == Spec => []Inv
<1>1. Init => Inv
  <2> SUFFICES ASSUME Init PROVE Inv
    OBVIOUS
  <2>1. /\ lastCardDetect \in BOOLEAN /\ initialized \in BOOLEAN
        /\ typeSDSC \in BOOLEAN /\ wflag \in BOOLEAN
    BY Zenon DEF Init
  <2>2. TypeOK
    BY <2>1 DEF Init, TypeOK, Junk, AllSectors, Kinds, PCs
  <2>3. CardInv /\ InitInv /\ KindInv /\ PlaceInv /\ PartInv /\ VolumeInv
    BY DEF Init, CardInv, InitInv, KindInv, PlaceInv, PartInv, VolumeInv, Present, Takes,
           Initializing, InBoot, InUse, Known, Reads, Writes
  <2>4. QED
    BY <2>2, <2>3 DEF Inv
<1>2. Inv /\ [Next]_vars => Inv'
  BY TypeStep, CardStep, InitializedStep, KindStep, PlaceStep, PartStep, VolumeStep DEF Inv
<1>3. QED
  BY <1>1, <1>2, PTL DEF Spec

-----------------------------------------------------------------------------
(* The theorems. *)

\* The variables keep the values that the code gives them.
THEOREM TypeCorrect == Spec => []TypeOK
<1>1. Inv => TypeOK
  BY DEF Inv
<1>2. QED
  BY <1>1, Invariant, PTL

\* "initialized" means, once the polling task has seen the card, that this very card
\* takes commands and is not an SDHC card addressed as an SDSC card, although the
\* command may have set it, and may have read R3 as ones.
THEOREM ReadyCorrect == Spec => []ReadyWhenInitialized
<1>1. Inv => ReadyWhenInitialized
  BY DEF Inv, TypeOK, InitInv, ReadyWhenInitialized, Initializing
<1>2. QED
  BY <1>1, Invariant, PTL

\* What is written to a sector, to its copy in the second FAT or to FSInfo was read from
\* that sector of that card, addressed the same way, or made for it, and the volume is
\* that of the card.
THEOREM WritesCorrect == Spec => WritesBelong
<1> DEFINE Good == /\ win \in {Junk, Content(IF part = "info" THEN FsInfo ELSE winsect)}
                   /\ vol = slot
<1>1. ASSUME Inv, [Next]_vars, pc = "wrData", pc' = "wrBusy" PROVE Good
  <2>1. card = "recv"
    BY <1>1 DEF Next, Operator, Access, Eject, Insert, Poll, Begin, Kill, chk_mounted,
       validate, UseWindow, synced, clear, CMD0, CMD8, ACMD41, CMD58, readR3, Command,
       setInit, rdCmd, rdToken, rdData, mount, mounted, wrCmd, wrData, wrBusy, vars,
       Leave, ReadFails, WriteFails, Initializing, loc
  <2>2. Present /\ InUse /\ pc \in Writes
    BY <1>1, <2>1 DEF Inv, CardInv, InUse, Writes
  <2>3. vol = slot
    BY <1>1, <2>2 DEF Inv, VolumeInv
  <2>4. CASE part = "info"
    BY <1>1, <2>2, <2>3, <2>4 DEF Inv, PartInv, Made, Content
  <2>5. CASE part # "info"
    <3>1. winsect # Boot
      <4>1. CASE part = "win"
        BY <1>1, <2>2, <4>1 DEF Inv, PartInv
      <4>2. CASE part = "copy"
        BY <1>1, <2>2, <4>2, SdAssumption DEF Inv, PartInv
      <4>3. QED
        BY <1>1, <2>5, <4>1, <4>2 DEF Inv, TypeOK
    <3>2. win = Junk \/ win = Made(winsect)
      BY <1>1, <2>2, <3>1 DEF Inv, PlaceInv, Belongs
    <3>3. QED
      BY <2>3, <2>5, <3>2 DEF Made, Content
  <2>6. QED
    BY <2>4, <2>5
<1>2. Inv /\ [Next]_vars => [(pc = "wrData" /\ pc' = "wrBusy") => Good]_vars
  BY <1>1
<1>3. QED
  BY <1>2, Invariant, PTL DEF Spec, WritesBelong
=============================================================================
