------------------------------- MODULE SdCard -------------------------------
(***************************************************************************)
(* The SD card of the console: the task that polls the card detect switch  *)
(* and initializes cards (sd.cpp), and one command that uses the FAT file  *)
(* system (ff.c through diskio.c) without a lock between the two.  The     *)
(* polling task has the highest priority and does not block: a poll is one *)
(* step, between any two accesses of the command to the card.              *)
(***************************************************************************)
EXTENDS Integers, FiniteSets

CONSTANTS Cards,     \* the cards that the operator has
          Kind,      \* of each: "SDHC", "SDSC", or "V1" (before version 2)
          Sectors,   \* the sectors that commands move the window to
          FatCopy,   \* of the sectors of the FAT: their places in its second copy
          BootPart,  \* the boot record of a partition; that of the card is sector 0
          FsInfo,    \* the sector that counts the free clusters
          KillAt     \* where a command may be when ^C deletes its task

NoCard == "no card"
Boot == 0
AllSectors == Sectors \cup {Boot, BootPart, FsInfo}
Kinds == {"SDHC", "SDSC", "V1"}

ASSUME SdAssumption ==
  /\ NoCard \notin Cards /\ IsFiniteSet(Cards)
  /\ Kind \in [Cards -> Kinds]
  /\ Sectors \subseteq Nat \ {Boot} /\ {BootPart, FsInfo} \subseteq Nat \ {Boot}
  /\ FatCopy \in [DOMAIN FatCopy -> Nat \ {Boot}] /\ DOMAIN FatCopy \subseteq Sectors

VARIABLES slot, card,                         \* the card, and its own state
          lastCardDetect, initialized, typeSDSC,
          fs, vol, win, winsect, wflag,       \* the FATFS object
          pc, ctx, tgt, part, kind            \* the command

hw == <<slot, card>>
sd == <<lastCardDetect, initialized, typeSDSC>>
fat == <<fs, vol, win, winsect, wflag>>
loc == <<ctx, tgt, part, kind>>
vars == <<hw, sd, fat, pc, loc>>

Present == slot # NoCard
Junk == [card |-> NoCard, sector |-> Boot, sdsc |-> FALSE]

\* What the card has where it is asked for sector s, as a card of one kind or of the
\* other; and what the file system makes for sector s of its volume.
Content(s) == [card |-> slot, sector |-> s, sdsc |-> typeSDSC]
Made(s)    == [card |-> vol, sector |-> s, sdsc |-> typeSDSC]

\* A card that is addressed as one of the other kind has something else there, if it
\* answers at all; only sector 0 is the same.
Legible(place) == place # Junk /\ (place.sector = Boot \/ place.sdsc = (Kind[place.card] = "SDSC"))

Init == /\ slot \in Cards \cup {NoCard} /\ card = "off"
        /\ lastCardDetect = FALSE /\ initialized = FALSE /\ typeSDSC = FALSE
        /\ fs = "NULL" /\ vol = NoCard /\ win = Junk /\ winsect = Boot /\ wflag = FALSE
        /\ pc = "idle" /\ ctx = "boot" /\ tgt = Boot /\ part = "win" /\ kind = "V1"

-----------------------------------------------------------------------------
(* The operator. *)

\* A command that is here has nothing of the card that was in the slot before.
Afresh == {"idle", "chk", "calls", "clear", "CMD0"}

\* A card is in, or out, for longer than the second between two polls, and is out
\* for longer than an access that was using it needs to fail.
Eject == /\ Present /\ lastCardDetect
         /\ slot' = NoCard /\ card' = "off"
         /\ UNCHANGED <<sd, fat, pc, loc>>

Insert(c) == /\ ~Present /\ ~lastCardDetect /\ pc \in Afresh
             /\ slot' = c /\ card' = "off"
             /\ UNCHANGED <<sd, fat, pc, loc>>

-----------------------------------------------------------------------------
(* The task that polls.  sdInitialize as a whole, when nothing preempts it. *)

Works == Present /\ Kind[slot] # "V1"

\* f_mount: the object is registered and knows no volume.
f_mount == fs' = "no" /\ UNCHANGED <<vol, win, winsect, wflag>>

\* Without the first assignment of sdInitialize, and with one f_mount for all cards.
InsertedKept ==
  IF Works
  THEN initialized' = TRUE /\ typeSDSC' = (Kind[slot] = "SDSC") /\ card' = "ready" /\ f_mount
  ELSE card' = "idle" /\ UNCHANGED <<initialized, typeSDSC, fat>>

InsertedOnce ==
  IF Works
  THEN /\ initialized' = TRUE /\ typeSDSC' = (Kind[slot] = "SDSC") /\ card' = "ready"
       /\ IF fs = "NULL" THEN f_mount ELSE UNCHANGED fat
  ELSE initialized' = FALSE /\ card' = "idle" /\ UNCHANGED <<typeSDSC, fat>>

Inserted ==
  IF Works
  THEN initialized' = TRUE /\ typeSDSC' = (Kind[slot] = "SDSC") /\ card' = "ready" /\ f_mount
  ELSE initialized' = FALSE /\ card' = "idle" /\ UNCHANGED <<typeSDSC, fat>>

Ejected == initialized' = FALSE /\ UNCHANGED <<typeSDSC, card, fat>>

Poll == /\ lastCardDetect' = Present
        /\ IF Present /\ ~lastCardDetect THEN Inserted
           ELSE IF ~Present /\ lastCardDetect THEN Ejected
           ELSE UNCHANGED <<initialized, typeSDSC, card, fat>>
        /\ UNCHANGED <<slot, pc, loc>>

-----------------------------------------------------------------------------
(* The command.  A command makes calls of FatFs; the first one mounts. *)

Begin == /\ pc = "idle" /\ pc' = "chk"
         /\ UNCHANGED <<hw, sd, fat, loc>>

\* ^C: the task is deleted where it is.
Kill == /\ pc \in KillAt /\ pc' = "idle"
        /\ UNCHANGED <<hw, sd, fat, loc>>

\* A call has ended, well or not.
Leave == pc' = "calls" /\ UNCHANGED loc

\* chk_mounted: is the volume known and the card initialized?  If not, mount.
chk_mounted ==
  /\ pc = "chk"
  /\ CASE fs = "NULL" -> Leave /\ UNCHANGED fat
       [] fs = "yes" /\ initialized -> pc' = "use" /\ ctx' = "move"
                                       /\ UNCHANGED <<tgt, part, kind, fat>>
       [] OTHER -> /\ fs' = "no"
                   /\ pc' = IF initialized THEN "rdCmd" ELSE "clear"
                   /\ ctx' = "boot" /\ tgt' = Boot
                   /\ UNCHANGED <<part, kind, vol, win, winsect, wflag>>
  /\ UNCHANGED <<hw, sd>>

\* The next call looks at its file object, or the command ends.
validate ==
  /\ pc = "calls"
  /\ \/ pc' = "idle" /\ UNCHANGED loc
     \/ /\ fs = "yes" /\ initialized
        /\ pc' = "use" /\ ctx' = "move" /\ UNCHANGED <<tgt, part, kind>>
  /\ UNCHANGED <<hw, sd, fat>>

\* A move of the window to another sector, a new sector for the window (ctx "label"), or
\* sync_fs, each after sync_window; a change of the window; the read of a whole sector of
\* a file, past the window; or the end of the call.
UseWindow ==
  /\ pc = "use"
  /\ \/ /\ \/ ctx' \in {"move", "label"} /\ tgt' \in Sectors \ {winsect}
           \/ ctx' = "sync" /\ UNCHANGED tgt
        /\ pc' = IF wflag THEN "wrCmd" ELSE "synced"
        /\ part' = "win" /\ UNCHANGED <<kind, fat>>
     \/ /\ winsect # Boot
        /\ wflag' = TRUE
        /\ UNCHANGED <<pc, loc, fs, vol, win, winsect>>
     \/ /\ ctx' = "file" /\ tgt' \in Sectors /\ pc' = "rdCmd"
        /\ UNCHANGED <<part, kind, fat>>
     \/ Leave /\ UNCHANGED fat
  /\ UNCHANGED <<hw, sd>>

\* After sync_window the window is read; or it is cleared, or filled with the end of a
\* file, and is sector tgt then; or FSInfo is made in it, which is no sector then.
synced ==
  /\ pc = "synced"
  /\ \/ ctx = "move" /\ pc' = "rdCmd" /\ UNCHANGED <<part, win, winsect>>
     \/ ctx = "label" /\ pc' = "use" /\ win' = Made(tgt) /\ winsect' = tgt /\ UNCHANGED part
     \/ ctx = "sync" /\ pc' = "calls" /\ UNCHANGED <<part, win, winsect>>
     \/ ctx = "sync" /\ pc' = "wrCmd" /\ part' = "info" /\ win' = Made(FsInfo) /\ winsect' = Boot
  /\ UNCHANGED <<hw, sd, fs, vol, wflag, ctx, tgt, kind>>

-----------------------------------------------------------------------------
(* sdInitialize, called by disk_initialize in the command, which goes on   *)
(* with the boot record whatever the result is.                            *)

Initializing == {"clear", "CMD0", "CMD8", "ACMD41", "CMD58", "readR3", "setInit"}

\* ^C while the command initializes the card or fills the window leaves either half
\* done.
ASSUME KillAssumption == KillAt \cap (Initializing \cup {"rdData"}) = {}

clear == /\ pc = "clear" /\ pc' = "CMD0" /\ initialized' = FALSE
         /\ UNCHANGED <<hw, lastCardDetect, typeSDSC, fat, loc>>

\* Negating the chip select ends what the card was doing.
Deselected == IF card \in {"ocr", "data", "recv"} THEN "ready" ELSE card

\* A command of the initialization, answered when the card is as it should be.
Command(here, answered, card1, next) ==
  /\ pc = here
  /\ IF answered THEN card' = card1 /\ pc' = next ELSE pc' = "rdCmd" /\ UNCHANGED card
  /\ UNCHANGED <<slot, sd, fat>>

CMD0 == Command("CMD0", Present, "idle", "CMD8") /\ UNCHANGED loc
CMD8 == Command("CMD8", card = "idle" /\ Works, card, "ACMD41") /\ UNCHANGED loc
ACMD41 == Command("ACMD41", card = "idle", "ready", "CMD58") /\ UNCHANGED loc
CMD58 == Command("CMD58", card = "ready", "ocr", "readR3") /\ UNCHANGED loc

\* The four bytes of R3.  They are ones when the card is out, or when a poll has used it
\* since: those of an SDHC card.
readR3 == /\ pc = "readR3" /\ pc' = "setInit"
          /\ kind' = IF card = "ocr" THEN Kind[slot] ELSE "SDHC"
          /\ card' = Deselected
          /\ UNCHANGED <<slot, sd, fat, ctx, tgt, part>>

\* Without the assignment of TRUE.
setKind == /\ pc = "setInit" /\ pc' = "rdCmd" /\ typeSDSC' = (kind = "SDSC")
           /\ UNCHANGED <<hw, lastCardDetect, initialized, fat, loc>>

setInit == /\ pc = "setInit" /\ pc' = "rdCmd"
           /\ initialized' = TRUE /\ typeSDSC' = (kind = "SDSC")
           /\ UNCHANGED <<hw, lastCardDetect, fat, loc>>

-----------------------------------------------------------------------------
(* disk_read and disk_write of one sector. *)

\* A failure of disk_read, which the read of FSInfo ignores.
ReadFails == IF ctx = "info" THEN pc' = "mounted" /\ UNCHANGED loc ELSE Leave

\* CMD17 and its response, the start token, and 512 bytes.
rdCmd ==
  /\ pc = "rdCmd"
  /\ \/ /\ initialized /\ card = "ready"
        /\ card' = "data" /\ pc' = "rdToken" /\ UNCHANGED loc
     \/ /\ initialized /\ (card = "ready" => ~Legible(Content(tgt)))
        /\ card' = Deselected /\ ReadFails
     \/ ~initialized /\ UNCHANGED card /\ ReadFails
  /\ UNCHANGED <<slot, sd, fat>>

rdToken == /\ pc = "rdToken"
           /\ IF card = "data" THEN pc' = "rdData" /\ UNCHANGED <<card, loc>>
              ELSE card' = Deselected /\ ReadFails
           /\ UNCHANGED <<slot, sd, fat>>

\* From here on the read succeeds, with ones if nobody sends.
rdData == /\ pc = "rdData"
          /\ win' = IF ctx = "file" THEN win ELSE IF card = "data" THEN Content(tgt) ELSE Junk
          /\ card' = Deselected
          /\ winsect' = IF ctx = "move" THEN tgt ELSE winsect
          /\ pc' = CASE ctx \in {"move", "file"} -> "use" [] ctx = "info" -> "mounted"
                     [] OTHER -> "mount"
          /\ UNCHANGED <<slot, sd, fs, vol, wflag, loc>>

\* The rest of chk_mounted: is it a boot record?  If not, or if it is a table of
\* partitions, another one is read; it describes the volume, and tells if there is an
\* FSInfo sector.
mount == /\ pc = "mount"
         /\ IF Legible(win)
            THEN \/ /\ ctx = "boot"
                    /\ ctx' = "part" /\ tgt' = BootPart /\ pc' = "rdCmd" /\ UNCHANGED vol
                 \/ /\ vol' = win.card
                    /\ \/ pc' = "mounted" /\ UNCHANGED <<ctx, tgt>>
                       \/ ctx' = "info" /\ tgt' = FsInfo /\ pc' = "rdCmd"
            ELSE pc' = "calls" /\ UNCHANGED <<ctx, tgt, vol>>
         /\ UNCHANGED <<hw, sd, part, kind, fs, win, winsect, wflag>>

mounted == /\ pc = "mounted" /\ pc' = "use" /\ ctx' = "move"
           /\ fs' = "yes" /\ winsect' = Boot /\ wflag' = FALSE
           /\ UNCHANGED <<hw, sd, vol, win, tgt, part, kind>>

\* Where the window goes: to its sector, to the place of this in the second FAT, or to
\* FSInfo.
Target == CASE part = "copy" -> FatCopy[winsect] [] part = "info" -> FsInfo [] OTHER -> winsect

\* The write of a part is over; its failure counts for the window's sector only.
WriteFails == IF part = "copy" THEN pc' = "synced" /\ UNCHANGED loc ELSE Leave

\* CMD24, the data and the data response, the end of busy and the status.  The
\* error returns leave the card selected: it may or may not go on.
wrCmd ==
  /\ pc = "wrCmd"
  /\ \/ /\ initialized /\ card = "ready"
        /\ card' = "recv" /\ pc' = "wrData" /\ UNCHANGED loc
     \/ /\ initialized /\ (card = "ready" => ~Legible(Content(Target)))
        /\ card' \in {card, Deselected} /\ WriteFails
     \/ ~initialized /\ UNCHANGED card /\ WriteFails
  /\ UNCHANGED <<slot, sd, fat>>

wrData == /\ pc = "wrData"
          /\ IF card = "recv" THEN card' = "ready" /\ pc' = "wrBusy" /\ UNCHANGED loc
             ELSE UNCHANGED card /\ WriteFails
          /\ UNCHANGED <<slot, sd, fat>>

wrBusy == /\ pc = "wrBusy"
          /\ IF card = "ready" /\ part = "win"
             THEN /\ wflag' = FALSE
                  /\ \/ /\ winsect \in DOMAIN FatCopy /\ part' = "copy" /\ pc' = "wrCmd"
                     \/ /\ winsect \notin DOMAIN FatCopy /\ pc' = "synced" /\ UNCHANGED part
                  /\ UNCHANGED <<fs, vol, win, winsect, ctx, tgt, kind>>
             ELSE WriteFails /\ UNCHANGED fat
          /\ UNCHANGED <<hw, sd>>

Access == \/ chk_mounted \/ validate \/ UseWindow \/ clear \/ CMD0 \/ CMD8 \/ ACMD41
          \/ CMD58 \/ readR3 \/ setInit \/ rdCmd \/ rdToken \/ rdData \/ mount \/ mounted
          \/ synced \/ wrCmd \/ wrData \/ wrBusy

Operator == Eject \/ (\E c \in Cards : Insert(c)) \/ Begin \/ Kill

Next == Operator \/ Poll \/ Access

\* The scheduler runs both tasks.
Spec == Init /\ [][Next]_vars /\ WF_vars(Poll) /\ WF_vars(Access)

-----------------------------------------------------------------------------
(* Properties. *)

PCs == {"idle", "chk", "calls", "mount", "mounted", "synced"} \cup Initializing
         \cup {"use", "rdCmd", "rdToken", "rdData", "wrCmd", "wrData", "wrBusy"}

\* The types.
TypeOK == /\ slot \in Cards \cup {NoCard}
          /\ card \in {"off", "idle", "ready", "ocr", "data", "recv"}
          /\ lastCardDetect \in BOOLEAN /\ initialized \in BOOLEAN /\ typeSDSC \in BOOLEAN
          /\ fs \in {"NULL", "no", "yes"} /\ vol \in Cards \cup {NoCard}
          /\ win \in [card : Cards \cup {NoCard}, sector : AllSectors, sdsc : BOOLEAN]
          /\ winsect \in AllSectors /\ wflag \in BOOLEAN
          /\ pc \in PCs /\ ctx \in {"boot", "part", "info", "move", "label", "file", "sync"}
          /\ tgt \in AllSectors /\ part \in {"win", "copy", "info"} /\ kind \in Kinds

\* What is written to a sector was read from that sector of that card, addressed the
\* same way, or made for it from what was, and the volume is that of the card: no card
\* gets another card's tables.  The second FAT gets what its first copy got.  (It may
\* be ones, when the poll found a new card and initialized it under the read.)
WritesBelong ==
  [][pc = "wrData" /\ pc' = "wrBusy" =>
       /\ win \in {Junk, Content(IF part = "info" THEN FsInfo ELSE winsect)}
       /\ vol = slot]_vars

\* Once a poll has seen the card, "initialized" means that this very card takes
\* commands, and that an SDHC card is not addressed as an SDSC card.  (An SDSC card may
\* be addressed as an SDHC card: a poll between R1 and R3 of CMD58.)
ReadyWhenInitialized ==
  initialized /\ Present /\ lastCardDetect /\ pc \notin Initializing =>
    card \notin {"off", "idle"} /\ (typeSDSC => Kind[slot] = "SDSC")

\* A card that stays in the slot is initialized in the end and stays it, although a
\* command that saw it missing may initialize it at the same time.
CardComesUp == \A c \in {d \in Cards : Kind[d] # "V1"} :
                 <>[](slot = c) => <>[]initialized
=============================================================================
