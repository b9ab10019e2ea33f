------------------------------- MODULE SdCard -------------------------------
(***************************************************************************)
(* spi.c: bringing up an SD card and reading a sector from it.  One step   *)
(* is one command with its answer (cmd_write); a read with its data is one *)
(* step too, as nothing can come between.  The card is external: it may    *)
(* miss a command, its answer may be missed, it may need some time to come *)
(* up, and its data may not come.                                          *)
(***************************************************************************)
EXTENDS Integers

CONSTANTS Kinds,            \* cards: "none", "V1", "V2" (both addressed by bytes), "SDHC"
          SectorBytes,      \* 512
          ByteAddresses,    \* sectors a 32-bit byte address reaches, 2^23
          CardSectors,      \* sectors of the card
          WarmUp,           \* initialisation commands a card may ask for more than one
          InitLoop,         \* 20000: commands sent by wait_initV2
          TypeLoop,         \* 50: rounds of is_sdhc
          MaxFaults         \* bound: commands, answers and data lost

SdAssumption == /\ Kinds \subseteq {"none", "V1", "V2", "SDHC"}
                /\ SectorBytes \in Nat \ {0} /\ ByteAddresses \in Nat \ {0, 1} /\ CardSectors \in Nat
                /\ WarmUp \subseteq Nat /\ InitLoop \in Nat \ {0, 1} /\ TypeLoop \in Nat \ {0, 1, 2}
                /\ MaxFaults \in Nat
ASSUME SdAssumption

ResetLoop == 8
OldInitLoop == 20
NoAnswer == 255

VARIABLES kind,         \* the card in the slot
          card,         \* its state
          selected,     \* chip select
          SDHCtype,     \* what the driver takes the card for
          sd,           \* place in spi_init, and its loop counters
          faults,       \* losses so far
          typeMissed    \* history: an answer that tells the card's type was lost

sdVars == <<kind, card, selected, SDHCtype, sd, faults, typeMissed>>

SdInit == /\ kind \in Kinds
          /\ card \in [state : {"native"}, app : {FALSE}, warm : WarmUp, block : {SectorBytes}]
          /\ selected = FALSE
          /\ SDHCtype \in BOOLEAN       \* not cleared before main
          /\ sd = [at |-> "off", i |-> 0, j |-> 0]
          /\ faults = 0 /\ typeMissed = FALSE

-----------------------------------------------------------------------------
\* The argument on the wire: a sector number, or its first byte in 32 bits.
Address(lba, wide) == IF wide THEN lba ELSE (lba * SectorBytes) % (ByteAddresses * SectorBytes)

\* The sector a read with this argument is for.
SectorFor(arg) == IF kind = "SDHC" THEN arg ELSE arg \div SectorBytes

InReach(arg) == SectorFor(arg) \in 0 .. CardSectors - 1

\* What a selected card answers, and what the command does to it.
Answer(cmd, arg) ==
  IF ~ selected \/ kind = "none" \/ (card.state = "native" /\ cmd # "CMD0") THEN NoAnswer
  ELSE IF cmd = "CMD0" THEN 1
  ELSE IF cmd = "CMD8" /\ kind = "V1" THEN 5
  ELSE IF cmd = "CMD41" /\ ~ card.app THEN 5
  ELSE IF cmd = "CMD41" \/ (cmd = "CMD1" /\ kind # "SDHC") THEN IF card.warm = 0 THEN 0 ELSE 1
  ELSE IF card.state = "idle" THEN IF cmd = "CMD17" THEN 5 ELSE 1
  ELSE IF cmd = "CMD17" /\ ~ InReach(arg) THEN 64
  ELSE 0

AfterCommand(cmd, arg) ==
  IF Answer(cmd, arg) = NoAnswer THEN card
  ELSE IF cmd = "CMD0" THEN [card EXCEPT !.state = "idle", !.app = FALSE]
  ELSE IF cmd = "CMD55" THEN [card EXCEPT !.app = TRUE]
  ELSE IF cmd = "CMD41" \/ (cmd = "CMD1" /\ kind # "SDHC")
       THEN IF Answer(cmd, arg) = 0 THEN [card EXCEPT !.state = "ready", !.app = FALSE]
            ELSE [card EXCEPT !.warm = IF @ = 0 THEN 0 ELSE @ - 1, !.app = FALSE]
  ELSE IF cmd = "CMD16" /\ kind # "SDHC" THEN [card EXCEPT !.block = arg, !.app = FALSE]
  ELSE [card EXCEPT !.app = FALSE]

\* cmd_write: the answer is 255 when none has come.
TellsType(cmd, arg) == cmd \in {"CMD8", "CMD58"} \/ (cmd = "CMD41" /\ Answer(cmd, arg) = 0)

cmd_write(cmd, lba, r) ==
  LET arg == Address(lba, SDHCtype)
  IN \/ /\ r = Answer(cmd, arg)
        /\ card' = AfterCommand(cmd, arg)
        /\ UNCHANGED <<faults, typeMissed>>
     \/ /\ r = NoAnswer /\ Answer(cmd, arg) # NoAnswer /\ faults < MaxFaults
        /\ card' \in {card, AfterCommand(cmd, arg)}
        /\ faults' = faults + 1
        /\ typeMissed' = (typeMissed \/ TellsType(cmd, arg))

Answers == {0, 1, 5, 64, NoAnswer}

-----------------------------------------------------------------------------
\* spi_init: reset, with the card type set so that no argument is shifted.
SpiInit == /\ sd.at = "off"
           /\ SDHCtype' = TRUE
           /\ selected' = TRUE
           /\ sd' = [sd EXCEPT !.at = "reset", !.i = ResetLoop - 1]
           /\ UNCHANGED <<kind, card, faults, typeMissed>>

Reset == /\ sd.at = "reset"
         /\ \E r \in Answers :
              /\ cmd_write("CMD0", 0, r)
              /\ sd' = IF r = 1 THEN [sd EXCEPT !.at = "cmd8"]
                       ELSE IF sd.i = 2 THEN [sd EXCEPT !.at = "dead"]
                       ELSE [sd EXCEPT !.i = @ - 1]
         /\ UNCHANGED <<kind, selected, SDHCtype>>

\* is_sdhc: an old card, or one whose echo is wrong, is brought up by CMD1.
Cmd8 == /\ sd.at = "cmd8"
        /\ \E r \in Answers :
             /\ cmd_write("CMD8", 426, r)
             /\ sd' = IF r = 1 /\ Address(426, SDHCtype) = 426
                      THEN [at |-> "cmd55", i |-> TypeLoop - 1, j |-> InitLoop - 1]
                      ELSE [sd EXCEPT !.at = "cmd1", !.i = OldInitLoop - 1]
        /\ UNCHANGED <<kind, selected, SDHCtype>>

\* wait_init
WaitInit == /\ sd.at = "cmd1"
            /\ \E r \in Answers :
                 /\ cmd_write("CMD1", 0, r)
                 /\ IF r = 0 \/ sd.i = 1
                    THEN sd' = [sd EXCEPT !.at = "cmd16"] /\ SDHCtype' = FALSE
                    ELSE sd' = [sd EXCEPT !.i = @ - 1] /\ UNCHANGED SDHCtype
            /\ UNCHANGED <<kind, selected>>

\* The card's type is not known after this round: try again, or take it for an old one.
NextRound == IF sd.i = 2 THEN sd' = [sd EXCEPT !.at = "cmd16"] /\ SDHCtype' = FALSE
             ELSE /\ sd' = [at |-> "cmd55", i |-> sd.i - 1, j |-> InitLoop - 1]
                  /\ UNCHANGED SDHCtype

\* wait_initV2, one round of its loop at a time.
Cmd55 == /\ sd.at = "cmd55"
         /\ \E r \in Answers :
              /\ cmd_write("CMD55", 0, r)
              /\ IF r = 1 THEN sd' = [sd EXCEPT !.at = "cmd41"] /\ UNCHANGED SDHCtype
                 ELSE IF sd.j = 1 THEN NextRound
                 ELSE sd' = [sd EXCEPT !.j = @ - 1] /\ UNCHANGED SDHCtype
         /\ UNCHANGED <<kind, selected>>

Cmd41 == /\ sd.at = "cmd41"
         /\ \E r \in Answers :
              /\ cmd_write("CMD41", 0, r)
              /\ IF r = 0 THEN sd' = [sd EXCEPT !.at = "cmd58"] /\ UNCHANGED SDHCtype
                 ELSE IF sd.j = 1 THEN NextRound
                 ELSE sd' = [sd EXCEPT !.at = "cmd55", !.j = @ - 1] /\ UNCHANGED SDHCtype
         /\ UNCHANGED <<kind, selected>>

Cmd58 == /\ sd.at = "cmd58"
         /\ \E r \in Answers :
              /\ cmd_write("CMD58", 0, r)
              /\ IF r = 0 THEN sd' = [sd EXCEPT !.at = "cmd16"] /\ SDHCtype' = (kind = "SDHC")
                 ELSE NextRound
         /\ UNCHANGED <<kind, selected>>

\* A block length of one sector: 1 is shifted to 512 when addresses are.
Cmd16Mutant == /\ sd.at = "cmd16"
               /\ \E r \in Answers : cmd_write("CMD16", SectorBytes, r)
               /\ selected' = FALSE
               /\ sd' = [sd EXCEPT !.at = "up"]
               /\ UNCHANGED <<kind, SDHCtype>>
Cmd16 == /\ sd.at = "cmd16"
         /\ \E r \in Answers : cmd_write("CMD16", 1, r)
         /\ selected' = FALSE
         /\ sd' = [sd EXCEPT !.at = "up"]
         /\ UNCHANGED <<kind, SDHCtype>>

SdNext == SpiInit \/ Reset \/ Cmd8 \/ WaitInit \/ Cmd55 \/ Cmd41 \/ Cmd58 \/ Cmd16

-----------------------------------------------------------------------------
\* sd_read_sector(lba): the sector that came, or None.  Where the command is refused the
\* card stays selected.
None == -1

Outcomes(lba) == {None, SectorFor(Address(lba, SDHCtype))}

sd_read_sector(lba, got) ==
  LET arg == Address(lba, SDHCtype)
      ready == kind # "none" /\ card.state = "ready" /\ InReach(arg)
  IN /\ \/ /\ got = IF ready THEN SectorFor(arg) ELSE None
           /\ selected' = ~ ready
           /\ UNCHANGED faults
        \/ /\ got = None /\ ready /\ faults < MaxFaults
           /\ selected' \in BOOLEAN     \* the command went unanswered, or the data did not come
           /\ faults' = faults + 1
     /\ UNCHANGED <<kind, card, SDHCtype, sd, typeMissed>>

SdType == /\ kind \in Kinds
          /\ card \in [state : {"native", "idle", "ready"}, app : BOOLEAN, warm : Nat, block : Nat]
          /\ selected \in BOOLEAN /\ SDHCtype \in BOOLEAN
          /\ sd \in [at : {"off", "reset", "cmd8", "cmd1", "cmd55", "cmd41", "cmd58", "cmd16", "up", "dead"},
                     i : Nat, j : Nat]
          /\ faults \in 0 .. MaxFaults /\ typeMissed \in BOOLEAN
=============================================================================
