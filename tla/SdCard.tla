-------------------------------- MODULE SdCard --------------------------------
(***************************************************************************)
(* The SD card driver (peripherals/sd_card/sd_card.c) over the SPI device  *)
(* of the board (board_sd_card.c): what is on the card, and the write that *)
(* is under way.  A write is started, polled and ends; a read is done in   *)
(* one call.  Whatever the card or the bus answers is a choice; "faults"   *)
(* counts the answers that are errors, so that a model can bound them.     *)
(*                                                                         *)
(* The content of a sector belongs to the client.  A write that fails or   *)
(* is cut short by a power loss leaves the old content, the new one, or a  *)
(* sector whose checksum is wrong ("torn").                                *)
(***************************************************************************)
EXTENDS Naturals

CONSTANTS SectorCount,  \* sd_card_t.sector_count, read from the CSD
          MaxFaults     \* model bound: error answers of the card and the bus

ASSUME SdCardAssumption == SectorCount \in Nat /\ SectorCount > 2 /\ MaxFaults \in Nat

VARIABLES disk,   \* sector -> content
          card,   \* sd_card_t, with the flag of board_sd_card.c's transfer
          faults  \* error answers so far

cardVars == <<disk, card, faults>>

Sectors == 0 .. SectorCount - 1

Blank == [kind |-> "blank"]
Torn  == [kind |-> "torn"]

WriteStates == {"IDLE", "DATA_TRANSFER", "PROGRAMMING"}

\* sd_card_initialize, given what the commands of its sequence ended with:
\* the card is usable only when every one succeeded.
InitializeResults == {"OK", "NO_MEDIA", "TRANSPORT_ERROR", "PROTOCOL_ERROR", "TIMEOUT"}

InitializedCard(result) ==
  [initialized |-> result = "OK", writeState |-> "IDLE", transfer |-> FALSE,
   sector |-> 0, data |-> Blank]

Faulty(result) == result \in {"TRANSPORT_ERROR", "PROTOCOL_ERROR", "TIMEOUT"}

\* The results a call can end with, within the bound on errors.
Within(results) == {r \in results : Faulty(r) => faults < MaxFaults}
Counted(result) == faults' = IF Faulty(result) THEN faults + 1 ELSE faults

\* spi_device_transfer is refused while a DMA transfer has not been collected.
BusUsable == ~card.transfer

ReadResults(sector) ==
  IF ~card.initialized THEN {"NOT_INITIALIZED"}
  ELSE IF sector \notin Sectors THEN {"INVALID_ARGUMENT"}
  ELSE IF card.writeState # "IDLE" THEN {"BUSY"}
  ELSE IF ~BusUsable THEN {"PROTOCOL_ERROR"}
  ELSE Within({"OK", "PROTOCOL_ERROR"})

StartResults(sector) ==
  IF ~card.initialized THEN {"NOT_INITIALIZED"}
  ELSE IF sector \notin Sectors THEN {"INVALID_ARGUMENT"}
  ELSE IF card.writeState # "IDLE" \/ ~BusUsable THEN {"BUSY"}
  ELSE Within({"OK", "BUSY", "PROTOCOL_ERROR", "TRANSPORT_ERROR"})

StartedCard(sector, data, result) ==
  IF result = "OK"
  THEN [card EXCEPT !.writeState = "DATA_TRANSFER", !.transfer = TRUE,
                    !.sector = sector, !.data = data]
  ELSE card

\* transfer_poll of the board: a transfer that has been collected is complete.
TransferPolls == IF card.transfer THEN {"BUSY", "ERROR", "COMPLETE"} ELSE {"COMPLETE"}

\* What one call of sd_card_write_sector_poll can find: the result, the state
\* it leaves the write in, whether the DMA transfer has been collected.
PollOutcomes ==
  LET Outcome(result, state, transfer) ==
        [result |-> result, state |-> state, transfer |-> transfer]
      AfterTransfer ==
        {Outcome("TRANSPORT_ERROR", "IDLE", FALSE), Outcome("BUSY", "PROGRAMMING", FALSE),
         Outcome("OK", "IDLE", FALSE)}
      all ==
        CASE card.writeState = "IDLE" -> {Outcome("OK", "IDLE", card.transfer)}
          [] card.writeState = "DATA_TRANSFER" ->
               {Outcome("TIMEOUT", "IDLE", card.transfer)} \cup UNION
                 {CASE poll = "BUSY"  -> {Outcome("BUSY", "DATA_TRANSFER", TRUE)}
                    [] poll = "ERROR" -> {Outcome("TRANSPORT_ERROR", "IDLE", FALSE)}
                    [] OTHER -> {Outcome("PROTOCOL_ERROR", "IDLE", FALSE)} \cup AfterTransfer
                  : poll \in TransferPolls}
          [] OTHER -> {Outcome("TIMEOUT", "IDLE", FALSE)} \cup AfterTransfer
  IN {o \in all : o.result \in Within({o.result})}

PolledCard(outcome) ==
  IF outcome.state = "IDLE"
  THEN [card EXCEPT !.writeState = "IDLE", !.transfer = outcome.transfer,
                    !.sector = 0, !.data = Blank]
  ELSE [card EXCEPT !.writeState = outcome.state, !.transfer = outcome.transfer]

\* The content a sector ends with when the write of it did or did not succeed.
Written(sector, data, result) ==
  IF result = "OK" THEN {data} ELSE {disk[sector], data, Torn}

\* The card after the poll.
DiskAfter(outcome) ==
  IF outcome.state # "IDLE" \/ card.writeState = "IDLE" THEN {disk}
  ELSE {[disk EXCEPT ![card.sector] = c] : c \in Written(card.sector, card.data, outcome.result)}

\* The card after a power loss: a write under way may have any end.
DiskAfterPowerLoss ==
  IF card.writeState = "IDLE" THEN {disk}
  ELSE {[disk EXCEPT ![card.sector] = c] : c \in Written(card.sector, card.data, "LOST")}

\* sd_card_write_sector_blocking: one start, then polls until the write ends.
\* A timeout may leave the DMA transfer uncollected.
BlockingOutcomes(sector, data) ==
  LET refused == {[result |-> r, transfer |-> card.transfer, content |-> disk[sector]] :
                    r \in StartResults(sector) \ {"OK"}}
      ended(r) == {[result |-> r, transfer |-> t, content |-> c] :
                     t \in {FALSE, r = "TIMEOUT"}, c \in Written(sector, data, r)}
  IN IF "OK" \notin StartResults(sector) THEN refused
     ELSE refused \cup UNION {ended(r) : r \in Within({"OK", "TRANSPORT_ERROR",
                                                        "PROTOCOL_ERROR", "TIMEOUT"})}

=============================================================================
