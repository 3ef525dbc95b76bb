-------------------------------- MODULE Xhci --------------------------------
(***************************************************************************)
(* xhci_init of src/AetherWebOS/src/drivers/usb/xhci.c: map the registers, *)
(* ask the BIOS for the controller, stop it, reset it.  Each of its three  *)
(* waits polls one register bit and counts down from XHCI_TIMEOUT; the     *)
(* countdown decides afterwards what is reported.                          *)
(*                                                                         *)
(* hc is the controller's side of those bits.  last and said are history:  *)
(* what each wait read last and what was reported.                         *)
(***************************************************************************)
EXTENDS Pcie

CONSTANTS
  XHCI_TIMEOUT,    \* polls of a wait (1000000)
  XHCI_BANK        \* bytes mapped (0x4000)

ASSUME XhciAssumption == XHCI_TIMEOUT \in Nat \ {0} /\ XHCI_BANK \in Nat \ {0}

VARIABLES
  hc,          \* dev -> controller
  ext_ptr,     \* the extended capability the walk is at
  timeout,     \* wait -> polls left
  last, said

xhci_vars == <<hc, ext_ptr, timeout, last, said>>

Waits == {"bios", "hcrst", "cnr"}
FullTime == [w \in Waits |-> XHCI_TIMEOUT]

XhciInit ==
  /\ hc = [d \in DevNos |-> [bios |-> TRUE, os |-> FALSE, run |-> TRUE,
                             hcrst |-> FALSE, cnr |-> FALSE]]
  /\ ext_ptr = 0
  /\ timeout = FullTime
  /\ last = [d \in DevNos |-> [w \in Waits |-> FALSE]]
  /\ said = [d \in DevNos |-> {}]

-----------------------------------------------------------------------------
xhci_init ==
  /\ At("xhci")
  /\ \/ Mapping(0, 0, XHCI_BANK) /\ GoTo("claim")
     \/ MappingRefused(0, 0, XHCI_BANK) /\ Return
  /\ ext_ptr' = Fn(dev).ext_head
  /\ timeout' = FullTime
  /\ UNCHANGED <<hc, last, said>>

(* xhci_claim_ownership walks the extended capabilities; next is what lies *)
(* at the dword its next pointer gives, counted from base.                 *)
Ext == Fn(dev).ext[ext_ptr]

NextExtended ==
  /\ At("claim") /\ ext_ptr # 0
  /\ ~Ext.legacy
  /\ ext_ptr' = Ext.next
  /\ GoTo("claim")
  /\ NoMapping /\ UNCHANGED <<hc, timeout, last, said>>

NothingToClaim ==
  /\ At("claim") /\ ext_ptr = 0
  /\ GoTo("stop")
  /\ NoMapping /\ UNCHANGED xhci_vars

RequestOwnership ==
  /\ At("claim") /\ ext_ptr # 0
  /\ Ext.legacy
  /\ hc' = [hc EXCEPT ![dev].os = TRUE]
  /\ GoTo("bios")
  /\ NoMapping /\ UNCHANGED <<ext_ptr, timeout, last, said>>

-----------------------------------------------------------------------------
(* while ((register & bit) && --timeout > 0) *)
Mutant_Polls(w) == timeout[w]

Polls(w) == IF hc[dev][w] THEN timeout[w] - 1 ELSE timeout[w]

Mutant_Expired(w) == timeout[w] < 0

Expired(w) == timeout[w] <= 0

Poll(w, next) ==
  /\ At(w)
  /\ last' = [last EXCEPT ![dev][w] = hc[dev][w]]
  /\ timeout' = [timeout EXCEPT ![w] = Polls(w)]
  /\ IF hc[dev][w] /\ timeout'[w] > 0 THEN GoTo(w) ELSE GoTo(next)
  /\ NoMapping /\ UNCHANGED <<hc, ext_ptr, said>>

ReportOwnership ==
  /\ At("bios_said")
  /\ said' = [said EXCEPT ![dev] = @ \cup {IF Expired("bios") THEN "BIOS timeout"
                                                               ELSE "BIOS released"}]
  /\ GoTo("stop")
  /\ NoMapping /\ UNCHANGED <<hc, ext_ptr, timeout, last>>

(* Run/Stop is cleared, then HCRST set after a delay of fixed length. *)
StopAndReset ==
  /\ At("stop")
  /\ hc' = [hc EXCEPT ![dev].run = FALSE, ![dev].hcrst = TRUE, ![dev].cnr = TRUE]
  /\ GoTo("hcrst")
  /\ NoMapping /\ UNCHANGED <<ext_ptr, timeout, last, said>>

ReportReset ==
  /\ At("reset_said")
  /\ said' = [said EXCEPT ![dev] = @ \cup {IF Expired("hcrst") \/ Expired("cnr")
                                             THEN "Reset Timeout" ELSE "READY"}]
  /\ Return
  /\ NoMapping /\ UNCHANGED <<hc, ext_ptr, timeout, last>>

(* The BIOS and the controller (external) clear the bits in their time,    *)
(* unless this one never does.                                             *)
Clears(w) ==
  /\ \E d \in DevNos :
       /\ hc[d][w] /\ w \notin Fn(d).stuck
       /\ w = "bios" => hc[d].os
       /\ w = "cnr" => ~hc[d].hcrst
       /\ hc' = [hc EXCEPT ![d][w] = FALSE]
  /\ NoMapping
  /\ UNCHANGED <<pc, dev, machine, pcie_vars, ext_ptr, timeout, last, said>>

XhciStep ==
  \/ xhci_init \/ NextExtended \/ NothingToClaim \/ RequestOwnership
  \/ Poll("bios", "bios_said") \/ ReportOwnership
  \/ StopAndReset \/ Poll("hcrst", "cnr") \/ Poll("cnr", "reset_said") \/ ReportReset

=============================================================================
