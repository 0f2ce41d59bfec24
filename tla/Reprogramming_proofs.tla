------------------------- MODULE Reprogramming_proofs -------------------------
(***************************************************************************)
(* Proofs about Reprogramming, for any number of polls and any bitfiles.   *)
(* The inductive invariant says for each call of a routine who claims the  *)
(* interfaces (Claims), what has not changed since the routine began       *)
(* (Since), and what the programmer may know about the FPGA (Flow).        *)
(***************************************************************************)
EXTENDS Reprogramming, TLAPS

Claimants == {"free", "nobody", "open", "cable", "device"}
FpgaStates == {"running", "triggered", "clearing", "blank", "starting"}

TypeOK ==
  /\ plugged \in BOOLEAN
  /\ holder \in [Interfaces -> Claimants]
  /\ threw \in BOOLEAN
  /\ fpga \in FpgaStates
  /\ captured \in SUBSET {"INIT", "DONE"}
  /\ overtaken \in BOOLEAN
  /\ bits.whole \in BOOLEAN
  /\ begun \in [plugged : BOOLEAN, lost : SUBSET Interfaces, fpga : FpgaStates]

\* How far a routine may be, and with what device.
Stage ==
  \/ routine = "idle" /\ at = 1 /\ device \in {"none", "listed"} /\ threw = FALSE
  \/ routine = "open" /\ at \in 1 .. 6 /\ device \in {"new", "entering", "listed"}
  \/ /\ routine = "program" /\ at \in 1 .. 9 /\ device \in {"entering", "listed"}
     /\ threw = FALSE

\* Who claims the interfaces before each call.
Claims ==
  /\ IdleHoldsOnlyTheDevice
  /\ routine = "open" =>
       /\ IF at = 1 THEN holder["A"] \in {"free", "nobody"} ELSE holder["A"] = "open"
       /\ IF at <= 2 THEN holder["B"] \in {"free", "nobody"}
          ELSE holder["B"] = IF at <= 4 THEN "open" ELSE "free"
  /\ routine = "program" =>
       /\ holder["A"] \in {"free", "nobody"}
       /\ IF at = 1 THEN holder["B"] \in {"free", "nobody"} ELSE holder["B"] = "cable"

\* A routine that goes on has lost nothing, and its first claim found the board.
Since ==
  Busy =>
    /\ begun.lost = Lost
    /\ plugged \/ at > 1 => begun.plugged

\* The file and the FPGA before each call of the programmer.
Flow ==
  routine = "program" =>
    /\ at >= 5 => bits.whole
    /\ at <= 6 /\ begun.fpga = "running" => fpga = "running"
    /\ at \in 7 .. 8 => fpga \in {"triggered", "clearing", "blank"}
    /\ at \in 8 .. 9 /\ fpga = "triggered" => overtaken
    /\ at \in 7 .. 9 /\ "DONE" \in captured => fpga = "running" \/ overtaken

State == TypeOK /\ Stage /\ Claims /\ Since /\ Flow
IInv == State /\ ManagerKnowsOutcomes /\ SuccessMeansConfigured

USE DEF Interfaces

-----------------------------------------------------------------------------
(* The order of the calls. *)

\* The number of each call of a routine (the tuples of Calls).
LEMMA Order ==
  /\ Calls["open"][1] = "claim A" /\ Calls["open"][2] = "claim B"
  /\ Calls["open"][3] = "purge B" /\ Calls["open"][4] = "close B"
  /\ Calls["open"][5] = "reset A" /\ Calls["open"][6] = "set mode A"
  /\ Calls["program"][1] = "claim B" /\ Calls["program"][2] = "set mode B"
  /\ Calls["program"][3] = "chain" /\ Calls["program"][4] = "bitfile"
  /\ Calls["program"][5] = "enable" /\ Calls["program"][6] = "JPROGRAM"
  /\ Calls["program"][7] = "clear" /\ Calls["program"][8] = "load"
  /\ Calls["program"][9] = "wait"
BY DEF Calls

\* Which call of Device::open runs determines how far it is.
LEMMA OpenAt ==
  ASSUME Stage
  PROVE  /\ Running("open", "claim A") => routine = "open" /\ at = 1
         /\ Running("open", "claim B") => routine = "open" /\ at = 2
         /\ Running("open", "purge B") => routine = "open" /\ at = 3
         /\ Running("open", "close B") => routine = "open" /\ at = 4
         /\ Running("open", "reset A") => routine = "open" /\ at = 5
         /\ Running("open", "set mode A") => routine = "open" /\ at = 6
<1>1. CASE routine = "open"
  <2>1. at = 1 \/ at = 2 \/ at = 3 \/ at = 4 \/ at = 5 \/ at = 6
    BY <1>1 DEF Stage
  <2>. QED  BY <1>1, <2>1, Order DEF Running
<1>2. CASE routine # "open"
  BY <1>2 DEF Running
<1>. QED  BY <1>1, <1>2

\* The same for the programmer.
LEMMA ProgramAt ==
  ASSUME Stage
  PROVE  /\ Running("program", "claim B") => routine = "program" /\ at = 1
         /\ Running("program", "set mode B") => routine = "program" /\ at = 2
         /\ Running("program", "chain") => routine = "program" /\ at = 3
         /\ Running("program", "bitfile") => routine = "program" /\ at = 4
         /\ Running("program", "enable") => routine = "program" /\ at = 5
         /\ Running("program", "JPROGRAM") => routine = "program" /\ at = 6
         /\ Running("program", "clear") => routine = "program" /\ at = 7
         /\ Running("program", "load") => routine = "program" /\ at = 8
         /\ Running("program", "wait") => routine = "program" /\ at = 9
<1>1. CASE routine = "program"
  <2>1. \/ at = 1 \/ at = 2 \/ at = 3 \/ at = 4 \/ at = 5
        \/ at = 6 \/ at = 7 \/ at = 8 \/ at = 9
    BY <1>1 DEF Stage
  <2>. QED  BY <1>1, <2>1, Order DEF Running
<1>2. CASE routine # "program"
  BY <1>2 DEF Running
<1>. QED  BY <1>1, <1>2

-----------------------------------------------------------------------------
(* What the device manager's model knows. *)

KnownOpening(ok, lost, present, before) ==
  \E o \in Manager(present)!Opening("d", before) : ok = o.open /\ o.leaked = lost
KnownProgramming(ok, lost, present, before) ==
  \E o \in Manager(present)!Programming("d", before) : ok = o.done /\ o.leaked = lost

\* Opening may always fail and lose nothing; it may lose A if the board was
\* there and A free, and succeed if both were (Opening).
LEMMA OpeningOutcomes ==
  ASSUME NEW present \in BOOLEAN, NEW before \in SUBSET Interfaces
  PROVE  /\ KnownOpening(FALSE, before, present, before)
         /\ present /\ "A" \notin before =>
              KnownOpening(FALSE, before \cup {"A"}, present, before)
         /\ present /\ "A" \notin before /\ "B" \notin before =>
              KnownOpening(TRUE, before, present, before)
<1> DEFINE O == Manager(present)!Opening("d", before)
           R(ok, lost, c) == [open |-> ok, leaked |-> lost, cost |-> c]
<1>1. \E c \in {0, 1} : R(FALSE, before, c) \in O
  BY DEF Manager!Opening, Manager!NoSerial
<1>2. present /\ "A" \notin before => \E c \in {0, 1} : R(FALSE, before \cup {"A"}, c) \in O
  BY DEF Manager!Opening, Manager!NoSerial
<1>3. present /\ "A" \notin before /\ "B" \notin before => R(TRUE, before, 0) \in O
  BY DEF Manager!Opening, Manager!NoSerial
<1>4. ASSUME NEW ok, NEW lost, NEW c, R(ok, lost, c) \in O
      PROVE  KnownOpening(ok, lost, present, before)
  <2>1. R(ok, lost, c).open = ok /\ R(ok, lost, c).leaked = lost  OBVIOUS
  <2>. QED  BY <1>4, <2>1 DEF KnownOpening
<1> HIDE DEF O, R
<1>. QED  BY <1>1, <1>2, <1>3, <1>4

\* Programming may always fail and lose nothing; with the board and B it may
\* lose B, or succeed (Programming).
LEMMA ProgrammingOutcomes ==
  ASSUME NEW present \in BOOLEAN, NEW before \in SUBSET Interfaces
  PROVE  /\ KnownProgramming(FALSE, before, present, before)
         /\ present /\ "B" \notin before =>
              /\ KnownProgramming(FALSE, before \cup {"B"}, present, before)
              /\ KnownProgramming(TRUE, before, present, before)
<1> DEFINE O == Manager(present)!Programming("d", before)
           R(ok, lost, c) == [done |-> ok, leaked |-> lost, cost |-> c]
<1>1. \E c \in {0, 1} : R(FALSE, before, c) \in O
  BY DEF Manager!Programming, Manager!NoSerial
<1>2. present /\ "B" \notin before =>
        R(FALSE, before \cup {"B"}, 1) \in O /\ R(TRUE, before, 0) \in O
  BY DEF Manager!Programming, Manager!NoSerial
<1>3. ASSUME NEW ok, NEW lost, NEW c, R(ok, lost, c) \in O
      PROVE  KnownProgramming(ok, lost, present, before)
  <2>1. R(ok, lost, c).done = ok /\ R(ok, lost, c).leaked = lost  OBVIOUS
  <2>. QED  BY <1>3, <2>1 DEF KnownProgramming
<1> HIDE DEF O, R
<1>. QED  BY <1>1, <1>2, <1>3

\* A step that ends no routine has nothing to answer for.
LEMMA NothingEnds ==
  ASSUME ended' = Nothing
  PROVE  ManagerKnowsOutcomes' /\ SuccessMeansConfigured'
BY DEF ManagerKnowsOutcomes, SuccessMeansConfigured

\* What ManagerKnowsOutcomes asks of the end of Device::open.
LEMMA OpeningEnds ==
  ASSUME NEW ok, NEW lost, ended' = End("open", ok, lost),
         KnownOpening(ok, lost, begun.plugged, begun.lost)
  PROVE  ManagerKnowsOutcomes' /\ SuccessMeansConfigured'
<1>1. /\ ended'.routine = "open" /\ ended'.ok = ok /\ ended'.lost = lost
      /\ ended'.begun = begun
  BY DEF End
<1>2. ManagerKnowsOutcomes'
  BY <1>1 DEF KnownOpening, ManagerKnowsOutcomes
<1>. QED  BY <1>1, <1>2 DEF SuccessMeansConfigured

\* What it asks of the end of programming.
LEMMA ProgrammingEnds ==
  ASSUME NEW ok, NEW lost, ended' = End("program", ok, lost),
         KnownProgramming(ok, lost, begun.plugged, begun.lost),
         ok => fpga' = "running" \/ overtaken',
         ~bits'.whole /\ begun.fpga = "running" => fpga' = "running"
  PROVE  ManagerKnowsOutcomes' /\ SuccessMeansConfigured'
<1>1. /\ ended'.routine = "program" /\ ended'.ok = ok /\ ended'.lost = lost
      /\ ended'.begun = begun
  BY DEF End
<1>2. ManagerKnowsOutcomes'
  BY <1>1 DEF KnownProgramming, ManagerKnowsOutcomes
<1>. QED  BY <1>1, <1>2 DEF SuccessMeansConfigured

-----------------------------------------------------------------------------
(* The ends of the routines. *)

\* A failing Device::open leaves a consistent state if it has released or lost
\* what it claimed, in a way that the device manager knows (OpenThrows).
LEMMA ThrowingKeeps ==
  ASSUME State, routine = "open", OpenThrows(holder'),
         holder' \in [Interfaces -> {"free", "nobody"}],
         KnownOpening(FALSE, Lost', begun.plugged, begun.lost)
  PROVE  IInv'
<1>1. TypeOK'
  BY DEF State, TypeOK, OpenThrows, fpgaVars, Claimants
<1>2. Stage'
  BY DEF State, Stage, OpenThrows
<1>3. Claims'
  BY DEF OpenThrows, Claims, IdleHoldsOnlyTheDevice, Busy
<1>4. Since' /\ Flow'
  BY DEF OpenThrows, Since, Flow, Busy
<1>5. ended' = End("open", FALSE, Lost')
  BY DEF OpenThrows, Lost
<1>6. ManagerKnowsOutcomes' /\ SuccessMeansConfigured'
  BY <1>5, OpeningEnds
<1>. QED  BY <1>1, <1>2, <1>3, <1>4, <1>6 DEF IInv, State

\* Device::open that returns goes on to programming, or leaves a device that
\* holds A, or one that is destroyed (OpenReturns).
LEMMA ReturningKeeps ==
  ASSUME State, routine = "open", at = 6, OpenReturns
  PROVE  IInv'
<1>1. /\ holder["A"] = "open" /\ holder["B"] = "free"
      /\ begun.plugged /\ begun.lost = Lost /\ Lost = {}
  BY DEF State, Claims, Since, Busy, Lost
<1>2. begun' \in [plugged : BOOLEAN, lost : SUBSET Interfaces, fpga : FpgaStates]
  BY DEF OpenReturns, Begin, State, TypeOK
<1>3. holder' \in [Interfaces -> Claimants] /\ bits'.whole \in BOOLEAN
  <2>1. holder' \in [Interfaces -> Claimants]
    BY DEF OpenReturns, State, TypeOK, Claimants
  <2>2. bits' = NoResult \/ bits' = bits
    BY DEF OpenReturns, Begin
  <2>3. NoResult.whole = FALSE /\ bits.whole \in BOOLEAN
    BY DEF NoResult, Result, State, TypeOK
  <2>. QED  BY <2>1, <2>2, <2>3
<1>4. TypeOK'
  BY <1>2, <1>3 DEF State, TypeOK, OpenReturns, fpgaVars
<1>5. Stage'
  BY DEF State, Stage, OpenReturns, Begin
<1>6. Claims'
  BY <1>1 DEF State, TypeOK, OpenReturns, Begin, Claims, IdleHoldsOnlyTheDevice, Busy
<1>7. Since'
  BY <1>1 DEF State, TypeOK, OpenReturns, Begin, Since, Busy, Lost
<1>8. Flow'
  BY DEF OpenReturns, Begin, Flow, fpgaVars
<1>9. KnownOpening(TRUE, Lost, begun.plugged, begun.lost)
  BY <1>1, OpeningOutcomes DEF State, TypeOK
<1>10. ManagerKnowsOutcomes' /\ SuccessMeansConfigured'
  <2>1. PICK lost : lost = Lost  OBVIOUS
  <2>2. ended' = End("open", TRUE, lost)  BY <2>1 DEF OpenReturns
  <2>3. KnownOpening(TRUE, lost, begun.plugged, begun.lost)  BY <1>9, <2>1
  <2>. QED  BY <2>2, <2>3, OpeningEnds
<1>. QED  BY <1>4, <1>5, <1>6, <1>7, <1>8, <1>10 DEF IInv, State

\* The end of programming leaves a state in which the device can be opened
\* again, if the cable has released or lost B (ProgramEnds).
LEMMA EndingKeeps ==
  ASSUME State, routine = "program", NEW ok \in BOOLEAN, ProgramEnds(ok, holder'),
         UNCHANGED <<plugged, fpgaVars>>,
         holder' \in [Interfaces -> {"free", "nobody"}],
         KnownProgramming(ok, Lost', begun.plugged, begun.lost),
         ok => fpga = "running" \/ overtaken,
         at <= 4 \/ bits.whole
  PROVE  IInv'
<1>1. begun' = [plugged |-> plugged, lost |-> Lost', fpga |-> fpga]
  BY DEF ProgramEnds, Begin, Lost
<1>2. TypeOK'
  BY <1>1 DEF State, TypeOK, ProgramEnds, Begin, fpgaVars, Claimants, Lost
<1>3. Stage'
  BY DEF State, Stage, ProgramEnds, Begin
<1>4. Claims'
  BY DEF ProgramEnds, Begin, Claims, IdleHoldsOnlyTheDevice, Busy
<1>5. Since'
  BY <1>1 DEF ProgramEnds, Begin, Since, Busy
<1>6. Flow'
  BY DEF ProgramEnds, Begin, Flow
<1>7. ~bits'.whole /\ begun.fpga = "running" => fpga' = "running"
  <2>1. bits' = bits /\ fpga' = fpga  BY DEF ProgramEnds, Begin, fpgaVars
  <2>2. at <= 4 /\ begun.fpga = "running" => fpga = "running"
    BY DEF State, Stage, Flow
  <2>. QED  BY <2>1, <2>2
<1>8. ManagerKnowsOutcomes' /\ SuccessMeansConfigured'
  <2>1. PICK lost : lost = Lost'  OBVIOUS
  <2>2. ended' = End("program", ok, lost)  BY <2>1 DEF ProgramEnds, Lost
  <2>3. KnownProgramming(ok, lost, begun.plugged, begun.lost)  BY <2>1
  <2>4. ok => fpga' = "running" \/ overtaken'  BY DEF fpgaVars
  <2>. QED  BY <1>7, <2>2, <2>3, <2>4, ProgrammingEnds
<1>. QED  BY <1>2, <1>3, <1>4, <1>5, <1>6, <1>8 DEF IInv, State

-----------------------------------------------------------------------------
(* The steps of the routines. *)

\* Who may have claimed the interfaces while Device::open runs.
LEMMA OpenHolds ==
  ASSUME State, routine = "open"
  PROVE  /\ at > 1 => begun.plugged /\ "A" \notin begun.lost /\ holder["A"] = "open"
         /\ at > 2 => "B" \notin begun.lost /\ holder["B"] \in {"open", "free"}
         /\ at = 1 => holder["A"] \in {"free", "nobody"}
         /\ at <= 2 => holder["B"] \in {"free", "nobody"}
         /\ at = 3 \/ at = 4 => holder["B"] = "open"
         /\ at = 5 \/ at = 6 => holder["B"] = "free"
         /\ at \in 1 .. 6
         /\ begun.lost = Lost /\ begun.lost \in SUBSET Interfaces
         /\ begun.plugged \in BOOLEAN
BY DEF State, Stage, TypeOK, Claims, Since, Busy, Lost

\* A call of Device::open that succeeds and is not the last, when the claims
\* then fit the next call.
LEMMA OpenProceeds ==
  ASSUME State, routine = "open", at \in 1 .. 5, Proceed, UNCHANGED fpgaVars,
         UNCHANGED plugged, at = 1 => plugged,
         holder' \in [Interfaces -> Claimants], Lost' = Lost,
         holder'["A"] = "open",
         at = 1 => holder'["B"] \in {"free", "nobody"},
         at = 2 \/ at = 3 => holder'["B"] = "open",
         at >= 4 => holder'["B"] = "free"
  PROVE  IInv'
<1>1. TypeOK'
  BY DEF State, TypeOK, Claimants, Proceed, Advance, fpgaVars
<1>2. Stage'
  BY DEF State, Stage, Proceed, Advance
<1>3. Claims'
  BY DEF State, Claims, IdleHoldsOnlyTheDevice, Busy, Proceed, Advance
<1>4. Since'
  BY DEF State, Since, Busy, Proceed, Advance
<1>5. Flow'
  BY DEF Flow, Proceed, Advance
<1>. QED
  BY <1>1, <1>2, <1>3, <1>4, <1>5, NothingEnds DEF IInv, State, Proceed, Advance

\* The claim of A (ftdi_usb_open_dev in Device::open).
LEMMA ClaimAKeeps ==
  ASSUME State, ClaimA  PROVE IInv'
<1>1. CASE /\ Running("open", "claim A")
           /\ Claim("A", "open") /\ Proceed /\ UNCHANGED <<plugged, fpgaVars>>
  <2>1. routine = "open" /\ at = 1  BY <1>1, OpenAt DEF State
  <2>2. holder["A"] = "free" /\ holder' = [holder EXCEPT !["A"] = "open"]  BY <1>1 DEF Claim
  <2>3. holder["B"] \in {"free", "nobody"} /\ holder \in [Interfaces -> Claimants]  BY <2>1, OpenHolds DEF State, TypeOK
  <2>4. holder' \in [Interfaces -> Claimants] /\ Lost' = Lost
        /\ holder'["A"] = "open" /\ holder'["B"] \in {"free", "nobody"}
    BY <2>2, <2>3 DEF Claimants, Lost
  <2>5. Proceed /\ UNCHANGED plugged /\ UNCHANGED fpgaVars /\ (at = 1 => plugged)
    BY <1>1, <2>1 DEF Claim
  <2>. QED  BY <2>1, <2>4, <2>5, OpenProceeds
<1>2. CASE Running("open", "claim A") /\ OpenThrows(holder)
  <2>1. routine = "open" /\ at = 1  BY <1>2, OpenAt DEF State
  <2>2. holder' = holder  BY <1>2 DEF OpenThrows
  <2>3. OpenThrows(holder')  BY <1>2, <2>2 DEF OpenThrows
  <2>4. holder' \in [Interfaces -> {"free", "nobody"}]
    BY <2>1, <2>2, OpenHolds DEF State, TypeOK
  <2>5. Lost' = begun.lost  BY <2>1, <2>2, OpenHolds DEF Lost
  <2>6. KnownOpening(FALSE, Lost', begun.plugged, begun.lost)
    BY <2>1, <2>5, OpenHolds, OpeningOutcomes
  <2>. QED  BY <2>1, <2>3, <2>4, <2>6, ThrowingKeeps
<1>. QED  BY <1>1, <1>2 DEF ClaimA

\* A failure at B loses A, and releases B if it was claimed.
LEMMA LosingA ==
  ASSUME State, routine = "open", at \in {2, 3}, OpenThrows(holder'),
         holder' \in [Interfaces -> {"free", "nobody"}], holder'["A"] = "nobody",
         holder'["B"] = "nobody" <=> holder["B"] = "nobody"
  PROVE  IInv'
<1>2. Lost' = begun.lost \cup {"A"}
  BY OpenHolds DEF Lost, State, TypeOK
<1>3. begun.plugged /\ "A" \notin begun.lost /\ begun.lost \in SUBSET Interfaces
  BY OpenHolds
<1>4. KnownOpening(FALSE, Lost', begun.plugged, begun.lost)
  BY <1>2, <1>3, OpeningOutcomes
<1>. QED  BY <1>4, ThrowingKeeps

\* The use of B in Device::open: opened, purged and closed again.
LEMMA UseBKeeps ==
  ASSUME State, UseB  PROVE IInv'
<1>1. CASE /\ Running("open", "claim B")
           /\ Claim("B", "open") /\ Proceed /\ UNCHANGED <<plugged, fpgaVars>>
  <2>1. routine = "open" /\ at = 2  BY <1>1, OpenAt DEF State
  <2>2. holder["B"] = "free" /\ holder' = [holder EXCEPT !["B"] = "open"]  BY <1>1 DEF Claim
  <2>3. holder["A"] = "open" /\ holder \in [Interfaces -> Claimants]  BY <2>1, OpenHolds DEF State, TypeOK
  <2>4. holder' \in [Interfaces -> Claimants] /\ Lost' = Lost
        /\ holder'["A"] = "open" /\ holder'["B"] = "open"
    BY <2>2, <2>3 DEF Claimants, Lost
  <2>5. Proceed /\ UNCHANGED plugged /\ UNCHANGED fpgaVars /\ (at = 1 => plugged)
    BY <1>1, <2>1 DEF Claim
  <2>. QED  BY <2>1, <2>4, <2>5, OpenProceeds
<1>2. CASE Running("open", "claim B") /\ OpenThrows([holder EXCEPT !["A"] = "nobody"])
  <2>1. routine = "open" /\ at = 2  BY <1>2, OpenAt DEF State
  <2>2. holder' = [holder EXCEPT !["A"] = "nobody"]  BY <1>2 DEF OpenThrows
  <2>3. OpenThrows(holder')  BY <1>2, <2>2 DEF OpenThrows
  <2>4. holder["B"] \in {"free", "nobody"}  BY <2>1, OpenHolds
  <2>5. /\ holder' \in [Interfaces -> {"free", "nobody"}] /\ holder'["A"] = "nobody"
        /\ holder'["B"] = "nobody" <=> holder["B"] = "nobody"
    BY <2>1, <2>2, <2>4 DEF State, TypeOK, Claimants
  <2>. QED  BY <2>1, <2>3, <2>5, LosingA
<1>3. CASE /\ Running("open", "purge B") /\ plugged
           /\ Proceed /\ UNCHANGED <<plugged, holder, fpgaVars>>
  <2>1. routine = "open" /\ at = 3  BY <1>3, OpenAt DEF State
  <2>2. holder' = holder  BY <1>3
  <2>3. holder["A"] = "open" /\ holder["B"] = "open" /\ holder \in [Interfaces -> Claimants]  BY <2>1, OpenHolds DEF State, TypeOK
  <2>4. holder' \in [Interfaces -> Claimants] /\ Lost' = Lost
        /\ holder'["A"] = "open" /\ holder'["B"] = "open"
    BY <2>2, <2>3 DEF Claimants, Lost
  <2>5. Proceed /\ UNCHANGED plugged /\ UNCHANGED fpgaVars /\ (at = 1 => plugged)
    BY <1>3, <2>1 DEF Claim
  <2>. QED  BY <2>1, <2>4, <2>5, OpenProceeds
<1>4. CASE /\ Running("open", "purge B")
           /\ OpenThrows([holder EXCEPT !["A"] = "nobody", !["B"] = "free"])
  <2>1. routine = "open" /\ at = 3  BY <1>4, OpenAt DEF State
  <2>2. holder' = [holder EXCEPT !["A"] = "nobody", !["B"] = "free"]  BY <1>4 DEF OpenThrows
  <2>3. OpenThrows(holder')  BY <1>4, <2>2 DEF OpenThrows
  <2>4. holder["B"] = "open"  BY <2>1, OpenHolds
  <2>5. /\ holder' \in [Interfaces -> {"free", "nobody"}] /\ holder'["A"] = "nobody"
        /\ holder'["B"] = "nobody" <=> holder["B"] = "nobody"
    BY <2>2, <2>4 DEF State, TypeOK, Claimants
  <2>. QED  BY <2>1, <2>3, <2>5, LosingA
<1>5. CASE /\ Running("open", "close B") /\ holder' = [holder EXCEPT !["B"] = "free"]
           /\ Proceed /\ UNCHANGED <<plugged, fpgaVars>>
  <2>1. routine = "open" /\ at = 4  BY <1>5, OpenAt DEF State
  <2>2. holder' = [holder EXCEPT !["B"] = "free"]  BY <1>5
  <2>3. holder["A"] = "open" /\ holder["B"] = "open" /\ holder \in [Interfaces -> Claimants]  BY <2>1, OpenHolds DEF State, TypeOK
  <2>4. holder' \in [Interfaces -> Claimants] /\ Lost' = Lost
        /\ holder'["A"] = "open" /\ holder'["B"] = "free"
    BY <2>2, <2>3 DEF Claimants, Lost
  <2>5. Proceed /\ UNCHANGED plugged /\ UNCHANGED fpgaVars  BY <1>5
  <2>. QED  BY <2>1, <2>4, <2>5, OpenProceeds
<1>. QED  BY <1>1, <1>2, <1>3, <1>4, <1>5 DEF UseB

\* The calls after the last use of B (ftdi_usb_reset, ftdi_set_bitmode): a
\* failure releases A.
LEMMA SetUpAKeeps ==
  ASSUME State, SetUpA  PROVE IInv'
<1>1. CASE /\ Running("open", "reset A") /\ plugged /\ Proceed
           /\ UNCHANGED <<plugged, holder, fpgaVars>>
  <2>1. routine = "open" /\ at = 5  BY <1>1, OpenAt DEF State
  <2>2. holder' = holder  BY <1>1 DEF Claim
  <2>3. holder["A"] = "open" /\ holder["B"] = "free" /\ holder \in [Interfaces -> Claimants]  BY <2>1, OpenHolds DEF State, TypeOK
  <2>4. holder' \in [Interfaces -> Claimants] /\ Lost' = Lost
        /\ holder'["A"] = "open" /\ holder'["B"] = "free"
    BY <2>2, <2>3 DEF Claimants, Lost
  <2>5. Proceed /\ UNCHANGED plugged /\ UNCHANGED fpgaVars /\ (at = 1 => plugged)
    BY <1>1, <2>1 DEF Claim
  <2>. QED  BY <2>1, <2>4, <2>5, OpenProceeds
<1>2. CASE Running("open", "set mode A") /\ plugged /\ OpenReturns
  BY <1>2, OpenAt, ReturningKeeps DEF State
<1>3. CASE /\ Running("open", "reset A") \/ Running("open", "set mode A")
           /\ OpenThrows([holder EXCEPT !["A"] = "free"])
  <2>1. routine = "open" /\ (at = 5 \/ at = 6)  BY <1>3, OpenAt DEF State
  <2>2. holder' = [holder EXCEPT !["A"] = "free"]  BY <1>3 DEF OpenThrows
  <2>3. OpenThrows(holder')  BY <1>3, <2>2 DEF OpenThrows
  <2>4. holder' \in [Interfaces -> {"free", "nobody"}]
    BY <2>1, <2>2, OpenHolds DEF State, TypeOK
  <2>5. Lost' = begun.lost
    BY <2>1, <2>2, OpenHolds DEF Lost, State, TypeOK
  <2>6. KnownOpening(FALSE, Lost', begun.plugged, begun.lost)
    BY <2>5, <2>1, OpenHolds, OpeningOutcomes
  <2>. QED  BY <2>1, <2>3, <2>4, <2>6, ThrowingKeeps
<1>. QED  BY <1>1, <1>2, <1>3 DEF SetUpA

-----------------------------------------------------------------------------
(* The steps of the programmer. *)

\* Who may have claimed the interfaces while the programmer runs.
LEMMA ProgramHolds ==
  ASSUME State, routine = "program"
  PROVE  /\ holder["A"] \in {"free", "nobody"}
         /\ at = 1 => holder["B"] \in {"free", "nobody"}
         /\ at > 1 => holder["B"] = "cable" /\ begun.plugged /\ "B" \notin begun.lost
         /\ at \in 1 .. 9
         /\ begun.lost = Lost /\ begun.lost \in SUBSET Interfaces
         /\ begun.plugged \in BOOLEAN
BY DEF State, Stage, TypeOK, Claims, Since, Busy, Lost

\* A call of the programmer that does not end it, when what it says about the
\* FPGA fits the next call.
LEMMA ProgramProceeds ==
  ASSUME State, routine = "program", at' \in 1 .. 9, at' = at \/ at' = at + 1,
         ended' = Nothing, UNCHANGED <<device, routine, threw, begun, plugged>>,
         at = 1 => plugged,
         at' > 1, at > 1 => holder' = holder,
         at = 1 => holder' = [holder EXCEPT !["B"] = "cable"] /\ holder["B"] = "free",
         bits'.whole \in BOOLEAN, captured' \in SUBSET {"INIT", "DONE"},
         overtaken' \in BOOLEAN, fpga' \in FpgaStates,
         Flow'
  PROVE  IInv'
<1>1. at \in 1 .. 9 /\ (at = 1 \/ at > 1)  BY ProgramHolds
<1>2. holder' \in [Interfaces -> Claimants]
  BY <1>1 DEF State, TypeOK, Claimants
<1>3. TypeOK'
  BY <1>2 DEF State, TypeOK
<1>4. Stage'
  BY DEF State, Stage
<1>5. holder'["A"] = holder["A"] /\ holder'["B"] = "cable"
  <2>1. CASE at = 1
    BY <2>1 DEF State, TypeOK
  <2>2. CASE at > 1
    BY <2>2, ProgramHolds
  <2>. QED  BY <1>1, <2>1, <2>2
<1>6. Claims'
  BY <1>5, ProgramHolds DEF Claims, IdleHoldsOnlyTheDevice, Busy
<1>7. Lost' = Lost
  <2>1. CASE at = 1
    BY <2>1, <1>5 DEF Lost
  <2>2. CASE at > 1
    BY <2>2 DEF Lost
  <2>. QED  BY <1>1, <2>1, <2>2
<1>8. Since'
  <2>1. begun.lost = Lost /\ begun.plugged
    <3>1. CASE at = 1
      BY <3>1, ProgramHolds DEF State, Since, Busy
    <3>2. CASE at > 1
      BY <3>2, ProgramHolds
    <3>. QED  BY <1>1, <3>1, <3>2
  <2>. QED  BY <1>7, <2>1 DEF Since
<1>. QED  BY <1>3, <1>4, <1>6, <1>8, NothingEnds DEF IInv, State

\* Once the cable has B, the programmer can only end with B released, which the
\* device manager knows (the destructor of IOFtdi).
LEMMA DeinitKeeps ==
  ASSUME State, routine = "program", at > 1, NEW ok \in BOOLEAN,
         ProgramEnds(ok, deinit), UNCHANGED <<plugged, fpgaVars>>,
         ok => fpga = "running" \/ overtaken,
         at <= 4 \/ bits.whole
  PROVE  IInv'
<1>1. /\ holder["A"] \in {"free", "nobody"} /\ holder["B"] = "cable"
      /\ begun.plugged /\ "B" \notin begun.lost
      /\ begun.lost = Lost /\ begun.lost \in SUBSET Interfaces
  BY ProgramHolds
<1>2. holder' = [holder EXCEPT !["B"] = "free"]
  BY DEF ProgramEnds, deinit
<1>3. ProgramEnds(ok, holder')
  BY DEF ProgramEnds, Begin
<1>4. holder' \in [Interfaces -> {"free", "nobody"}] /\ Lost' = begun.lost
  BY <1>1, <1>2 DEF State, TypeOK, Lost
<1>5. KnownProgramming(ok, begun.lost, begun.plugged, begun.lost)
  BY <1>1, ProgrammingOutcomes
<1>6. KnownProgramming(ok, Lost', begun.plugged, begun.lost)
  BY <1>4, <1>5
<1>. QED  BY <1>3, <1>4, <1>6, EndingKeeps

\* The claim of B and the mode of the cable (the constructor of IOFtdi): a
\* failure in between loses B.
LEMMA ConstructCableKeeps ==
  ASSUME State, ConstructCable  PROVE IInv'
<1>1. UNCHANGED plugged /\ UNCHANGED fpgaVars /\ UNCHANGED <<plugged, fpgaVars>>
  BY DEF ConstructCable
<1>2. UNCHANGED fpga /\ UNCHANGED captured /\ UNCHANGED overtaken
  BY <1>1 DEF fpgaVars
<1>3. ASSUME Running("program", "claim B"), Claim("B", "cable"), Proceed
      PROVE  IInv'
  <2>1. routine = "program" /\ at = 1  BY <1>3, ProgramAt DEF State
  <2>3. /\ at' = at + 1 /\ ended' = Nothing /\ UNCHANGED bits
        /\ UNCHANGED <<device, routine, threw, begun, plugged>>
    BY <1>1, <1>3 DEF Proceed, Advance
  <2>2. Flow'
    BY <1>2, <2>1, <2>3 DEF State, Flow
  <2>4. plugged /\ holder["B"] = "free" /\ holder' = [holder EXCEPT !["B"] = "cable"]
    BY <1>3 DEF Claim
  <2>7. /\ bits'.whole \in BOOLEAN /\ captured' \in SUBSET {"INIT", "DONE"}
        /\ overtaken' \in BOOLEAN /\ fpga' \in FpgaStates
    BY <1>2, <2>3 DEF State, TypeOK
  <2>8. at' \in 1 .. 9 /\ (at' = at \/ at' = at + 1) /\ at' > 1
    BY <2>1, <2>3
  <2>. QED  BY <2>1, <2>2, <2>3, <2>4, <2>7, <2>8, ProgramProceeds
<1>4. ASSUME Running("program", "claim B"), ProgramEnds(FALSE, holder)
      PROVE  IInv'
  <2>1. routine = "program" /\ at = 1  BY <1>4, ProgramAt DEF State
  <2>2. holder' = holder  BY <1>4 DEF ProgramEnds
  <2>3. ProgramEnds(FALSE, holder')  BY <1>4, <2>2 DEF ProgramEnds, Begin
  <2>4. holder' \in [Interfaces -> {"free", "nobody"}] /\ Lost' = begun.lost
    BY <2>1, <2>2, ProgramHolds DEF State, TypeOK, Lost
  <2>5. KnownProgramming(FALSE, begun.lost, begun.plugged, begun.lost)
    BY <2>1, ProgramHolds, ProgrammingOutcomes
  <2>6. KnownProgramming(FALSE, Lost', begun.plugged, begun.lost)
    BY <2>4, <2>5
  <2>7. at <= 4  BY <2>1
  <2>. QED  BY <1>1, <2>1, <2>3, <2>4, <2>6, <2>7, EndingKeeps
<1>5. ASSUME Running("program", "set mode B"), plugged, Proceed, UNCHANGED holder
      PROVE  IInv'
  <2>1. routine = "program" /\ at = 2  BY <1>5, ProgramAt DEF State
  <2>3. /\ at' = at + 1 /\ ended' = Nothing /\ UNCHANGED bits
        /\ UNCHANGED <<device, routine, threw, begun, plugged>>
    BY <1>1, <1>5 DEF Proceed, Advance
  <2>2. Flow'
    BY <1>2, <2>1, <2>3 DEF State, Flow
  <2>7. /\ bits'.whole \in BOOLEAN /\ captured' \in SUBSET {"INIT", "DONE"}
        /\ overtaken' \in BOOLEAN /\ fpga' \in FpgaStates
    BY <1>2, <2>3 DEF State, TypeOK
  <2>8. at' \in 1 .. 9 /\ (at' = at \/ at' = at + 1) /\ at' > 1
    BY <2>1, <2>3
  <2>9. at # 1 /\ at > 1  BY <2>1
  <2>10. holder' = holder  BY <1>5
  <2>. QED  BY <2>1, <2>2, <2>3, <2>7, <2>8, <2>9, <2>10, ProgramProceeds
<1>6. ASSUME Running("program", "set mode B"),
             ProgramEnds(FALSE, [holder EXCEPT !["B"] = "nobody"])
      PROVE  IInv'
  <2>1. routine = "program" /\ at = 2  BY <1>6, ProgramAt DEF State
  <2>2. holder' = [holder EXCEPT !["B"] = "nobody"]  BY <1>6 DEF ProgramEnds
  <2>3. ProgramEnds(FALSE, holder')  BY <1>6, <2>2 DEF ProgramEnds, Begin
  <2>4. /\ holder["A"] \in {"free", "nobody"} /\ begun.lost = Lost
        /\ begun.plugged /\ "B" \notin begun.lost /\ begun.lost \in SUBSET Interfaces
    BY <2>1, ProgramHolds
  <2>5. holder' \in [Interfaces -> {"free", "nobody"}] /\ Lost' = begun.lost \cup {"B"}
    BY <2>2, <2>4 DEF State, TypeOK, Lost
  <2>6. KnownProgramming(FALSE, begun.lost \cup {"B"}, begun.plugged, begun.lost)
    BY <2>4, ProgrammingOutcomes
  <2>7. KnownProgramming(FALSE, Lost', begun.plugged, begun.lost)
    BY <2>5, <2>6
  <2>8. at <= 4  BY <2>1
  <2>. QED  BY <1>1, <2>1, <2>3, <2>5, <2>7, <2>8, EndingKeeps
<1>. QED  BY <1>3, <1>4, <1>5, <1>6 DEF ConstructCable

\* An exception from the chain, the file or a transfer.
LEMMA ThrowsKeeps ==
  ASSUME State, ProgramThrows  PROVE IInv'
<1>1. /\ routine = "program" /\ at > 2 /\ ProgramEnds(FALSE, deinit)
      /\ UNCHANGED <<plugged, fpgaVars>>
  BY DEF ProgramThrows
<1>2. at \in 1 .. 9  BY <1>1, ProgramHolds
<1>3. at > 1 /\ (at <= 4 \/ bits.whole)
  BY <1>1, <1>2 DEF State, Flow
<1>. QED  BY <1>1, <1>3, DeinitKeeps

\* The calls that change nothing but what comes next.
LEMMA PrepareKeeps ==
  ASSUME State, Prepare  PROVE IInv'
<1>1. routine = "program" /\ (at = 3 \/ at = 5)
  BY ProgramAt DEF State, Prepare
<1>2. /\ at' = at + 1 /\ ended' = Nothing /\ UNCHANGED bits
      /\ UNCHANGED <<device, routine, threw, begun, plugged>>
      /\ UNCHANGED holder /\ UNCHANGED fpga /\ UNCHANGED captured /\ UNCHANGED overtaken
  BY DEF Prepare, Proceed, Advance, fpgaVars
<1>3. Flow'
  BY <1>1, <1>2 DEF State, Flow
<1>4. /\ bits'.whole \in BOOLEAN /\ captured' \in SUBSET {"INIT", "DONE"}
      /\ overtaken' \in BOOLEAN /\ fpga' \in FpgaStates
  BY <1>2 DEF State, TypeOK
<1>5. at' \in 1 .. 9 /\ at' = at + 1 /\ at' > 1 /\ at > 1 /\ at # 1
  BY <1>1, <1>2
<1>. QED  BY <1>1, <1>2, <1>3, <1>4, <1>5, ProgramProceeds

\* Programming goes on only with a file that was read whole (readBitfile).
LEMMA OnlyWholeFiles ==
  ASSUME NEW f, readBitfile(f).code = 0
  PROVE  readBitfile(f).whole = TRUE
BY DEF readBitfile, processData, Result

\* The bitfile is read before the FPGA is touched.
LEMMA ReadBitfileKeeps ==
  ASSUME State, ReadBitfile  PROVE IInv'
<1>1. routine = "program" /\ at = 4
  BY ProgramAt DEF State, ReadBitfile
<1>2. UNCHANGED <<plugged, fpgaVars>>
  BY DEF ReadBitfile
<1>3. PICK f \in Files :
        IF readBitfile(f).code = 0
          THEN Advance /\ bits' = readBitfile(f) /\ UNCHANGED holder
          ELSE ProgramEnds(FALSE, deinit)
  BY DEF ReadBitfile
<1>4. CASE readBitfile(f).code = 0
  <2>1. /\ at' = at + 1 /\ ended' = Nothing
        /\ UNCHANGED <<device, routine, threw, begun, plugged>>
        /\ UNCHANGED holder /\ bits' = readBitfile(f)
    BY <1>2, <1>3, <1>4 DEF Advance
  <2>2. UNCHANGED fpga /\ UNCHANGED captured /\ UNCHANGED overtaken
    BY <1>2 DEF fpgaVars
  <2>3. bits'.whole = TRUE  BY <1>4, <2>1, OnlyWholeFiles
  <2>4. Flow'
    BY <1>1, <2>1, <2>2, <2>3 DEF State, Flow
  <2>5. /\ bits'.whole \in BOOLEAN /\ captured' \in SUBSET {"INIT", "DONE"}
        /\ overtaken' \in BOOLEAN /\ fpga' \in FpgaStates
    BY <2>2, <2>3 DEF State, TypeOK
  <2>6. at' \in 1 .. 9 /\ at' = at + 1 /\ at' > 1 /\ at > 1 /\ at # 1
    BY <1>1, <2>1
  <2>. QED  BY <1>1, <2>1, <2>4, <2>5, <2>6, ProgramProceeds
<1>5. CASE readBitfile(f).code # 0
  <2>1. ProgramEnds(FALSE, deinit)  BY <1>3, <1>5
  <2>2. at > 1 /\ at <= 4  BY <1>1
  <2>. QED  BY <1>1, <1>2, <2>1, <2>2, DeinitKeeps
<1>. QED  BY <1>4, <1>5

\* JPROGRAM: what the polls captured before is forgotten.
LEMMA JProgramKeeps ==
  ASSUME State, JProgram  PROVE IInv'
<1>1. routine = "program" /\ at = 6
  BY ProgramAt DEF State, JProgram
<1>2. /\ at' = at + 1 /\ ended' = Nothing /\ UNCHANGED bits
      /\ UNCHANGED <<device, routine, threw, begun, plugged>>
      /\ UNCHANGED holder
      /\ fpga' \in {"triggered", "clearing"} /\ captured' = {} /\ overtaken' = FALSE
  BY DEF JProgram, Proceed, Advance
<1>3. Flow'
  BY <1>1, <1>2 DEF State, Flow
<1>4. /\ bits'.whole \in BOOLEAN /\ captured' \in SUBSET {"INIT", "DONE"}
      /\ overtaken' \in BOOLEAN /\ fpga' \in FpgaStates
  BY <1>2 DEF State, TypeOK, FpgaStates
<1>5. at' \in 1 .. 9 /\ at' = at + 1 /\ at' > 1 /\ at > 1 /\ at # 1
  BY <1>1, <1>2
<1>. QED  BY <1>1, <1>2, <1>3, <1>4, <1>5, ProgramProceeds

\* What a poll captures (Capture).
LEMMA CaptureTells ==
  /\ Capture \in SUBSET {"INIT", "DONE"}
  /\ "DONE" \in Capture <=> fpga \in {"running", "triggered"}
  /\ "INIT" \in Capture <=> fpga # "clearing"
BY DEF Capture

\* The first loop: the FPGA that is found not clearing either has been cleared
\* or has been overtaken.
LEMMA PollClearedKeeps ==
  ASSUME State, PollCleared  PROVE IInv'
<1>1. routine = "program" /\ at = 7
  BY ProgramAt DEF State, PollCleared
<1>2. /\ ended' = Nothing /\ UNCHANGED bits
      /\ UNCHANGED <<device, routine, threw, begun, plugged>>
      /\ UNCHANGED holder /\ UNCHANGED fpga /\ captured' = Capture
      /\ overtaken' = (overtaken \/ fpga = "triggered")
      /\ at' = IF fpga # "clearing" THEN at + 1 ELSE at
  BY CaptureTells DEF PollCleared, Proceed, Advance, deviceVars
<1>3. fpga \in {"triggered", "clearing", "blank"}
  BY <1>1 DEF State, Flow
<1>4. Flow'
  <2>1. bits.whole  BY <1>1 DEF State, Flow
  <2>2. at' = 7 \/ (at' = 8 /\ fpga # "clearing")  BY <1>1, <1>2
  <2>3. "DONE" \in captured' => overtaken'  BY <1>2, <1>3, CaptureTells
  <2>4. fpga' = "triggered" => overtaken'  BY <1>2
  <2>. QED  BY <1>2, <1>3, <2>1, <2>2, <2>3, <2>4 DEF Flow
<1>5. /\ bits'.whole \in BOOLEAN /\ captured' \in SUBSET {"INIT", "DONE"}
      /\ overtaken' \in BOOLEAN /\ fpga' \in FpgaStates
  BY <1>2, CaptureTells DEF State, TypeOK
<1>6. at' \in 1 .. 9 /\ (at' = at \/ at' = at + 1) /\ at' > 1 /\ at > 1 /\ at # 1
  BY <1>1, <1>2
<1>. QED  BY <1>1, <1>2, <1>4, <1>5, <1>6, ProgramProceeds

\* The data: only an FPGA that was cleared takes it.
LEMMA LoadKeeps ==
  ASSUME State, Load  PROVE IInv'
<1>1. routine = "program" /\ at = 8
  BY ProgramAt DEF State, Load
<1>2. /\ at' = at + 1 /\ ended' = Nothing /\ UNCHANGED bits
      /\ UNCHANGED <<device, routine, threw, begun, plugged>>
      /\ UNCHANGED holder /\ UNCHANGED captured /\ UNCHANGED overtaken
      /\ fpga' = fpga \/ (fpga = "blank" /\ fpga' = "starting")
  BY DEF Load, Proceed, Advance
<1>3. Flow'
  BY <1>1, <1>2 DEF State, Flow
<1>4. /\ bits'.whole \in BOOLEAN /\ captured' \in SUBSET {"INIT", "DONE"}
      /\ overtaken' \in BOOLEAN /\ fpga' \in FpgaStates
  BY <1>2 DEF State, TypeOK, FpgaStates
<1>5. at' \in 1 .. 9 /\ at' = at + 1 /\ at' > 1 /\ at > 1 /\ at # 1
  BY <1>1, <1>2
<1>. QED  BY <1>1, <1>2, <1>3, <1>4, <1>5, ProgramProceeds

\* The second loop: DONE is captured from a running FPGA, or from one that was
\* overtaken.
LEMMA PollDoneKeeps ==
  ASSUME State, PollDone  PROVE IInv'
<1>1. routine = "program" /\ at = 9
  BY ProgramAt DEF State, PollDone
<1>2. /\ at' = at /\ ended' = Nothing /\ UNCHANGED bits
      /\ UNCHANGED <<device, routine, threw, begun, plugged>>
      /\ UNCHANGED holder /\ captured' = Capture /\ UNCHANGED overtaken
      /\ UNCHANGED fpga
  BY DEF PollDone, deviceVars
<1>3. Flow'
  BY <1>1, <1>2, CaptureTells DEF State, Flow
<1>4. /\ bits'.whole \in BOOLEAN /\ captured' \in SUBSET {"INIT", "DONE"}
      /\ overtaken' \in BOOLEAN /\ fpga' \in FpgaStates
  BY <1>2, CaptureTells DEF State, TypeOK
<1>5. at' \in 1 .. 9 /\ at' = at /\ at' > 1 /\ at > 1 /\ at # 1
  BY <1>1, <1>2
<1>. QED  BY <1>1, <1>2, <1>3, <1>4, <1>5, ProgramProceeds

\* After the second loop the counter stands for DONE.
LEMMA FinishKeeps ==
  ASSUME State, Finish  PROVE IInv'
<1>1. routine = "program" /\ at = 9
  BY ProgramAt DEF State, Finish
<1>2. PICK ok \in BOOLEAN : ok = (polls # MaxPolls)  OBVIOUS
<1>3. ProgramEnds(ok, deinit)  BY <1>2 DEF Finish
<1>4. UNCHANGED <<plugged, fpgaVars>>  BY DEF Finish
<1>5. ok => fpga = "running" \/ overtaken
  <2>1. ok => "DONE" \in captured  BY <1>2 DEF Finish, Polled
  <2>2. "DONE" \in captured => fpga = "running" \/ overtaken
    BY <1>1 DEF State, Flow
  <2>. QED  BY <2>1, <2>2
<1>6. bits.whole /\ at > 1
  BY <1>1 DEF State, Flow
<1>. QED  BY <1>1, <1>3, <1>4, <1>5, <1>6, DeinitKeeps

-----------------------------------------------------------------------------
(* The other steps. *)

\* What is claimed when a routine may begin.
LEMMA IdleHolds ==
  ASSUME State, ~Busy
  PROVE  /\ holder["B"] \in {"free", "nobody"}
         /\ holder["A"] \in {"free", "nobody", "device"}
         /\ holder["A"] = "device" => device = "listed" /\ holder["B"] = "free"
         /\ routine = "idle" /\ at = 1 /\ threw = FALSE
         /\ device \in {"none", "listed"}
         /\ Lost \in SUBSET Interfaces
BY DEF State, Stage, Claims, IdleHoldsOnlyTheDevice, Busy, Lost

\* A device is constructed, which opens it.
LEMMA CreateKeeps ==
  ASSUME State, CreateDevice  PROVE IInv'
<1>1. ~Busy /\ device = "none" /\ holder["A"] # "device"
  BY IdleHolds DEF CreateDevice
<1>2. begun' = [plugged |-> plugged, lost |-> Lost, fpga |-> fpga]
  BY DEF CreateDevice, Begin, Lost
<1>3. UNCHANGED fpga /\ UNCHANGED captured /\ UNCHANGED overtaken
  BY DEF CreateDevice, fpgaVars
<1>4. /\ UNCHANGED <<plugged, holder, threw>> /\ bits' = bits /\ ended' = Nothing
      /\ device' = "new" /\ routine' = "open" /\ at' = 1
  BY DEF CreateDevice, Begin
<1>5. TypeOK'
  BY <1>1, <1>2, <1>3, <1>4, IdleHolds DEF State, TypeOK
<1>6. Stage'
  BY <1>4 DEF Stage
<1>7. Claims'
  BY <1>1, <1>4, IdleHolds DEF Claims, IdleHoldsOnlyTheDevice, Busy
<1>8. Since'
  BY <1>2, <1>4 DEF Since, Lost
<1>9. Flow'
  BY <1>4 DEF Flow
<1>. QED  BY <1>4, <1>5, <1>6, <1>7, <1>8, <1>9, NothingEnds DEF IInv, State

\* A listed device is closed to be programmed (reprogramDevice).
LEMMA ReprogramKeeps ==
  ASSUME State, Reprogram  PROVE IInv'
<1>1. ~Busy /\ device = "listed"
  BY DEF Reprogram
<1>2. begun' = [plugged |-> plugged, lost |-> Lost, fpga |-> fpga]
  BY DEF Reprogram, Begin, Lost
<1>3. UNCHANGED fpga /\ UNCHANGED captured /\ UNCHANGED overtaken
  BY DEF Reprogram, fpgaVars
<1>4. /\ UNCHANGED <<plugged, device, threw>> /\ bits' = NoResult /\ ended' = Nothing
      /\ routine' = "program" /\ at' = 1 /\ holder' = close
  BY DEF Reprogram, Begin
<1>5. NoResult.whole = FALSE
  BY DEF NoResult, Result
<1>6. /\ holder' \in [Interfaces -> Claimants] /\ Lost' = Lost
      /\ holder'["A"] \in {"free", "nobody"} /\ holder'["B"] \in {"free", "nobody"}
  BY <1>1, <1>4, IdleHolds DEF close, State, TypeOK, Claimants, Lost
<1>7. TypeOK'
  BY <1>1, <1>2, <1>3, <1>4, <1>5, <1>6, IdleHolds DEF State, TypeOK
<1>8. Stage'
  BY <1>1, <1>4, IdleHolds DEF Stage
<1>9. Claims'
  BY <1>4, <1>6 DEF Claims, IdleHoldsOnlyTheDevice, Busy
<1>10. Since'
  BY <1>2, <1>4, <1>6 DEF Since
<1>11. Flow'
  BY <1>2, <1>3, <1>4 DEF Flow
<1>. QED  BY <1>4, <1>7, <1>8, <1>9, <1>10, <1>11, NothingEnds DEF IInv, State

\* A listed device is removed, and with it closed.
LEMMA RemoveKeeps ==
  ASSUME State, Remove  PROVE IInv'
<1>1. ~Busy /\ device = "listed"
  BY DEF Remove
<1>2. /\ UNCHANGED <<plugged, routine, at, threw, bits, begun>> /\ ended' = Nothing
      /\ holder' = close /\ device' = "none"
      /\ UNCHANGED fpga /\ UNCHANGED captured /\ UNCHANGED overtaken
  BY DEF Remove, fpgaVars
<1>3. /\ holder' \in [Interfaces -> Claimants]
      /\ holder'["A"] \in {"free", "nobody"} /\ holder'["B"] \in {"free", "nobody"}
  BY <1>1, <1>2, IdleHolds DEF close, State, TypeOK, Claimants
<1>4. TypeOK'
  BY <1>2, <1>3 DEF State, TypeOK
<1>5. Stage' /\ Since' /\ Flow'
  BY <1>1, <1>2, IdleHolds DEF Stage, Since, Flow, Busy
<1>6. Claims'
  BY <1>1, <1>2, <1>3, IdleHolds DEF Claims, IdleHoldsOnlyTheDevice, Busy
<1>. QED  BY <1>2, <1>4, <1>5, <1>6, NothingEnds DEF IInv, State

\* The FPGA moves on: a running one stays as it is, and none comes up before
\* the data.
LEMMA FpgaKeeps ==
  ASSUME State, FpgaMoves  PROVE IInv'
<1>1. /\ UNCHANGED <<plugged, holder, captured, overtaken, begun>> /\ ended' = Nothing
      /\ UNCHANGED <<device, routine, at, threw, bits>>
      /\ \/ fpga = "triggered" /\ fpga' = "clearing"
         \/ fpga = "clearing" /\ fpga' = "blank"
         \/ fpga = "starting" /\ fpga' = "running"
  BY DEF FpgaMoves, deviceVars
<1>2. TypeOK'
  BY <1>1 DEF State, TypeOK, FpgaStates
<1>3. Stage' /\ Claims' /\ Since'
  BY <1>1 DEF State, Stage, Claims, IdleHoldsOnlyTheDevice, Since, Busy, Lost
<1>4. Flow'
  BY <1>1 DEF State, Flow
<1>. QED  BY <1>1, <1>2, <1>3, <1>4, NothingEnds DEF IInv, State

\* The board leaves, whatever runs.
LEMMA UnplugKeeps ==
  ASSUME State, Unplug  PROVE IInv'
<1>1. /\ plugged' = FALSE /\ UNCHANGED <<holder, begun, fpga, captured, overtaken>>
      /\ UNCHANGED <<device, routine, at, threw, bits>> /\ ended' = Nothing
  BY DEF Unplug, deviceVars, fpgaVars
<1>2. TypeOK'
  BY <1>1 DEF State, TypeOK
<1>3. Stage'
  BY <1>1 DEF State, Stage
<1>4. Flow'
  BY <1>1 DEF State, Flow
<1>5. Claims' /\ Since'
  BY <1>1 DEF State, Claims, IdleHoldsOnlyTheDevice, Since, Busy, Lost
<1>. QED  BY <1>1, <1>2, <1>3, <1>4, <1>5, NothingEnds DEF IInv, State

-----------------------------------------------------------------------------
\* Initially nothing runs and nothing is claimed.
LEMMA InitInv == Init => IInv
<1> SUFFICES ASSUME Init PROVE IInv  OBVIOUS
<1>1. TypeOK
  <2>1. NoResult.whole = FALSE  BY DEF NoResult, Result
  <2>. QED  BY <2>1 DEF Init, TypeOK, Claimants, FpgaStates
<1>2. Stage /\ Claims /\ Since /\ Flow
  BY DEF Init, Stage, Claims, IdleHoldsOnlyTheDevice, Since, Flow, Busy
<1>3. ManagerKnowsOutcomes /\ SuccessMeansConfigured
  BY DEF Init, ManagerKnowsOutcomes, SuccessMeansConfigured
<1>. QED  BY <1>1, <1>2, <1>3 DEF IInv, State

\* Every step keeps the invariant.
LEMMA NextInv == IInv /\ [Next]_vars => IInv'
<1> SUFFICES ASSUME IInv, [Next]_vars PROVE IInv'  OBVIOUS
<1>1. State  BY DEF IInv
<1>2. CASE Step
  BY <1>1, <1>2, ClaimAKeeps, UseBKeeps, SetUpAKeeps, ConstructCableKeeps,
     PrepareKeeps, ReadBitfileKeeps, JProgramKeeps, PollClearedKeeps, LoadKeeps,
     PollDoneKeeps, FinishKeeps DEF Step
<1>3. CASE ProgramThrows \/ CreateDevice \/ Reprogram \/ Remove \/ FpgaMoves \/ Unplug
  BY <1>1, <1>3, ThrowsKeeps, CreateKeeps, ReprogramKeeps, RemoveKeeps, FpgaKeeps,
     UnplugKeeps
<1>4. CASE UNCHANGED vars
  <2>1. State'
    BY <1>1, <1>4 DEF State, TypeOK, Stage, Claims, IdleHoldsOnlyTheDevice, Since,
       Flow, Busy, Lost, vars, deviceVars, fpgaVars
  <2>2. ManagerKnowsOutcomes' /\ SuccessMeansConfigured'
    BY <1>4 DEF IInv, ManagerKnowsOutcomes, SuccessMeansConfigured, vars,
       deviceVars, fpgaVars
  <2>. QED  BY <2>1, <2>2 DEF IInv
<1>. QED  BY <1>2, <1>3, <1>4 DEF Next

LEMMA Inductive == Spec => []IInv
BY InitInv, NextInv, PTL DEF Spec

-----------------------------------------------------------------------------
\* However the calls of Device::open and of the programmer fail, and whenever the
\* board leaves, they end as DeviceManager takes them to end (Opening,
\* Programming): its steps leave out no outcome.
THEOREM ManagerKnowsAll == Spec => []ManagerKnowsOutcomes
BY Inductive, PTL DEF IInv

\* Between handlers only a listed device claims an interface, and only A
\* (Device::open, close, the destructors of Device and IOFtdi).
THEOREM IdleHoldsNoMore == Spec => []IdleHoldsOnlyTheDevice
BY Inductive, PTL DEF IInv, State, Claims

\* A programming that succeeds leaves a running FPGA, unless a poll overtook it,
\* and one whose file was not read whole leaves the FPGA alone (array_program,
\* DeviceProgrammer::program).
THEOREM SuccessIsConfigured == Spec => []SuccessMeansConfigured
BY Inductive, PTL DEF IInv
=============================================================================
