----------------------------- MODULE IioTrigger -----------------------------
(***************************************************************************)
(* The iio module of rpi_4b, 3_iio/iio_canonical_moc.c: reads of a         *)
(* channel's raw attribute count moc_data on, with no lock.  probe gives   *)
(* the iio core the number 0xF for the address of the scan masks: whoever  *)
(* enables a channel or the buffer stays in the core, which follows it.    *)
(* So the buffer is never enabled and the trigger handler never called.    *)
(***************************************************************************)
EXTENDS Integers, FiniteSets

CONSTANTS
  Readers,       \* threads that read the raw attribute of a channel
  Modulus,       \* values moc_data has, a u8: 256
  MaxCounts      \* bound: increments

IioAssumption == Modulus \in Nat \ {0} /\ MaxCounts \in Nat

VARIABLES
  bound,         \* moc_iio_probe() done
  oopsed,        \* a write to an enable attribute is still in the iio core
  moc_data,
  loaded,        \* moc_data as each reader's ++ under way has read it, or -1
  counts,        \* history: increments done since probe
  clean,         \* history: those that no other one overlapped
  overlapped     \* history: readers whose increment under way another one overlaps

history == <<counts, clean, overlapped>>
vars == <<bound, oopsed, moc_data, loaded, history>>

Init ==
  /\ bound = FALSE /\ oopsed = FALSE
  /\ moc_data = 0
  /\ loaded = [r \in Readers |-> -1]
  /\ counts = 0 /\ clean = 0 /\ overlapped = {}

Busy == {r \in Readers : loaded[r] # -1}

-----------------------------------------------------------------------------
(* The driver *)

\* moc_iio_probe(); a failing step leaves the device memory to the core.
Probe ==
  /\ ~bound
  /\ bound' = TRUE
  /\ moc_data' = 0
  /\ counts' = 0 /\ clean' = 0
  /\ UNCHANGED <<oopsed, loaded, overlapped>>

\* moc_iio_remove(): unregistering waits for whoever is in an attribute.
Remove ==
  /\ bound /\ Busy = {} /\ ~oopsed
  /\ bound' = FALSE
  /\ UNCHANGED <<oopsed, moc_data, loaded, history>>

\* A scan element, or the buffer, is enabled.
Enable ==
  /\ bound /\ ~oopsed
  /\ oopsed' = TRUE
  /\ UNCHANGED <<bound, moc_data, loaded, history>>

-----------------------------------------------------------------------------
(* moc_read_raw(), IIO_CHAN_INFO_RAW: moc_data++ is a load and a store. *)

ReadLoad(r) ==
  /\ bound /\ r \notin Busy /\ counts < MaxCounts
  /\ loaded' = [loaded EXCEPT ![r] = moc_data]
  /\ overlapped' = IF Busy = {} THEN overlapped ELSE Busy \union {r}
  /\ UNCHANGED <<bound, oopsed, moc_data, counts, clean>>

\* Seeded fault: the counter wraps one value early.
ReadStoreShort(r) ==
  /\ r \in Busy
  /\ moc_data' = (loaded[r] + 1) % (Modulus - 1)
  /\ loaded' = [loaded EXCEPT ![r] = -1]
  /\ counts' = counts + 1
  /\ clean' = IF r \in overlapped THEN clean ELSE clean + 1
  /\ overlapped' = overlapped \ {r}
  /\ UNCHANGED <<bound, oopsed>>

ReadStore(r) ==
  /\ r \in Busy
  /\ moc_data' = (loaded[r] + 1) % Modulus
  /\ loaded' = [loaded EXCEPT ![r] = -1]
  /\ counts' = counts + 1
  /\ clean' = IF r \in overlapped THEN clean ELSE clean + 1
  /\ overlapped' = overlapped \ {r}
  /\ UNCHANGED <<bound, oopsed>>

Next ==
  \/ Probe \/ Remove \/ Enable
  \/ \E r \in Readers : ReadLoad(r) \/ ReadStore(r)

Spec == Init /\ [][Next]_vars

-----------------------------------------------------------------------------
(* Properties *)

\* However its increments overlap, moc_data counts every read since the probe that
\* no other one overlapped, and no read twice, modulo its width: an overlap loses
\* increments of those that overlap, never one that was done before.
ReadsCount == bound => \E n \in clean..counts : moc_data = n % Modulus
=============================================================================
