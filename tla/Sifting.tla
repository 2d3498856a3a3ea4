------------------------------ MODULE Sifting -------------------------------
(***************************************************************************)
(* One session's qubits on their way to two keys: Alice's bits and bases,  *)
(* the link with its channel, drift, detector and interceptor              *)
(* (src/qunetsim_service.py, src/optical/), Bob's list of measurements and *)
(* his local sift (src/nodes/bob/main.py), the sifting of ST and the QBER  *)
(* of QKT (src/workers/sifting_tasks.py, src/bb84_logic.py).               *)
(*                                                                         *)
(* Who calls whom when, and what is lost on the way, is the matter of      *)
(* KeyDelivery and QuantumLink; this module follows the values.  A photon  *)
(* carries along whether something happened to it (noisy), which no code   *)
(* looks at.                                                               *)
(***************************************************************************)
EXTENDS Polarization, ChannelModel, FiniteSets, FiniteSetsExt

CONSTANTS
  NQubits,       \* n_qubits
  BatchSize,     \* qubits per batch
  Preparations,  \* bound: the bits and bases Alice may have drawn
  Drifts,        \* bound: the angles by which the fibre may turn a photon
  MaxResends,    \* bound: how many qubits are processed a second time
  MaxLate,       \* bound: how many qubits may be late
  MaxNoisy,      \* bound: to how many measurements something may happen
  MinSifted      \* QKT makes no key of fewer sifted bits (10)

Qubit  == 1..NQubits
State  == [basis : Bases, bit : Bits]

ASSUME SiftingAssumption ==
  /\ NQubits \in Nat \ {0} /\ BatchSize \in Nat \ {0}
  /\ Preparations \subseteq [Qubit -> State]
  /\ Drifts \subseteq Int
  /\ MaxResends \in Nat /\ MaxLate \in Nat /\ MaxNoisy \in Nat
  /\ MinSifted \in Nat \ {0}

VARIABLES
  alice,    \* Alice's basis and bit of each qubit
  eve,      \* _eve_registered
  sent,     \* how often each qubit was processed
  late,     \* photons sent to Bob's host that get_qubit has not handed out
  queue,    \* the measurements pushed to _meas_queue, oldest first
  bob,      \* Bob's list as he has posted it
  sift,     \* the result of ST
  samples,  \* the sample the seed draws of n positions, as far as drawn
  outcome,  \* the result of QKT
  local     \* the result of Bob's local sift

linkVars == <<eve, sent, late, queue>>
siftVars == <<bob, sift, samples, outcome, local>>
vars     == <<channelVars, alice, linkVars, siftVars>>

None == [done |-> FALSE]

Init ==
  /\ ChannelInit
  /\ alice \in Preparations
  /\ eve = FALSE
  /\ sent = [q \in Qubit |-> 0]
  /\ late = {} /\ queue = << >> /\ bob = << >>
  /\ sift = None /\ outcome = None /\ local = None
  /\ samples = << >>

-----------------------------------------------------------------------------
(* The link *)

SetUp == Construct /\ UNCHANGED <<alice, linkVars, siftVars>>

EveRegisters ==
  /\ at = "ready" /\ ~eve
  /\ eve' = TRUE
  /\ UNCHANGED <<channelVars, alice, sent, late, queue, siftVars>>

(* The qubits of a batch, which are processed in their order; requests for *)
(* several batches, or twice for one, take turns qubit by qubit: _qns_lock *)
(* is held from sending a qubit to pushing its measurement, so each qubit  *)
(* is one step.                                                            *)
Batch(q) == {p \in Qubit : (p - 1) \div BatchSize = (q - 1) \div BatchSize}
Resent   == {q \in Qubit : sent[q] = 2}

Process(q) ==
  /\ at = "ready"
  /\ \A p \in Batch(q) : p < q => sent[p] > sent[q]
  /\ \/ sent[q] = 0
     \/ sent[q] = 1 /\ Cardinality(Resent) < MaxResends
  /\ sent' = [sent EXCEPT ![q] = @ + 1]
  /\ UNCHANGED <<channelVars, alice, eve, siftVars>>

(* FiberChannel.transmit or StatisticalChannel.transmit lets a photon pass. *)
(* OUDriftChannel has turned it by an angle to which the one before says   *)
(* nothing: the step between them is normally distributed.                 *)
Passes(q, photon) ==
  LET p == alice[q]
  IN /\ photon.of = <<q, sent[q] + 1>>
     /\ IF fiber
          THEN \E theta \in Drifts :
                 /\ Nearest(Angle(p.basis, p.bit) + theta, photon.basis, photon.bit)
                 /\ photon.noisy = ~Slight(theta)
          ELSE photon.basis = p.basis /\ photon.bit = p.bit /\ ~photon.noisy

Photons(q) == [of : {<<q, sent[q] + 1>>}, basis : Bases, bit : Bits, noisy : BOOLEAN]

(* A photon measured in its own basis gives its bit, else either one. *)
Measures(basis, bit, state) == basis = state.basis => bit = state.bit

(* push_measurement *)
Push(q, result, noisy) ==
  /\ noisy => Cardinality({i \in DOMAIN queue : queue[i].noisy}) < MaxNoisy
  /\ queue' = Append(queue, [id |-> q, basis |-> result.basis, bit |-> result.bit,
                             noisy |-> noisy])

(* Lost in the fibre, missed by its detector, or one of the loss_rate of a *)
(* link without a fibre.                                                   *)
Lost(q) ==
  /\ Process(q)
  /\ UNCHANGED <<late, queue>>

(* The detector clicks without or in spite of a photon: a random result. *)
DarkCount(q) ==
  /\ fiber /\ Process(q)
  /\ \E r \in State : Push(q, r, TRUE)
  /\ UNCHANGED late

(* Eve measures the photon in a basis of hers and sends what she found.    *)
Intercept(q) ==
  /\ eve /\ Process(q)
  /\ \E photon \in Photons(q), e \in State, r \in State :
       /\ Passes(q, photon)
       /\ Measures(e.basis, e.bit, photon)
       /\ Measures(r.basis, r.bit, e)
       /\ Push(q, r, TRUE)
  /\ UNCHANGED late

(* get_qubit hands out one of the photons Bob's host was sent: the one     *)
(* just sent, or one that arrived after an earlier get_qubit gave up.      *)
Receive(q) ==
  /\ ~eve /\ Process(q)
  /\ \E photon \in Photons(q), r \in State : \E got \in late \cup {photon} :
       /\ Passes(q, photon)
       /\ Measures(r.basis, r.bit, got)
       /\ late' = (late \cup {photon}) \ {got}
       /\ Push(q, r, got.noisy \/ got # photon)

(* get_qubit gives up after wait=5; the photon may still arrive.           *)
GiveUp(q) ==
  /\ ~eve /\ Process(q)
  /\ Cardinality(late) < MaxLate
  /\ \E photon \in Photons(q) : Passes(q, photon) /\ late' = late \cup {photon}
  /\ UNCHANGED queue

Link == SetUp \/ EveRegisters
        \/ \E q \in Qubit : Lost(q) \/ DarkCount(q) \/ Intercept(q) \/ Receive(q) \/ GiveUp(q)

-----------------------------------------------------------------------------
(* Sifting *)

(* Bob has polled the first of the measurements, NQubits at most, and      *)
(* posts his list if there is anything in it.                              *)
BobPosts ==
  /\ bob = << >>
  /\ \E n \in 1..Len(queue) : n <= NQubits /\ bob' = SubSeq(queue, 1, n)
  /\ UNCHANGED <<channelVars, alice, linkVars, sift, samples, outcome, local>>

(* sorted: the elements of S in the order of Before. *)
Sorted(S, Before(_, _)) ==
  CHOOSE f \in [1..Cardinality(S) -> S] :
    \A i, j \in DOMAIN f : i < j => Before(f[i], f[j])

Ascending(S) == Sorted(S, <)

(* meas_by_id: of several measurements of a qubit the last one.            *)
Measured == {bob[i].id : i \in DOMAIN bob}
ById(q)  == bob[CHOOSE i \in DOMAIN bob :
                  bob[i].id = q /\ \A j \in DOMAIN bob : bob[j].id = q => j <= i]

(* ST, after every batch has been answered.                                *)
Sift ==
  /\ bob # << >> /\ ~sift.done
  /\ \A q \in Qubit : sent[q] > 0
  /\ LET ids   == {q \in Measured : ById(q).basis = alice[q].basis}
         order == Ascending(ids)
     IN sift' = [done  |-> TRUE, ids |-> ids, n |-> Cardinality(ids),
                 alice |-> [k \in DOMAIN order |-> alice[order[k]].bit],
                 bob   |-> [k \in DOMAIN order |-> ById(order[k]).bit],
                 bases |-> [q \in Measured |-> alice[q].basis]]
  /\ UNCHANGED <<channelVars, alice, linkVars, bob, samples, outcome, local>>

(* Mutant: the sample of a few bits is empty. *)
SampleSizeUnbounded(n) == n \div 5

(* max(1, int(n * 0.2)) *)
SampleSize(n) == IF n < 5 THEN 1 ELSE n \div 5

(* Random(seed).sample(range(n), ...): the same one whenever it is drawn.  *)
Draw(n, S) ==
  /\ n \in DOMAIN samples => S = samples[n]
  /\ samples' = [m \in DOMAIN samples \cup {n} |-> IF m = n THEN S ELSE samples[m]]

(* The bits at the positions that are not in the sample. *)
Rest(bits, S) == LET kept == Ascending(DOMAIN bits \ S)
                 IN [k \in DOMAIN kept |-> bits[kept[k]]]

Abort(reason) == [done |-> TRUE, status |-> "aborted", reason |-> reason, key |-> << >>]

(* QBER_THRESHOLD is 0.11. *)
QberTooHigh(S) ==
  LET errors == {k \in S : sift.alice[k] # sift.bob[k]}
  IN Cardinality(errors) * 100 > 11 * Cardinality(S)

(* qber_key_task *)
TooFew ==
  /\ sift.done /\ ~outcome.done
  /\ sift.n < MinSifted
  /\ outcome' = Abort("INSUFFICIENT_BITS")
  /\ UNCHANGED <<channelVars, alice, linkVars, bob, sift, samples, local>>

DeriveKey ==
  /\ sift.done /\ ~outcome.done
  /\ LET n == sift.n
     IN /\ n >= MinSifted
        /\ \E S \in kSubset(SampleSize(n), 1..n) :
             /\ Draw(n, S)
             /\ outcome' = IF QberTooHigh(S)
                             THEN Abort("QBER_TOO_HIGH")
                             ELSE [done |-> TRUE, status |-> "success", reason |-> "",
                                   key |-> Rest(sift.alice, S)]
  /\ UNCHANGED <<channelVars, alice, linkVars, bob, sift, local>>

(* Positions in Bob's list, by id and, as sorted() is stable, by position. *)
ByIds(positions) ==
  LET Before(i, j) == bob[i].id < bob[j].id \/ (bob[i].id = bob[j].id /\ i < j)
  IN Sorted(positions, Before)

BitsAt(order, S) == Rest([k \in DOMAIN order |-> bob[order[k]].bit], S)

(* What Bob keeps of his list, by the order of the rest. *)
Keeps(kept, order) ==
  LET n == Cardinality(kept)
      Key(S) == local' = [done |-> TRUE, kept |-> kept, key |-> BitsAt(order, S)]
  IN IF n = 0 THEN Key({}) /\ UNCHANGED samples
              ELSE \E S \in kSubset(SampleSize(n), 1..n) : Draw(n, S) /\ Key(S)

Matching == {i \in DOMAIN bob : /\ bob[i].id \in DOMAIN sift.bases
                                /\ sift.bases[bob[i].id] = bob[i].basis}

(* Mutant: Bob's bits stay in the order in which they were measured. *)
LocalSiftUnsorted ==
  /\ sift.done /\ ~local.done
  /\ Keeps(Matching, Ascending(Matching))
  /\ UNCHANGED <<channelVars, alice, linkVars, bob, sift, outcome>>

(* Mutant: Bob keeps what was measured in another basis. *)
LocalSiftAnyBasis ==
  /\ sift.done /\ ~local.done
  /\ LET kept == {i \in DOMAIN bob : bob[i].id \in DOMAIN sift.bases}
     IN Keeps(kept, ByIds(kept))
  /\ UNCHANGED <<channelVars, alice, linkVars, bob, sift, outcome>>

(* _do_local_sift *)
LocalSift ==
  /\ sift.done /\ ~local.done
  /\ Keeps(Matching, ByIds(Matching))
  /\ UNCHANGED <<channelVars, alice, linkVars, bob, sift, outcome>>

Next == Link \/ BobPosts \/ Sift \/ TooFew \/ DeriveKey \/ LocalSift

Spec == Init /\ [][Next]_vars

-----------------------------------------------------------------------------
(* Properties *)

Measurement == [id : Qubit, basis : Bases, bit : Bits, noisy : BOOLEAN]

(* The types of the variables; a sample has no more positions than there   *)
(* are and at least one, so that the QBER is a quotient.                   *)
TypeOK ==
  /\ alice \in [Qubit -> State]
  /\ eve \in BOOLEAN
  /\ sent \in [Qubit -> 0..2]
  /\ late \subseteq [of : Qubit \X (1..2), basis : Bases, bit : Bits, noisy : BOOLEAN]
  /\ queue \in Seq(Measurement) /\ bob \in Seq(Measurement)
  /\ \A n \in DOMAIN samples : samples[n] \subseteq 1..n /\ samples[n] # {}

Error(m) == m.basis = alice[m.id].basis /\ m.bit # alice[m.id].bit

(* A bit measured in Alice's basis is hers unless the fibre had turned the *)
(* photon by more than half of the way to the next state, it was a dark    *)
(* count, Eve had measured it, or it was a late one taken for another      *)
(* (_process_batch_sync).                                                  *)
ErrorsHaveCause == \A i \in DOMAIN queue : Error(queue[i]) => queue[i].noisy

Once(q) == \A i, j \in DOMAIN bob : bob[i].id = q /\ bob[j].id = q => i = j

(* Bob and ST sift the same qubits: each one that Bob's list has once is   *)
(* in both or in neither.                                                  *)
SiftsAgree ==
  local.done => \A q \in Qubit : Once(q) =>
    (q \in sift.ids <=> \E i \in local.kept : bob[i].id = q)

(* If no qubit was measured twice, Alice's key and Bob's are as long, and  *)
(* a position at which they differ is one of a qubit that something        *)
(* happened to: without noise the keys are equal.                          *)
KeysDifferOnlyByNoise ==
  outcome.done /\ local.done /\ (\A q \in Qubit : Once(q)) /\ outcome.status = "success" =>
    LET ids == Rest(Ascending(sift.ids), samples[sift.n])
    IN /\ Len(local.key) = Len(outcome.key)
       /\ \A k \in DOMAIN local.key :
            local.key[k] # outcome.key[k] => ById(ids[k]).noisy
=============================================================================
