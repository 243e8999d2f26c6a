--------------------- MODULE CandidateQualificationProofs ---------------------
(***************************************************************************)
(* Proofs about CandidateQualification: whatever is done to RPMs, to the   *)
(* source lock and to profile files while the tools run, a gate says       *)
(* exactly what is wrong, a published profile was read twice alike, no     *)
(* output is overwritten and collection uses what was recorded; for any    *)
(* packages, profile files, runs and edits.                                *)
(*                                                                         *)
(* A tool's agenda is a sequence of questions.  What a tool knows is told  *)
(* by the place it has reached in it: the first part of the module says    *)
(* which question comes where, the second what is known after each, the    *)
(* third that every action of a tool, and everything that others do,       *)
(* keeps that right (CandidateInv), the last puts it together with the     *)
(* sessions of RuntimeInspection (QualificationInv).                       *)
(***************************************************************************)
EXTENDS CandidateQualification, RuntimeInspectionProofs, SequenceTheorems

-----------------------------------------------------------------------------
(* Agendas: which question comes where.                                    *)

Inspected == <<"file", "digest", "identity", "scripts", "requirements", "files", "source", "again">>
Judged == <<"file", "identity", "requirements", "files", "scripts">>
Unpacked == <<"payload", "elf">>

\* How the packages are numbered: the family as in Family, the directory before it four more.
LEMMA Packaged ==
    /\ Family \in Seq(Shared \cup {Runtime}) /\ Len(Family) \in Nat \ {0}
    /\ DOMAIN Family = 1 .. Len(Family)
    /\ Shared \cup {Runtime} = {Family[i] : i \in DOMAIN Family} /\ Runtime \notin Shared
    /\ Len(Directory) = Len(Family) + 4 /\ DOMAIN Directory = 1 .. Len(Family) + 4
    /\ Directory[1] = Meta /\ Directory[2] = Tools /\ Directory[3] = Driver /\ Directory[4] = Blob
    /\ \A i \in DOMAIN Family : Directory[i + 4] = Family[i]
<1>1. Shared \cup {Runtime} = {Family[i] : i \in DOMAIN Family} /\ Runtime \notin Shared
    BY PackageConstants DEF Shared
<1>2. Family \in Seq(Shared \cup {Runtime})
    BY PackageConstants
<1>3. Family # <<>>
    BY PackageConstants
<1>4. Len(Family) \in Nat \ {0} /\ DOMAIN Family = 1 .. Len(Family)
    BY <1>2, <1>3
<1> DEFINE S == Shared \cup {Runtime, Meta, Tools, Driver, Blob}
<1>5. Family \in Seq(S) /\ <<Meta, Tools, Driver, Blob>> \in Seq(S)
    BY <1>2
<1> HIDE DEF S
<1>6. /\ Len(Directory) = Len(Family) + 4 /\ DOMAIN Directory = 1 .. Len(Family) + 4
      /\ \A k \in DOMAIN Directory :
            Directory[k] = IF k <= 4 THEN <<Meta, Tools, Driver, Blob>>[k] ELSE Family[k - 4]
    BY <1>4, <1>5 DEF Directory
<1>7. QED BY <1>1, <1>2, <1>4, <1>6

\* The single packages are none of the family, and differ.
LEMMA PackagesDiffer ==
    /\ Meta \in Packages /\ Tools \in Packages /\ Driver \in Packages /\ Blob \in Packages
    /\ Shared \cup {Runtime} \subseteq Packages /\ Providers \subseteq Packages
    /\ Packages = {Meta, Tools, Driver, Blob} \cup Shared \cup {Runtime}
    /\ Meta # Tools /\ Meta # Driver /\ Meta # Blob /\ Tools # Driver /\ Tools # Blob /\ Driver # Blob
    /\ {Meta, Tools, Driver, Blob} \cap (Shared \cup {Runtime}) = {} /\ Runtime \notin Shared
<1>1. Packages = {Meta, Tools, Driver, Blob} \cup Shared \cup {Runtime}
    <2>1. ASSUME NEW k \in DOMAIN Directory
          PROVE  Directory[k] \in {Meta, Tools, Driver, Blob} \cup Shared \cup {Runtime}
        <3>1. CASE k \in {1, 2, 3, 4}
            BY <3>1, Packaged
        <3>2. CASE k > 4
            <4>1. k - 4 \in DOMAIN Family /\ Directory[k - 4 + 4] = Family[k - 4]
                BY <3>2, Packaged
            <4>2. k - 4 + 4 = k
                BY Packaged
            <4>3. QED BY <4>1, <4>2, Packaged
        <3>3. QED BY <3>1, <3>2, Packaged
    <2>2. ASSUME NEW i \in DOMAIN Family PROVE Family[i] \in Packages
        <3>1. i + 4 \in DOMAIN Directory /\ Directory[i + 4] = Family[i]
            BY Packaged
        <3>2. QED BY <3>1 DEF Packages
    <2>3. {1, 2, 3, 4} \subseteq DOMAIN Directory
        BY Packaged
    <2>4. Meta \in Packages /\ Tools \in Packages /\ Driver \in Packages /\ Blob \in Packages
        BY <2>3, Packaged DEF Packages
    <2>5. QED BY <2>1, <2>2, <2>4, Packaged DEF Packages
<1>2. ASSUME NEW i \in DOMAIN Family PROVE Family[i] \notin {Meta, Tools, Driver, Blob}
    <2>1. i + 4 \in DOMAIN Directory /\ Directory[i + 4] = Family[i] /\ i + 4 \notin {1, 2, 3, 4}
          /\ {1, 2, 3, 4} \subseteq DOMAIN Directory
        BY Packaged
    <2>2. QED BY <2>1, Packaged, PackageConstants
<1>3. Meta # Tools /\ Meta # Driver /\ Meta # Blob /\ Tools # Driver /\ Tools # Blob /\ Driver # Blob
    <2>1. {1, 2, 3, 4} \subseteq DOMAIN Directory
        BY Packaged
    <2>2. QED BY <2>1, Packaged, PackageConstants
<1>4. QED BY <1>1, <1>2, <1>3, Packaged DEF Providers

\* AskAll asks all of one subject before the next: where each question comes.
LEMMA AskedInOrder ==
    ASSUME NEW n \in {2, 5, 8}, NEW Q, Len(Q) = n, DOMAIN Q = 1 .. n, NEW ps \in Seq(Packages)
    PROVE  /\ AskAll(Q, ps) \in Seq({Q[i] : i \in 1 .. n} \X Packages)
           /\ Len(AskAll(Q, ps)) = n * Len(ps) /\ n * Len(ps) \in Nat
           /\ \A d \in 1 .. Len(ps), i \in 1 .. n :
                /\ n * (d - 1) + i \in 1 .. n * Len(ps)
                /\ AskAll(Q, ps)[n * (d - 1) + i] = <<Q[i], ps[d]>>
           /\ \A k \in 1 .. n * Len(ps) : \E d \in 1 .. Len(ps), i \in 1 .. n : k = n * (d - 1) + i
<1> DEFINE D == Len(ps)
           q(k) == ((k - 1) % n) + 1
           p(k) == ((k - 1) \div n) + 1
<1>1. D \in Nat /\ DOMAIN ps = 1 .. D
    OBVIOUS
<1>2. ASSUME NEW k \in 1 .. n * D
      PROVE  q(k) \in 1 .. n /\ p(k) \in 1 .. D /\ k = n * (p(k) - 1) + q(k)
    <2>1. CASE n = 2
        <3>1. k \in 1 .. 2 * D
            BY <2>1
        <3>2. /\ ((k - 1) % 2) + 1 \in 1 .. 2 /\ ((k - 1) \div 2) + 1 \in 1 .. D
              /\ k = 2 * (((k - 1) \div 2) + 1 - 1) + ((k - 1) % 2) + 1
            BY <1>1, <3>1
        <3>3. QED BY <2>1, <3>2
    <2>2. CASE n = 5
        <3>1. k \in 1 .. 5 * D
            BY <2>2
        <3>2. /\ ((k - 1) % 5) + 1 \in 1 .. 5 /\ ((k - 1) \div 5) + 1 \in 1 .. D
              /\ k = 5 * (((k - 1) \div 5) + 1 - 1) + ((k - 1) % 5) + 1
            BY <1>1, <3>1
        <3>3. QED BY <2>2, <3>2
    <2>3. CASE n = 8
        <3>1. k \in 1 .. 8 * D
            BY <2>3
        <3>2. /\ ((k - 1) % 8) + 1 \in 1 .. 8 /\ ((k - 1) \div 8) + 1 \in 1 .. D
              /\ k = 8 * (((k - 1) \div 8) + 1 - 1) + ((k - 1) % 8) + 1
            BY <1>1, <3>1
        <3>3. QED BY <2>3, <3>2
    <2>4. QED BY <2>1, <2>2, <2>3
<1>3. ASSUME NEW d \in 1 .. D, NEW i \in 1 .. n
      PROVE  n * (d - 1) + i \in 1 .. n * D /\ q(n * (d - 1) + i) = i /\ p(n * (d - 1) + i) = d
    <2>1. CASE n = 2
        <3>1. i \in 1 .. 2
            BY <2>1
        <3>2. /\ 2 * (d - 1) + i \in 1 .. 2 * D
              /\ ((2 * (d - 1) + i - 1) % 2) + 1 = i /\ ((2 * (d - 1) + i - 1) \div 2) + 1 = d
            BY <1>1, <3>1
        <3>3. QED BY <2>1, <3>2
    <2>2. CASE n = 5
        <3>1. i \in 1 .. 5
            BY <2>2
        <3>2. /\ 5 * (d - 1) + i \in 1 .. 5 * D
              /\ ((5 * (d - 1) + i - 1) % 5) + 1 = i /\ ((5 * (d - 1) + i - 1) \div 5) + 1 = d
            BY <1>1, <3>1
        <3>3. QED BY <2>2, <3>2
    <2>3. CASE n = 8
        <3>1. i \in 1 .. 8
            BY <2>3
        <3>2. /\ 8 * (d - 1) + i \in 1 .. 8 * D
              /\ ((8 * (d - 1) + i - 1) % 8) + 1 = i /\ ((8 * (d - 1) + i - 1) \div 8) + 1 = d
            BY <1>1, <3>1
        <3>3. QED BY <2>3, <3>2
    <2>4. QED BY <2>1, <2>2, <2>3
<1>4. D * n = n * D /\ n * D \in Nat
    <2>1. CASE n = 2
        BY <1>1, <2>1
    <2>2. CASE n = 5
        BY <1>1, <2>2
    <2>3. CASE n = 8
        BY <1>1, <2>3
    <2>4. QED BY <2>1, <2>2, <2>3
<1>5. AskAll(Q, ps) = [k \in 1 .. n * D |-> <<Q[q(k)], ps[p(k)]>>]
    BY <1>4 DEF AskAll
<1> HIDE DEF q, p
<1>6. \A k \in 1 .. n * D : <<Q[q(k)], ps[p(k)]>> \in {Q[i] : i \in 1 .. n} \X Packages
    <2>1. ASSUME NEW k \in 1 .. n * D PROVE q(k) \in 1 .. n /\ ps[p(k)] \in Packages
        BY <1>1, <1>2
    <2>2. QED BY <2>1
<1> HIDE DEF D
<1>7. AskAll(Q, ps) \in [1 .. n * D -> {Q[i] : i \in 1 .. n} \X Packages]
    BY <1>5, <1>6
<1>8. AskAll(Q, ps) \in Seq({Q[i] : i \in 1 .. n} \X Packages) /\ Len(AskAll(Q, ps)) = n * D
    BY <1>4, <1>7
<1>9. ASSUME NEW d \in 1 .. D, NEW i \in 1 .. n
      PROVE  AskAll(Q, ps)[n * (d - 1) + i] = <<Q[i], ps[d]>>
    BY <1>3, <1>5
<1>10. QED BY <1>2, <1>3, <1>4, <1>8, <1>9 DEF D

\* An agenda with a beginning and an end.
LEMMA Framed ==
    ASSUME NEW S,
           NEW B \in Seq(S), NEW I \in Seq(S), NEW E \in Seq(S)
    PROVE  LET b == Len(B)
               n == Len(I)
               G == (B \o I) \o E
           IN
           /\ G \in Seq(S) /\ Len(G) = b + n + Len(E)
           /\ DOMAIN G = 1 .. b + n + Len(E)
           /\ \A k \in 1 .. b : G[k] = B[k]
           /\ \A k \in 1 .. n : G[b + k] = I[k]
           /\ \A k \in 1 .. Len(E) : G[b + n + k] = E[k]
<1>1. B \o I \in Seq(S)
    OBVIOUS
<1>2. PICK H \in Seq(S) : H = B \o I
    BY <1>1
<1>3. PICK b \in Nat, n \in Nat, e \in Nat : b = Len(B) /\ n = Len(I) /\ e = Len(E)
    OBVIOUS
<1>4. Len(H) = b + n /\ DOMAIN H = 1 .. b + n
    BY <1>2, <1>3
<1>5. \A k \in 1 .. b : H[k] = B[k]
    BY <1>2, <1>3
<1>6. \A k \in 1 .. n : H[b + k] = I[k]
    BY <1>2, <1>3
<1>7. Len(H \o E) = b + n + e /\ DOMAIN (H \o E) = 1 .. b + n + e /\ H \o E \in Seq(S)
    BY <1>4, <1>3
<1>8. \A k \in 1 .. b + n : (H \o E)[k] = H[k]
    BY <1>4, <1>3
<1>9. \A k \in 1 .. e : (H \o E)[b + n + k] = E[k]
    <2>1. ASSUME NEW k \in 1 .. e PROVE (H \o E)[b + n + k] = E[k]
        <3>1. b + n + k \in 1 .. b + n + e /\ ~(b + n + k <= b + n) /\ b + n + k - (b + n) = k
            OBVIOUS
        <3>2. QED BY <3>1, <1>4, <1>3
    <2>2. QED BY <2>1
<1>10. ASSUME NEW k \in 1 .. n PROVE (H \o E)[b + k] = I[k]
    <2>1. b + k \in 1 .. b + n
        OBVIOUS
    <2>2. QED BY <1>6, <1>8, <2>1
<1>11. ASSUME NEW k \in 1 .. b PROVE (H \o E)[k] = B[k]
    <2>1. k \in 1 .. b + n
        OBVIOUS
    <2>2. QED BY <1>5, <1>8, <2>1
<1>12. QED BY <1>2, <1>3, <1>7, <1>9, <1>10, <1>11

\* The directory lists packages.
LEMMA DirectoryIsSeq == Directory \in Seq(Packages)
<1>1. Directory \in Seq({Meta, Tools, Driver, Blob} \cup Shared \cup {Runtime})
    <2>1. <<Meta, Tools, Driver, Blob>> \in Seq({Meta, Tools, Driver, Blob} \cup Shared \cup {Runtime})
        OBVIOUS
    <2>2. Family \in Seq({Meta, Tools, Driver, Blob} \cup Shared \cup {Runtime})
        BY Packaged
    <2>3. QED BY <2>1, <2>2 DEF Directory
<1>2. QED BY <1>1, Packaged, PackagesDiffer

\* The generator's agenda: four steps, eight questions on each package, three steps.
GenerateLaid(G, to, D) ==
    /\ Len(G) = 8 * D + 7 /\ DOMAIN G = 1 .. 8 * D + 7 /\ G = [k \in 1 .. 8 * D + 7 |-> G[k]]
    /\ G[1] = <<"output", to>> /\ G[2] = <<"lock", to>> /\ G[3] = <<"lockDigest", to>>
    /\ G[4] = <<"entries", to>>
    /\ \A d \in 1 .. D, i \in 1 .. 8 : G[8 * (d - 1) + i + 4] = <<Inspected[i], Directory[d]>>
    /\ G[8 * D + 5] = <<"set", to>> /\ G[8 * D + 6] = <<"publish", to>>
    /\ G[8 * D + 7] = <<"sync", to>>

\* So is generate_candidate's agenda laid out, for any number of packages.
LEMMA GenerateOrder ==
    ASSUME NEW to, NEW D \in Nat, D = Len(Directory)
    PROVE  GenerateLaid(GenerateAgenda(to), to, D)
<1> DEFINE G == GenerateAgenda(to)
           I == InspectAgenda
           B == << <<"output", to>>, <<"lock", to>>, <<"lockDigest", to>>, <<"entries", to>> >>
           E == << <<"set", to>>, <<"publish", to>>, <<"sync", to>> >>
           W == {Inspected[i] : i \in 1 .. 8} \X Packages
           S == W \cup {B[1], B[2], B[3], B[4], E[1], E[2], E[3]}
<1>1. Directory \in Seq(Packages)
    BY DirectoryIsSeq
<1>2. Len(Inspected) = 8 /\ DOMAIN Inspected = 1 .. 8
    BY DEF Inspected
<1>3. I = AskAll(Inspected, Directory)
    BY DEF InspectAgenda, Inspected
<1>4. /\ I \in Seq(W) /\ Len(I) = 8 * D /\ 8 * D \in Nat
      /\ \A d \in 1 .. D, i \in 1 .. 8 : /\ 8 * (d - 1) + i \in 1 .. 8 * D
                                         /\ I[8 * (d - 1) + i] = <<Inspected[i], Directory[d]>>
      /\ \A k \in 1 .. 8 * D : \E d \in 1 .. D, i \in 1 .. 8 : k = 8 * (d - 1) + i
    <2>1. 8 \in {2, 5, 8}
        OBVIOUS
    <2>2. /\ AskAll(Inspected, Directory) \in Seq(W)
          /\ Len(AskAll(Inspected, Directory)) = 8 * Len(Directory) /\ 8 * Len(Directory) \in Nat
          /\ \A d \in 1 .. Len(Directory), i \in 1 .. 8 :
                /\ 8 * (d - 1) + i \in 1 .. 8 * Len(Directory)
                /\ AskAll(Inspected, Directory)[8 * (d - 1) + i] = <<Inspected[i], Directory[d]>>
          /\ \A k \in 1 .. 8 * Len(Directory) :
                \E d \in 1 .. Len(Directory), i \in 1 .. 8 : k = 8 * (d - 1) + i
        BY <1>1, <1>2, <2>1, AskedInOrder
    <2> HIDE DEF W, I
    <2>3. QED BY <1>3, <2>2
<1>5. I \in Seq(S) /\ B \in Seq(S) /\ E \in Seq(S) /\ Len(B) = 4 /\ Len(E) = 3
    <2>1. B \in Seq({B[1], B[2], B[3], B[4]}) /\ Len(B) = 4
        OBVIOUS
    <2>2. E \in Seq({E[1], E[2], E[3]}) /\ Len(E) = 3
        OBVIOUS
    <2> HIDE DEF B, E, W, I
    <2>3. QED BY <1>4, <2>1, <2>2
<1>6. G = (B \o I) \o E
    BY DEF GenerateAgenda
<1>7. /\ B[1] = <<"output", to>> /\ B[2] = <<"lock", to>> /\ B[3] = <<"lockDigest", to>>
      /\ B[4] = <<"entries", to>>
      /\ E[1] = <<"set", to>> /\ E[2] = <<"publish", to>> /\ E[3] = <<"sync", to>>
    OBVIOUS
<1> HIDE DEF G, I, B, E, S, W
<1>8. /\ G = [k \in 1 .. 4 + 8 * D + 3 |-> G[k]]
      /\ Len(G) = 4 + 8 * D + 3 /\ DOMAIN G = 1 .. 4 + 8 * D + 3
      /\ \A k \in 1 .. 4 : G[k] = B[k]
      /\ \A k \in 1 .. 8 * D : G[4 + k] = I[k]
      /\ \A k \in 1 .. 3 : G[4 + 8 * D + k] = E[k]
    <2>1. 8 * D \in Nat /\ 4 \in Nat /\ 3 \in Nat
        OBVIOUS
    <2>2. PICK n \in Nat : n = 8 * D
        BY <2>1
    <2>3. PICK T \in Seq(S), T1 \in Seq(S), T2 \in Seq(S) : T = B /\ T1 = I /\ T2 = E
        BY <1>5
    <2>4. Len(T) = 4 /\ Len(T1) = n /\ Len(T2) = 3
        BY <1>4, <1>5, <2>2, <2>3
    <2>5. /\ (T \o T1) \o T2 \in Seq(S) /\ Len((T \o T1) \o T2) = Len(T) + Len(T1) + Len(T2)
          /\ DOMAIN ((T \o T1) \o T2) = 1 .. Len(T) + Len(T1) + Len(T2)
          /\ \A k \in 1 .. Len(T) : ((T \o T1) \o T2)[k] = T[k]
          /\ \A k \in 1 .. Len(T1) : ((T \o T1) \o T2)[Len(T) + k] = T1[k]
          /\ \A k \in 1 .. Len(T2) : ((T \o T1) \o T2)[Len(T) + Len(T1) + k] = T2[k]
        BY Framed
    <2>6. G = (T \o T1) \o T2
        BY <1>6, <2>3
    <2>7. /\ Len(G) = 4 + n + 3 /\ DOMAIN G = 1 .. 4 + n + 3
          /\ \A k \in 1 .. 4 : G[k] = T[k]
          /\ \A k \in 1 .. n : G[4 + k] = T1[k]
          /\ \A k \in 1 .. 3 : G[4 + n + k] = T2[k]
        BY <2>4, <2>5, <2>6
    <2>8. G = [k \in 1 .. 4 + n + 3 |-> G[k]]
        <3>1. G \in Seq(S)
            BY <2>5, <2>6
        <3>2. QED BY <2>7, <3>1
    <2>9. QED BY <2>2, <2>3, <2>7, <2>8
<1>9. 4 + 8 * D + 3 = 8 * D + 7 /\ 4 + 8 * D + 1 = 8 * D + 5 /\ 4 + 8 * D + 2 = 8 * D + 6
    OBVIOUS
<1>10. ASSUME NEW d \in 1 .. D, NEW i \in 1 .. 8
       PROVE  G[8 * (d - 1) + i + 4] = <<Inspected[i], Directory[d]>>
    <2>1. 8 * (d - 1) + i \in 1 .. 8 * D /\ I[8 * (d - 1) + i] = <<Inspected[i], Directory[d]>>
        BY <1>4
    <2>2. 8 * (d - 1) + i + 4 = 4 + (8 * (d - 1) + i)
        OBVIOUS
    <2>3. G[4 + (8 * (d - 1) + i)] = I[8 * (d - 1) + i]
        BY <1>8, <2>1
    <2>4. QED BY <2>1, <2>2, <2>3
<1>11. /\ G[1] = B[1] /\ G[2] = B[2] /\ G[3] = B[3] /\ G[4] = B[4]
       /\ G[8 * D + 5] = E[1] /\ G[8 * D + 6] = E[2] /\ G[8 * D + 7] = E[3]
    BY <1>8, <1>9
<1>12. QED BY <1>7, <1>8, <1>9, <1>10, <1>11 DEF G, GenerateLaid

\* OpenVINO's agenda: five questions on each package, the set, two on each payload.
FamilyLaid(A, F) ==
    /\ Len(A) = 5 * F + 1 + 2 * F /\ DOMAIN A = 1 .. 5 * F + 1 + 2 * F
    /\ A = [k \in 1 .. 5 * F + 1 + 2 * F |-> A[k]]
    /\ \A d \in 1 .. F, i \in 1 .. 5 : A[5 * (d - 1) + i] = <<Judged[i], Family[d]>>
    /\ A[5 * F + 1] = <<"set", Runtime>>
    /\ \A d \in 1 .. F, i \in 1 .. 2 :
          A[5 * F + 1 + (2 * (d - 1) + i)] = <<Unpacked[i], Family[d]>>

\* So is inspect_family's.
LEMMA FamilyOrder ==
    ASSUME NEW F \in Nat, F = Len(Family)
    PROVE  FamilyLaid(FamilyAgenda, F)
<1> DEFINE A == FamilyAgenda
           I == AskAll(Judged, Family)
           E == AskAll(Unpacked, Family)
           M == << <<"set", Runtime>> >>
           W == {Judged[i] : i \in 1 .. 5} \X Packages
           V == {Unpacked[i] : i \in 1 .. 2} \X Packages
           S == W \cup V \cup {<<"set", Runtime>>}
<1>1. Family \in Seq(Packages)
    BY Packaged, PackagesDiffer
<1>2. /\ Len(Judged) = 5 /\ DOMAIN Judged = 1 .. 5
      /\ Len(Unpacked) = 2 /\ DOMAIN Unpacked = 1 .. 2
    BY DEF Judged, Unpacked
<1>3. /\ I \in Seq(W) /\ Len(I) = 5 * F /\ 5 * F \in Nat
      /\ \A d \in 1 .. F, i \in 1 .. 5 :
            5 * (d - 1) + i \in 1 .. 5 * F /\ I[5 * (d - 1) + i] = <<Judged[i], Family[d]>>
      /\ \A k \in 1 .. 5 * F : \E d \in 1 .. F, i \in 1 .. 5 : k = 5 * (d - 1) + i
    <2>1. 5 \in {2, 5, 8}
        OBVIOUS
    <2>2. /\ I \in Seq(W)
          /\ Len(I) = 5 * Len(Family) /\ 5 * Len(Family) \in Nat
          /\ \A d \in 1 .. Len(Family), i \in 1 .. 5 :
                /\ 5 * (d - 1) + i \in 1 .. 5 * Len(Family)
                /\ I[5 * (d - 1) + i] = <<Judged[i], Family[d]>>
          /\ \A k \in 1 .. 5 * Len(Family) :
                \E d \in 1 .. Len(Family), i \in 1 .. 5 : k = 5 * (d - 1) + i
        BY <1>1, <1>2, <2>1, AskedInOrder
    <2> HIDE DEF W, I
    <2>3. QED BY <2>2
<1>4. /\ E \in Seq(V) /\ Len(E) = 2 * F /\ 2 * F \in Nat
      /\ \A d \in 1 .. F, i \in 1 .. 2 :
            2 * (d - 1) + i \in 1 .. 2 * F /\ E[2 * (d - 1) + i] = <<Unpacked[i], Family[d]>>
      /\ \A k \in 1 .. 2 * F : \E d \in 1 .. F, i \in 1 .. 2 : k = 2 * (d - 1) + i
    <2>1. 2 \in {2, 5, 8}
        OBVIOUS
    <2>2. /\ E \in Seq(V)
          /\ Len(E) = 2 * Len(Family) /\ 2 * Len(Family) \in Nat
          /\ \A d \in 1 .. Len(Family), i \in 1 .. 2 :
                /\ 2 * (d - 1) + i \in 1 .. 2 * Len(Family)
                /\ E[2 * (d - 1) + i] = <<Unpacked[i], Family[d]>>
          /\ \A k \in 1 .. 2 * Len(Family) :
                \E d \in 1 .. Len(Family), i \in 1 .. 2 : k = 2 * (d - 1) + i
        BY <1>1, <1>2, <2>1, AskedInOrder
    <2> HIDE DEF V, E
    <2>3. QED BY <2>2
<1>5. A = (I \o M) \o E
    BY DEF FamilyAgenda, Judged, Unpacked
<1> HIDE DEF A, I, E, V, W
<1>6. I \in Seq(S) /\ M \in Seq(S) /\ E \in Seq(S) /\ Len(M) = 1 /\ M[1] = <<"set", Runtime>>
    BY <1>3, <1>4
<1> HIDE DEF M, S
<1>7. PICK n \in Nat, m \in Nat : n = 5 * F /\ m = 2 * F
    BY <1>3, <1>4
<1>8. PICK T \in Seq(S), T1 \in Seq(S), T2 \in Seq(S) : T = I /\ T1 = M /\ T2 = E
    BY <1>6
<1>9. Len(T) = n /\ Len(T1) = 1 /\ Len(T2) = m
    BY <1>3, <1>4, <1>6, <1>7, <1>8
<1>10. /\ (T \o T1) \o T2 \in Seq(S) /\ Len((T \o T1) \o T2) = Len(T) + Len(T1) + Len(T2)
       /\ DOMAIN ((T \o T1) \o T2) = 1 .. Len(T) + Len(T1) + Len(T2)
       /\ \A k \in 1 .. Len(T) : ((T \o T1) \o T2)[k] = T[k]
       /\ \A k \in 1 .. Len(T1) : ((T \o T1) \o T2)[Len(T) + k] = T1[k]
       /\ \A k \in 1 .. Len(T2) : ((T \o T1) \o T2)[Len(T) + Len(T1) + k] = T2[k]
    BY Framed
<1>11. A = (T \o T1) \o T2
    BY <1>5, <1>8
<1>12. /\ Len(A) = n + 1 + m /\ DOMAIN A = 1 .. n + 1 + m
       /\ \A k \in 1 .. n : A[k] = T[k]
       /\ \A k \in 1 .. 1 : A[n + k] = T1[k]
       /\ \A k \in 1 .. m : A[n + 1 + k] = T2[k]
    BY <1>9, <1>10, <1>11
<1>13. A = [k \in 1 .. n + 1 + m |-> A[k]]
    <2>1. A \in Seq(S)
        BY <1>10, <1>11
    <2>2. QED BY <1>12, <2>1
<1>14. A[5 * F + 1] = <<"set", Runtime>>
    BY <1>6, <1>7, <1>8, <1>12
<1>15. ASSUME NEW d \in 1 .. F, NEW i \in 1 .. 5 PROVE A[5 * (d - 1) + i] = <<Judged[i], Family[d]>>
    <2>1. 5 * (d - 1) + i \in 1 .. n /\ I[5 * (d - 1) + i] = <<Judged[i], Family[d]>>
        BY <1>3, <1>7
    <2>2. QED BY <1>8, <1>12, <2>1
<1>16. ASSUME NEW d \in 1 .. F, NEW i \in 1 .. 2
       PROVE  A[5 * F + 1 + (2 * (d - 1) + i)] = <<Unpacked[i], Family[d]>>
    <2>1. 2 * (d - 1) + i \in 1 .. m /\ E[2 * (d - 1) + i] = <<Unpacked[i], Family[d]>>
        BY <1>4, <1>7
    <2>2. A[n + 1 + (2 * (d - 1) + i)] = T2[2 * (d - 1) + i]
        BY <1>12, <2>1
    <2>3. QED BY <1>7, <1>8, <2>1, <2>2
<1>17. QED BY <1>7, <1>12, <1>14, <1>15, <1>16, <1>13 DEF A, FamilyLaid

\* Nothing is asked of a package after its second digest, and nothing but whether it is a
\* regular file before the first; the set is judged when all has been asked.
GenerateSays(G, k, to, q, p, Asks) ==
    /\ G[k] = <<q, p>>
    /\ q \in Asks \cup {"output", "lock", "lockDigest", "entries", "set", "publish", "sync"}
    /\ q \in Asks => p \in Packages /\ k < Len(G)
    /\ q \notin Asks => p = to
    /\ q \in Asks => \A j \in 1 .. k - 1 : G[j] # <<"again", p>>
    /\ q = "digest" => \A j \in 1 .. k - 1 : \A r \in Asks \ {"file"} : G[j] # <<r, p>>
    /\ q \in Asks \ {"file", "digest"} => \E j \in 1 .. k - 1 : G[j] = <<"digest", p>>
    /\ q \in Asks \cup {"output", "lock", "lockDigest", "entries", "set"} =>
          \A j \in 1 .. k - 1 : G[j][1] # "set"
    /\ q \in {"set", "publish", "sync"} =>
          /\ \A s \in Packages, r \in Asks : \E j \in 1 .. k - 1 : G[j] = <<r, s>>
          /\ \E j \in 1 .. k - 1 : G[j][1] = "lock"
          /\ \E j \in 1 .. k - 1 : G[j][1] = "lockDigest"
    /\ q \in {"publish", "sync"} => \E j \in 1 .. k - 1 : G[j][1] = "set"
    /\ k = Len(G) <=> q = "sync"

\* Wherever the generator stands in its agenda, this is so.
LEMMA GenerateFacts ==
    ASSUME NEW to, NEW k \in DOMAIN GenerateAgenda(to)
    PROVE  GenerateSays(GenerateAgenda(to), k, to, GenerateAgenda(to)[k][1], GenerateAgenda(to)[k][2],
                        {Inspected[i] : i \in 1 .. 8})
<1> DEFINE G == GenerateAgenda(to)
           q == G[k][1]
           p == G[k][2]
           Asks == {Inspected[i] : i \in 1 .. 8}
<1>1. PICK D \in Nat : D = Len(Directory) /\ DOMAIN Directory = 1 .. D
    BY Packaged
<1>2. /\ Len(G) = 8 * D + 7 /\ k \in 1 .. 8 * D + 7
      /\ G[1] = <<"output", to>> /\ G[2] = <<"lock", to>> /\ G[3] = <<"lockDigest", to>>
      /\ G[4] = <<"entries", to>>
      /\ \A d \in 1 .. D, i \in 1 .. 8 : G[8 * (d - 1) + i + 4] = <<Inspected[i], Directory[d]>>
      /\ \A j \in 5 .. 8 * D + 4 : \E d \in 1 .. D, i \in 1 .. 8 : j = 8 * (d - 1) + i + 4
      /\ G[8 * D + 5] = <<"set", to>> /\ G[8 * D + 6] = <<"publish", to>>
      /\ G[8 * D + 7] = <<"sync", to>>
    <2>1. GenerateLaid(G, to, D)
        BY <1>1, GenerateOrder
    <2>2. k \in 1 .. 8 * D + 7
        BY <2>1 DEF GenerateLaid
    <2>3. ASSUME NEW j \in 5 .. 8 * D + 4
          PROVE  \E d \in 1 .. D, i \in 1 .. 8 : j = 8 * (d - 1) + i + 4
        <3>1. ((j - 5) \div 8) + 1 \in 1 .. D /\ ((j - 5) % 8) + 1 \in 1 .. 8
            OBVIOUS
        <3>2. j = 8 * (((j - 5) \div 8) + 1 - 1) + (((j - 5) % 8) + 1) + 4
            OBVIOUS
        <3>3. QED BY <3>1, <3>2
    <2> HIDE DEF G
    <2>4. QED BY <2>1, <2>2, <2>3 DEF GenerateLaid
<1>3. \A i \in 1 .. 8 :
        /\ Inspected[i] \notin {"output", "lock", "lockDigest", "entries", "set", "publish", "sync"}
        /\ Inspected[i] = "again" <=> i = 8
        /\ Inspected[i] = "digest" <=> i = 2
        /\ Inspected[i] = "file" <=> i = 1
        /\ \A j \in 1 .. 8 : Inspected[i] = Inspected[j] => i = j
    <2>1. ASSUME NEW i \in {1, 2, 3, 4, 5, 6, 7, 8}
          PROVE  /\ Inspected[i] \notin {"output", "lock", "lockDigest", "entries", "set", "publish", "sync"}
                 /\ Inspected[i] = "again" <=> i = 8
                 /\ Inspected[i] = "digest" <=> i = 2
                 /\ Inspected[i] = "file" <=> i = 1
                 /\ \A j \in {1, 2, 3, 4, 5, 6, 7, 8} : Inspected[i] = Inspected[j] => i = j
        BY DEF Inspected
    <2>2. 1 .. 8 = {1, 2, 3, 4, 5, 6, 7, 8}
        OBVIOUS
    <2>3. QED BY <2>1, <2>2
<1>4. \A d \in 1 .. D : Directory[d] \in Packages
    BY <1>1 DEF Packages
<1>5. \A s \in Packages : \E d \in 1 .. D : s = Directory[d]
    BY <1>1 DEF Packages
<1>6. \A d, e \in 1 .. D : Directory[d] = Directory[e] => d = e
    BY <1>1, PackageConstants
<1> HIDE DEF G, Asks, GenerateSays
<1>7. \A i \in 1 .. 8 : Inspected[i] \in Asks
    BY DEF Asks
<1>8. \A r \in Asks : \E i \in 1 .. 8 : r = Inspected[i]
    BY DEF Asks
\* What is asked at a position, and of what was asked before.
<1>9. ASSUME NEW j \in 1 .. 8 * D + 7
      PROVE  \/ j \in 1 .. 4 /\ G[j][1] \in {"output", "lock", "lockDigest", "entries"}
             \/ \E d \in 1 .. D, i \in 1 .. 8 : j = 8 * (d - 1) + i + 4 /\ G[j] = <<Inspected[i], Directory[d]>>
             \/ j = 8 * D + 5 /\ G[j][1] = "set"
             \/ j \in {8 * D + 6, 8 * D + 7} /\ G[j][1] \in {"publish", "sync"}
    <2>1. CASE j \in 1 .. 4
        <3>1. j = 1 \/ j = 2 \/ j = 3 \/ j = 4
            BY <2>1
        <3>2. QED BY <1>2, <2>1, <3>1
    <2>2. CASE j \in 5 .. 8 * D + 4
        BY <1>2, <2>2
    <2>3. CASE j \in {8 * D + 5, 8 * D + 6, 8 * D + 7}
        <3>1. /\ G[8 * D + 5][1] = "set" /\ G[8 * D + 6][1] = "publish"
              /\ G[8 * D + 7][1] = "sync"
            BY <1>2
        <3>2. QED BY <2>3, <3>1
    <2>4. QED BY <2>1, <2>2, <2>3
<1>10. CASE k \in 1 .. 4
    <2>1. G[k] = <<q, to>> /\ q \in {"output", "lock", "lockDigest", "entries"} /\ p = to
        <3>1. k = 1 \/ k = 2 \/ k = 3 \/ k = 4
            BY <1>10
        <3>2. QED BY <1>2, <3>1
    <2>2. q \notin Asks
        BY <1>3, <1>8, <2>1
    <2>3. \A j \in 1 .. k - 1 : G[j][1] # "set"
        <3>1. \A j \in 1 .. k - 1 : j \in 1 .. 4 /\ j \in 1 .. 8 * D + 7
            BY <1>10
        <3>2. G[1][1] # "set" /\ G[2][1] # "set" /\ G[3][1] # "set" /\ G[4][1] # "set"
            BY <1>2
        <3>3. \A j \in 1 .. 4 : j = 1 \/ j = 2 \/ j = 3 \/ j = 4
            OBVIOUS
        <3>4. QED BY <3>1, <3>2, <3>3
    <2>4. k # Len(G)
        BY <1>2, <1>10
    <2>5. QED BY <2>1, <2>2, <2>3, <2>4 DEF G, Asks, GenerateSays
<1>11. CASE k \in 5 .. 8 * D + 4
    <2>1. PICK d \in 1 .. D, i \in 1 .. 8 : k = 8 * (d - 1) + i + 4
        BY <1>2, <1>11
    <2>2. G[k] = <<Inspected[i], Directory[d]>> /\ q = Inspected[i] /\ p = Directory[d]
        <3>1. G[8 * (d - 1) + i + 4] = <<Inspected[i], Directory[d]>>
            BY <1>2
        <3>2. G[k] = <<Inspected[i], Directory[d]>>
            BY <2>1, <3>1
        <3>3. QED BY <3>2
    <2>3. /\ G[k] = <<q, p>> /\ q \in Asks /\ p \in Packages /\ k < Len(G)
          /\ q \notin {"output", "lock", "lockDigest", "entries", "set", "publish", "sync"}
        <3>1. k < Len(G)
            BY <1>2, <1>11
        <3>2. QED BY <1>3, <1>4, <1>7, <2>2, <3>1
    <2>4. ASSUME NEW j \in 1 .. k - 1
          PROVE  /\ G[j][1] # "set"
                 /\ \A e \in 1 .. 8 : G[j] = <<Inspected[e], p>> => e < i
        <3>1. j \in 1 .. 8 * D + 7 /\ j < 8 * D + 4
            BY <1>11
        <3>2. CASE j \in 1 .. 4
            <4>1. G[j][1] \in {"output", "lock", "lockDigest", "entries"}
                BY <1>9, <1>3, <3>1, <3>2
            <4>2. QED BY <1>3, <4>1
        <3>3. ASSUME NEW f \in 1 .. D, NEW e \in 1 .. 8, j = 8 * (f - 1) + e + 4,
                     G[j] = <<Inspected[e], Directory[f]>>
              PROVE  /\ G[j][1] # "set"
                     /\ \A x \in 1 .. 8 : G[j] = <<Inspected[x], p>> => x < i
            <4>1. ASSUME NEW x \in 1 .. 8, G[j] = <<Inspected[x], p>> PROVE x < i
                <5>1. x = e /\ f = d
                    BY <1>3, <1>6, <2>2, <3>3, <4>1
                <5>2. QED BY <2>1, <3>3, <5>1
            <4>2. QED BY <1>3, <3>3, <4>1
        <3>4. QED BY <1>9, <3>1, <3>2, <3>3
    <2>5. \A j \in 1 .. k - 1 : G[j] # <<"again", p>>
        BY <1>3, <2>4
    <2>6. ASSUME q = "digest", NEW j \in 1 .. k - 1, NEW r \in Asks \ {"file"} PROVE G[j] # <<r, p>>
        <3>1. PICK e \in 1 .. 8 : r = Inspected[e] /\ e # 1
            BY <1>3, <1>8
        <3>2. i = 2
            BY <1>3, <2>2, <2>6
        <3>3. QED BY <2>4, <3>1, <3>2
    <2>7. ASSUME q \notin {"file", "digest"} PROVE \E j \in 1 .. k - 1 : G[j] = <<"digest", p>>
        <3>1. i # 1 /\ i # 2
            BY <1>3, <2>2, <2>7
        <3>2. 8 * (d - 1) + 2 + 4 \in 1 .. k - 1
            BY <2>1, <3>1
        <3>3. G[8 * (d - 1) + 2 + 4] = <<Inspected[2], Directory[d]>> /\ Inspected[2] = "digest"
            <4>1. \A x \in 1 .. 8 : G[8 * (d - 1) + x + 4] = <<Inspected[x], Directory[d]>>
                BY <1>2, <2>1
            <4>2. 2 \in 1 .. 8 /\ Inspected[2] = "digest"
                BY <1>3
            <4>3. QED BY <4>1, <4>2
        <3>4. QED BY <2>2, <3>2, <3>3
    <2>8. k # Len(G)
        BY <1>2, <1>11
    <2>9. \A j \in 1 .. k - 1 : G[j][1] # "set"
        BY <2>4
    <2>10. QED BY <2>3, <2>5, <2>6, <2>7, <2>8, <2>9 DEF G, Asks, GenerateSays
<1>12. CASE k \in {8 * D + 5, 8 * D + 6, 8 * D + 7}
    <2>1. /\ G[k] = <<q, to>> /\ p = to
          /\ q = "set" <=> k = 8 * D + 5
          /\ q = "sync" <=> k = 8 * D + 7
          /\ q \in {"set", "publish", "sync"}
        <3>1. CASE k = 8 * D + 5
            BY <1>2, <3>1
        <3>2. CASE k = 8 * D + 6
            BY <1>2, <3>2
        <3>3. CASE k = 8 * D + 7
            BY <1>2, <3>3
        <3>4. QED BY <1>12, <3>1, <3>2, <3>3
    <2>2. q \notin Asks
        BY <1>3, <1>8, <2>1
    <2>3. ASSUME NEW s \in Packages, NEW r \in Asks PROVE \E j \in 1 .. k - 1 : G[j] = <<r, s>>
        <3>1. PICK d \in 1 .. D, i \in 1 .. 8 : s = Directory[d] /\ r = Inspected[i]
            BY <1>5, <1>8
        <3>2. 8 * (d - 1) + i + 4 \in 1 .. k - 1
            BY <1>12
        <3>3. QED BY <1>2, <3>1, <3>2
    <2>4. 2 \in 1 .. k - 1 /\ 3 \in 1 .. k - 1 /\ G[2][1] = "lock" /\ G[3][1] = "lockDigest"
        BY <1>2, <1>12
    <2>5. ASSUME q # "set" PROVE \E j \in 1 .. k - 1 : G[j][1] = "set"
        <3>1. 8 * D + 5 \in 1 .. k - 1 /\ G[8 * D + 5][1] = "set"
            BY <1>2, <1>12, <2>1, <2>5
        <3>2. QED BY <3>1
    <2>6. ASSUME q = "set", NEW j \in 1 .. k - 1 PROVE G[j][1] # "set"
        <3>1. j \in 1 .. 8 * D + 7 /\ j < 8 * D + 5
            BY <2>1, <2>6
        <3>2. QED BY <1>3, <1>9, <3>1
    <2>7. k = Len(G) <=> q = "sync"
        BY <1>2, <2>1
    <2>8. QED BY <2>1, <2>2, <2>3, <2>4, <2>5, <2>6, <2>7 DEF G, Asks, GenerateSays
<1>13. k \in 1 .. 4 \/ k \in 5 .. 8 * D + 4 \/ k \in {8 * D + 5, 8 * D + 6, 8 * D + 7}
    <2>1. k \in 1 .. 8 * D + 7
        BY <1>2
    <2>2. QED BY <2>1
<1>14. QED BY <1>10, <1>11, <1>12, <1>13

\* OpenVINO's packages are all asked before the set is judged, and then their payloads.
FamilySays(A, k, q, p, Asks) ==
    /\ A[k] = <<q, p>> /\ p \in Shared \cup {Runtime}
    /\ q \in Asks \cup {"set", "payload", "elf"}
    /\ q \in Asks \cup {"set"} => k < Len(A) /\ \A j \in 1 .. k - 1 : A[j][1] \in Asks
    /\ q \in {"set", "payload", "elf"} =>
          \A s \in Shared \cup {Runtime}, r \in Asks : \E j \in 1 .. k - 1 : A[j] = <<r, s>>
    /\ q \in {"payload", "elf"} => \E j \in 1 .. k - 1 : A[j][1] = "set"
    /\ q = "elf" => \E j \in 1 .. k - 1 : A[j] = <<"payload", p>>
    /\ k = Len(A) => /\ q = "elf"
                     /\ \A s \in Shared \cup {Runtime} :
                          /\ \E j \in 1 .. k : A[j] = <<"elf", s>>
                          /\ \E j \in 1 .. k - 1 : A[j] = <<"payload", s>>

\* Wherever OpenVINO's gate stands in its agenda, this is so.
LEMMA FamilyFacts ==
    ASSUME NEW k \in DOMAIN FamilyAgenda
    PROVE  FamilySays(FamilyAgenda, k, FamilyAgenda[k][1], FamilyAgenda[k][2], {Judged[i] : i \in 1 .. 5})
<1> DEFINE A == FamilyAgenda
           q == A[k][1]
           p == A[k][2]
           Asks == {Judged[i] : i \in 1 .. 5}
           Fam == Shared \cup {Runtime}
<1>1. PICK F \in Nat : F = Len(Family) /\ DOMAIN Family = 1 .. F /\ F >= 1
    <2>1. Len(Family) \in Nat /\ Len(Family) # 0 /\ DOMAIN Family = 1 .. Len(Family)
        BY Packaged
    <2>2. Len(Family) >= 1
        BY <2>1
    <2>3. QED BY <2>1, <2>2
<1>2. FamilyLaid(A, F) /\ k \in 1 .. 5 * F + 1 + 2 * F
    <2>1. FamilyLaid(A, F)
        BY <1>1, FamilyOrder
    <2>2. QED BY <2>1 DEF FamilyLaid
<1>3. /\ \A i \in 1 .. 5 : Judged[i] \notin {"set", "payload", "elf"}
      /\ Unpacked[1] = "payload" /\ Unpacked[2] = "elf"
    <2>1. \A i \in {1, 2, 3, 4, 5} : Judged[i] \notin {"set", "payload", "elf"}
        BY DEF Judged
    <2>2. 1 .. 5 = {1, 2, 3, 4, 5}
        OBVIOUS
    <2>3. QED BY <2>1, <2>2 DEF Unpacked
<1>4. /\ \A d \in 1 .. F : Family[d] \in Fam
      /\ \A s \in Fam : \E d \in 1 .. F : s = Family[d]
      /\ Runtime \in Fam
    BY <1>1, Packaged
<1> HIDE DEF A, Asks, Fam, FamilySays
<1>5. /\ \A i \in 1 .. 5 : Judged[i] \in Asks
      /\ \A r \in Asks : \E i \in 1 .. 5 : r = Judged[i]
    BY DEF Asks
<1>6. ASSUME NEW j \in 1 .. 5 * F
      PROVE  \E d \in 1 .. F, i \in 1 .. 5 : j = 5 * (d - 1) + i /\ A[j] = <<Judged[i], Family[d]>>
    <2>1. /\ ((j - 1) \div 5) + 1 \in 1 .. F /\ ((j - 1) % 5) + 1 \in 1 .. 5
          /\ j = 5 * (((j - 1) \div 5) + 1 - 1) + (((j - 1) % 5) + 1)
        OBVIOUS
    <2>2. PICK d \in 1 .. F, i \in 1 .. 5 : j = 5 * (d - 1) + i
        BY <2>1
    <2>3. A[5 * (d - 1) + i] = <<Judged[i], Family[d]>>
        BY <1>2 DEF FamilyLaid
    <2>4. QED BY <2>2, <2>3
<1>7. ASSUME NEW j \in 5 * F + 2 .. 5 * F + 1 + 2 * F
      PROVE  \E d \in 1 .. F, i \in 1 .. 2 : /\ j = 5 * F + 1 + (2 * (d - 1) + i)
                                             /\ A[j] = <<Unpacked[i], Family[d]>>
    <2>1. PICK x \in 1 .. 2 * F : j = 5 * F + 1 + x
        <3>1. j - (5 * F + 1) \in 1 .. 2 * F /\ j = 5 * F + 1 + (j - (5 * F + 1))
            OBVIOUS
        <3>2. QED BY <3>1
    <2>2. /\ ((x - 1) \div 2) + 1 \in 1 .. F /\ ((x - 1) % 2) + 1 \in 1 .. 2
          /\ x = 2 * (((x - 1) \div 2) + 1 - 1) + (((x - 1) % 2) + 1)
        OBVIOUS
    <2>3. PICK d \in 1 .. F, i \in 1 .. 2 : x = 2 * (d - 1) + i
        BY <2>2
    <2>4. A[5 * F + 1 + (2 * (d - 1) + i)] = <<Unpacked[i], Family[d]>>
        BY <1>2 DEF FamilyLaid
    <2>5. QED BY <2>1, <2>3, <2>4
<1>8. A[5 * F + 1] = <<"set", Runtime>> /\ Len(A) = 5 * F + 1 + 2 * F
    BY <1>2 DEF FamilyLaid
<1>9. ASSUME NEW j \in 1 .. 5 * F PROVE A[j][1] \in Asks /\ A[j][2] \in Fam /\ A[j] = <<A[j][1], A[j][2]>>
    BY <1>4, <1>5, <1>6
<1>10. ASSUME NEW s \in Fam, NEW r \in Asks PROVE \E j \in 1 .. 5 * F : A[j] = <<r, s>>
    <2>1. PICK d \in 1 .. F, i \in 1 .. 5 : s = Family[d] /\ r = Judged[i]
        BY <1>4, <1>5
    <2>2. 5 * (d - 1) + i \in 1 .. 5 * F
        OBVIOUS
    <2>3. A[5 * (d - 1) + i] = <<r, s>>
        BY <1>2, <2>1 DEF FamilyLaid
    <2>4. QED BY <2>2, <2>3
<1>11. "set" \notin Asks /\ "payload" \notin Asks /\ "elf" \notin Asks
    BY <1>3, <1>5
<1>12. CASE k \in 1 .. 5 * F
    <2>1. q \in Asks /\ p \in Fam /\ A[k] = <<q, p>> /\ k < Len(A)
        BY <1>8, <1>9, <1>12
    <2>2. \A j \in 1 .. k - 1 : A[j][1] \in Asks
        <3>1. \A j \in 1 .. k - 1 : j \in 1 .. 5 * F
            BY <1>12
        <3>2. QED BY <1>9, <3>1
    <2>3. k # Len(A) /\ q \notin {"set", "payload", "elf"}
        BY <1>8, <1>11, <1>12, <2>1
    <2>4. QED BY <2>1, <2>2, <2>3 DEF A, Asks, Fam, FamilySays
<1>13. CASE k = 5 * F + 1
    <2>1. q = "set" /\ p \in Fam /\ A[k] = <<q, p>> /\ k < Len(A) /\ k # Len(A)
        BY <1>1, <1>4, <1>8, <1>13
    <2>2. \A j \in 1 .. k - 1 : A[j][1] \in Asks
        BY <1>9, <1>13
    <2>3. \A s \in Fam, r \in Asks : \E j \in 1 .. k - 1 : A[j] = <<r, s>>
        BY <1>10, <1>13
    <2>4. QED BY <2>1, <2>2, <2>3 DEF A, Asks, Fam, FamilySays
<1>14. CASE k \in 5 * F + 2 .. 5 * F + 1 + 2 * F
    <2>1. PICK d \in 1 .. F, i \in 1 .. 2 : /\ k = 5 * F + 1 + (2 * (d - 1) + i)
                                            /\ A[k] = <<Unpacked[i], Family[d]>>
        BY <1>7, <1>14
    <2>2. q = Unpacked[i] /\ p = Family[d] /\ p \in Fam /\ A[k] = <<q, p>> /\ q \in {"payload", "elf"}
        BY <1>3, <1>4, <2>1
    <2>3. q \notin Asks \cup {"set"}
        BY <1>11, <2>2
    <2>4. \A j \in 1 .. 5 * F + 1 : j \in 1 .. k - 1
        BY <1>14
    <2>5. ASSUME NEW s \in Fam, NEW r \in Asks PROVE \E j \in 1 .. k - 1 : A[j] = <<r, s>>
        <3>1. PICK j \in 1 .. 5 * F : A[j] = <<r, s>>
            BY <1>10
        <3>2. j \in 1 .. k - 1
            BY <1>14
        <3>3. QED BY <3>1, <3>2
    <2>6. \E j \in 1 .. k - 1 : A[j][1] = "set"
        <3>1. 5 * F + 1 \in 1 .. k - 1 /\ A[5 * F + 1][1] = "set"
            BY <1>8, <1>14
        <3>2. QED BY <3>1
    <2>7. ASSUME q = "elf" PROVE \E j \in 1 .. k - 1 : A[j] = <<"payload", p>>
        <3>1. i = 2
            <4>1. i = 1 \/ i = 2
                OBVIOUS
            <4>2. QED BY <1>3, <2>2, <2>7, <4>1
        <3>2. 5 * F + 1 + (2 * (d - 1) + 1) \in 1 .. k - 1
            BY <2>1, <3>1
        <3>3. A[5 * F + 1 + (2 * (d - 1) + 1)] = <<"payload", p>>
            <4>1. 1 \in 1 .. 2
                OBVIOUS
            <4>2. QED BY <1>2, <1>3, <2>2, <4>1 DEF FamilyLaid
        <3>4. QED BY <3>2, <3>3
    <2>8. ASSUME k = Len(A)
          PROVE  /\ q = "elf"
                 /\ \A s \in Fam : /\ \E j \in 1 .. k : A[j] = <<"elf", s>>
                                   /\ \E j \in 1 .. k - 1 : A[j] = <<"payload", s>>
        <3>1. d = F /\ i = 2
            BY <1>8, <2>1, <2>8
        <3>2. q = "elf"
            BY <1>3, <2>2, <3>1
        <3>3. ASSUME NEW s \in Fam
              PROVE  /\ \E j \in 1 .. k : A[j] = <<"elf", s>>
                     /\ \E j \in 1 .. k - 1 : A[j] = <<"payload", s>>
            <4>1. PICK e \in 1 .. F : s = Family[e]
                BY <1>4
            <4>2. /\ 5 * F + 1 + (2 * (e - 1) + 1) \in 1 .. k - 1
                  /\ 5 * F + 1 + (2 * (e - 1) + 2) \in 1 .. k
                BY <1>8, <2>8
            <4>3. 1 \in 1 .. 2 /\ 2 \in 1 .. 2
                OBVIOUS
            <4>4. A[5 * F + 1 + (2 * (e - 1) + 1)] = <<"payload", s>>
                BY <1>2, <1>3, <4>1, <4>3 DEF FamilyLaid
            <4>5. A[5 * F + 1 + (2 * (e - 1) + 2)] = <<"elf", s>>
                BY <1>2, <1>3, <4>1, <4>3 DEF FamilyLaid
            <4>6. QED BY <4>2, <4>4, <4>5
        <3>4. QED BY <3>2, <3>3
    <2>9. QED BY <2>2, <2>3, <2>5, <2>6, <2>7, <2>8 DEF A, Asks, Fam, FamilySays
<1>15. k \in 1 .. 5 * F \/ k = 5 * F + 1 \/ k \in 5 * F + 2 .. 5 * F + 1 + 2 * F
    BY <1>2
<1>16. QED BY <1>12, <1>13, <1>14, <1>15

\* The pair is asked about in ten steps.
LEMMA PairFacts ==
    /\ PairAgenda = [k \in 1 .. 10 |-> PairAgenda[k]] /\ Len(PairAgenda) = 10
    /\ PairAgenda[1] = <<"file", Driver>> /\ PairAgenda[2] = <<"file", Blob>>
    /\ PairAgenda[3] = <<"identity", Driver>> /\ PairAgenda[4] = <<"identity", Blob>>
    /\ PairAgenda[5] = <<"requirements", Driver>> /\ PairAgenda[6] = <<"provides", Blob>>
    /\ PairAgenda[7] = <<"scripts", Driver>> /\ PairAgenda[8] = <<"scripts", Blob>>
    /\ PairAgenda[9] = <<"files", Driver>> /\ PairAgenda[10] = <<"files", Blob>>
    /\ \A k \in 1 .. 10 : /\ PairAgenda[k] = <<PairAgenda[k][1], PairAgenda[k][2]>>
                          /\ PairAgenda[k][2] \in {Driver, Blob}
                          /\ PairAgenda[k][1] \in {"file", "identity", "requirements", "provides",
                                                   "scripts", "files"}
<1>1. /\ Len(PairAgenda) = 10
      /\ PairAgenda[1] = <<"file", Driver>> /\ PairAgenda[2] = <<"file", Blob>>
      /\ PairAgenda[3] = <<"identity", Driver>> /\ PairAgenda[4] = <<"identity", Blob>>
      /\ PairAgenda[5] = <<"requirements", Driver>> /\ PairAgenda[6] = <<"provides", Blob>>
      /\ PairAgenda[7] = <<"scripts", Driver>> /\ PairAgenda[8] = <<"scripts", Blob>>
      /\ PairAgenda[9] = <<"files", Driver>> /\ PairAgenda[10] = <<"files", Blob>>
    BY DEF PairAgenda
<1>2. PairAgenda = [k \in 1 .. 10 |-> PairAgenda[k]]
    BY DEF PairAgenda
<1>3. \A k \in 1 .. 10 : k \in {1, 2, 3, 4, 5, 6, 7, 8, 9, 10}
    OBVIOUS
<1>4. ASSUME NEW k \in {1, 2, 3, 4, 5, 6, 7, 8, 9, 10}
      PROVE  /\ PairAgenda[k] = <<PairAgenda[k][1], PairAgenda[k][2]>>
             /\ PairAgenda[k][2] \in {Driver, Blob}
             /\ PairAgenda[k][1] \in {"file", "identity", "requirements", "provides", "scripts", "files"}
    BY <1>1
<1>5. QED BY <1>1, <1>2, <1>3, <1>4

-----------------------------------------------------------------------------
(* What is left of an agenda, and what a tool has when it goes on with it. *)

\* The agenda from its k-th entry on.
Rest(A, k) == [i \in 1 .. Len(A) + 1 - k |-> A[k + i - 1]]

\* The question was asked before the k-th entry.
Before(A, k, q, p) == \E j \in 1 .. k - 1 : A[j] = <<q, p>>
After(A, k, q) == \E j \in 1 .. k - 1 : A[j][1] = q

\* The next entry is the k-th one, and what is left then is the rest after it.
LEMMA RestMoves ==
    ASSUME NEW A, Len(A) \in Nat, NEW k \in 1 .. Len(A)
    PROVE  /\ Rest(A, k) # <<>> /\ Head(Rest(A, k)) = A[k]
           /\ Tail(Rest(A, k)) = Rest(A, k + 1)
           /\ Tail(Rest(A, k)) = <<>> <=> k = Len(A)
<1>0. PICK L \in Nat : L = Len(A) /\ k \in 1 .. L
    OBVIOUS
<1> DEFINE S == {A[j] : j \in 1 .. L}
           T == Rest(A, k)
           U == Rest(A, k + 1)
<1>1. T \in Seq(S) /\ Len(T) = L + 1 - k /\ DOMAIN T = 1 .. L + 1 - k
    BY <1>0 DEF Rest
<1>2. \A i \in 1 .. L + 1 - k : T[i] = A[k + i - 1]
    BY <1>0 DEF Rest
<1>3. U \in Seq(S) /\ Len(U) = L - k /\ DOMAIN U = 1 .. L - k
    BY <1>0 DEF Rest
<1>4. \A i \in 1 .. L - k : U[i] = A[k + i]
    BY <1>0 DEF Rest
<1> HIDE DEF T, U, S
<1>5. T # <<>> /\ Head(T) = A[k]
    BY <1>0, <1>1, <1>2
<1>6. Tail(T) \in Seq(S) /\ Len(Tail(T)) = L - k
    BY <1>0, <1>1
<1>7. \A i \in 1 .. L - k : Tail(T)[i] = A[k + i]
    BY <1>0, <1>1, <1>2
<1>8. Tail(T) = U
    BY <1>3, <1>4, <1>6, <1>7, SeqEqual
<1>9. U = <<>> <=> k = L
    BY <1>3
<1>10. QED BY <1>0, <1>5, <1>8, <1>9 DEF T, U

\* What was asked before the next entry: the same and this one.
LEMMA OneMore ==
    ASSUME NEW A, NEW k \in Nat \ {0}, NEW q, NEW p, A[k] = <<q, p>>
    PROVE  /\ \A r, s : Before(A, k + 1, r, s) <=> Before(A, k, r, s) \/ (r = q /\ s = p)
           /\ \A r : After(A, k + 1, r) <=> After(A, k, r) \/ r = q
<1>1. 1 .. (k + 1) - 1 = (1 .. k - 1) \cup {k}
    OBVIOUS
<1>2. ASSUME NEW r, NEW s PROVE Before(A, k + 1, r, s) <=> Before(A, k, r, s) \/ (r = q /\ s = p)
    <2>1. A[k] = <<r, s>> <=> r = q /\ s = p
        OBVIOUS
    <2>2. QED BY <1>1, <2>1 DEF Before
<1>3. ASSUME NEW r PROVE After(A, k + 1, r) <=> After(A, k, r) \/ r = q
    <2>1. A[k][1] = q
        OBVIOUS
    <2>2. QED BY <1>1, <2>1 DEF After
<1>4. QED BY <1>2, <1>3

Fields == {"name", "todo", "outcome", "quiet", "seen", "swaps", "sources", "lock", "from", "text", "to",
           "id", "release", "ids", "invalid"}
IsTool(t) == t = [x \in Fields |-> t[x]]

\* A tool that goes on has one entry less and is the same otherwise.
LEMMA GoesOn ==
    ASSUME NEW t, IsTool(t)
    PROVE  LET u == [t EXCEPT !.todo = Tail(@)]
           IN IsTool(u) /\ u.todo = Tail(t.todo) /\ \A x \in Fields \ {"todo"} : u[x] = t[x]
BY DEF IsTool, Fields

\* So is one that a change disturbs.
LEMMA GetsDisturbed ==
    ASSUME NEW t, IsTool(t)
    PROVE  LET u == [t EXCEPT !.quiet = FALSE]
           IN IsTool(u) /\ u.quiet = FALSE /\ \A x \in Fields \ {"quiet"} : u[x] = t[x]
BY DEF IsTool, Fields

Answers == {None} \cup UNION {RpmFiles(p) : p \in Packages}
Known == [Packages -> [Questions -> Answers]]

\* A tool at its start, and one that has ended.
LEMMA NoToolIsTool ==
    /\ IsTool(NoTool) /\ NoTool.name = "none" /\ NoTool.todo = <<>> /\ NoTool.outcome = "none"
    /\ NoTool.quiet = TRUE /\ NoTool.text = None /\ NoTool.from = None /\ NoTool.to = None
    /\ NoTool.invalid = FALSE /\ NoTool.ids = {}
BY DEF IsTool, NoTool, Fields

-----------------------------------------------------------------------------
(* Profile files.                                                          *)

\* A draft that may be pinned.
Pinned(t) ==
    /\ t \in Texts /\ ~t.link /\ t.defect = None
    /\ t.status = "candidate" /\ t.evidence = "absent" /\ t.max = t.min + 1

\* What a file may hold is no value that stands for none.
LEMMA TextsExist == \A t \in Texts : t # None
BY CandidateConstants

\* A valid draft in the lines retarget knows has no defect.
LEMMA ValidIsFlawless ==
    ASSUME NEW t \in Texts, ValidProfile(t), t.defect # "format"
    PROVE  t.defect = None
<1>1. t.defect \in Defects \cup {None}
    BY DEF Texts
<1>2. t.defect \notin {"toml", "truncated", "schema", "limit", "field", "conflict", "pci", "component",
                       "provider"}
    BY DEF ValidProfile, WellFormed, SchemaSupported, WithinLimits, FieldsFilled, ConflictsSorted,
           PciIdsNormal, ComponentsComplete, ProvidersExact
<1>3. QED BY <1>1, <1>2 DEF Defects

\* What another generator writes is a profile file.
LEMMA ForeignIsText == Foreign \in Texts
<1> DEFINE Flaws == (UNION {FlawsOf(p) : p \in Providers}) \cup {None}
<1>1. Builds \in 1 .. Builds /\ None \in Flaws
    BY PackageConstants
<1>2. [p \in Providers |-> [build |-> Builds, flaw |-> None]]
        \in [Providers -> [build : 1 .. Builds, flaw : Flaws]]
    <2> HIDE DEF Flaws
    <2>1. QED BY <1>1
<1>3. QED BY <1>2, CandidateConstants DEF Foreign, Texts

\* Any edit of a profile file leaves one, or none.
LEMMA EditsAreTexts == ASSUME NEW t \in Texts PROVE Edited(t) \subseteq Texts \cup {None}
<1>1. Foreign.bound \in [Providers -> [build : 1 .. Builds,
                                       flaw : (UNION {FlawsOf(p) : p \in Providers}) \cup {None}]]
    BY ForeignIsText DEF Texts
<1>2. /\ [t EXCEPT !.link = TRUE] \in Texts /\ [t EXCEPT !.bound = Foreign.bound] \in Texts
      /\ [t EXCEPT !.status = "experimental"] \in Texts /\ [t EXCEPT !.max = t.min] \in Texts
    BY <1>1 DEF Texts
<1>3. \A e \in {"absent", "bad", "complete"} : [t EXCEPT !.status = "qualified", !.evidence = e] \in Texts
    BY DEF Texts
<1>4. \A d \in Defects : [t EXCEPT !.defect = d] \in Texts
    BY DEF Texts
<1>5. QED BY <1>2, <1>3, <1>4 DEF Edited

-----------------------------------------------------------------------------
(* The invariant of the profile tools.                                     *)

Family1 == Shared \cup {Runtime}

IsDirectory(r) == r = [p \in Packages |-> r[p]] /\ \A p \in Packages : r[p] = None \/ r[p] \in RpmFiles(p)
IsRoot(e) == e = [p \in Family1 |-> e[p]] /\ \A p \in Family1 : e[p] = None \/ e[p] \in RpmFiles(p)
IsShelf(s) == s = [x \in Spots |-> s[x]] /\ \A x \in Spots : s[x] = None \/ s[x] \in Texts

\* What a record says of the file it is about.
Recorded(from, text) ==
    /\ Pinned(text)
    /\ from = None \/ from \in Texts
    /\ from # None => text.bound = from.bound /\ text.lock = from.lock /\ text.sources = from.sources

WorldInv ==
    /\ \/ rpms = Nothing /\ extracted = Nothing
       \/ IsDirectory(rpms) /\ IsRoot(extracted)
    /\ lock \in {None, 1, 2}
    /\ IsShelf(shelf)
    /\ edits \in 0 .. MaxEdits /\ runs \in 0 .. MaxRuns
    /\ \A r \in receipts : Recorded(r.from, r.text)

Gates == {"generate", "pair", "family"}
Agenda ==
    IF tool.name = "generate" THEN GenerateAgenda(tool.to)
    ELSE IF tool.name = "pair" THEN PairAgenda ELSE FamilyAgenda

\* What an answer lets pass when it is given.
Passes(q, p, answers) ==
    IF tool.name = "generate" THEN Inspects(q, answers[q], answers)
    ELSE IF tool.name = "pair" THEN PairAccepts(q, p, answers[q])
    ELSE /\ q = "file" => RegularRpm(answers[q])
         /\ q = "scripts" => Scriptless(answers[q])

\* What was asked has an answer that passes, and nothing else has one.
Answered(k) ==
    \A p \in Packages, q \in Questions :
        /\ tool.seen[p][q] # None => Before(Agenda, k, q, p)
        /\ Before(Agenda, k, q, p) => tool.seen[p][q] \in RpmFiles(p) /\ Passes(q, p, tool.seen[p])

\* As long as nothing disturbs it, the answers are those of the files that are there.
Undisturbed == tool.quiet => \A p \in Packages, q \in Questions : tool.seen[p][q] \in {None, rpms[p]}

\* A package that changed once at most since inspect() began has one file's answers, or it
\* will be found to have another digest than before.
Steady(p) == \A q \in Questions \ {"file"} : tool.seen[p][q] \in {None, tool.seen[p]["digest"]}
Rehashed ==
    \A p \in Packages : tool.swaps[p] <= 1 /\ tool.seen[p]["digest"] # None =>
        IF tool.seen[p]["again"] # None THEN Steady(p)
        ELSE \/ Steady(p) /\ rpms[p] = tool.seen[p]["digest"]
             \/ tool.swaps[p] = 1 /\ rpms[p] # tool.seen[p]["digest"]

\* What the generator has read of the lock and made of the set.
Drafted(k) ==
    /\ tool.from = None
    /\ After(Agenda, k, "lock") => tool.sources \in {1, 2}
    /\ After(Agenda, k, "lockDigest") => tool.lock \in {1, 2}
    /\ After(Agenda, k, "set") =>
        /\ Pinned(tool.text)
        /\ CompleteSet(tool.seen)
        /\ \A p \in Providers : tool.seen[p]["files"].flaw # "crowded"

\* What OpenVINO's gate has found of the set and the payloads.
Compared(k) ==
    /\ After(Agenda, k, "set") => FamilySet(tool.seen)
    /\ tool.quiet => \A p \in Family1 :
        /\ Before(Agenda, k, "payload", p) => extracted[p] = rpms[p] /\ rpms[p].flaw # "payload"
        /\ Before(Agenda, k, "elf", p) => GoodElf(extracted[p])

GateInv(k) ==
    /\ tool.seen \in Known /\ tool.swaps \in [Packages -> Nat]
    /\ Answered(k) /\ Undisturbed
    /\ tool.name = "generate" => Rehashed /\ Drafted(k)
    /\ tool.name = "family" => Compared(k)

\* What retarget-candidate still has to do, and what it has read.
RetargetInv ==
    \E from, to \in Spots :
        /\ tool.todo \in {<< <<"read", from>>, <<"create", to>>, <<"write", to>>, <<"sync", to>> >>,
                          << <<"create", to>>, <<"write", to>>, <<"sync", to>> >>,
                          << <<"write", to>>, <<"sync", to>> >>, << <<"sync", to>> >>}
        /\ tool.id \in {"generated", "retargeted"} /\ tool.release \in Releases
        /\ Head(tool.todo)[1] # "read" => Recorded(tool.from, tool.text) /\ tool.from # None

\* What validate-profiles has found in the files it has read, those before the k-th.
Listed(at, n) == [i \in 1 .. n |-> <<"profile", Shelf[at[i]]>>] \o << <<"verdict", None>> >>
Proper(s) == RegularFile(shelf[s]) /\ ValidProfile(shelf[s])
ReadInv(at, k) ==
    /\ tool.ids \subseteq {shelf[Shelf[at[j]]].id : j \in 1 .. k - 1}
    /\ tool.invalid <=>
        \/ \E s \in Spots : shelf[s] # None /\ shelf[s].link
        \/ \E j \in 1 .. k - 1 : ~Proper(Shelf[at[j]])
        \/ \E i, j \in 1 .. k - 1 : i # j /\ shelf[Shelf[at[i]]].id = shelf[Shelf[at[j]]].id
    /\ ~tool.invalid => tool.ids = {shelf[Shelf[at[j]]].id : j \in 1 .. k - 1}

ValidateInv ==
    \/ tool.todo = << <<"list", None>>, <<"verdict", None>> >> /\ tool.ids = {} /\ tool.invalid = FALSE
    \/ \E n \in 0 .. Len(Shelf) : \E at \in [1 .. n -> DOMAIN Shelf] : \E k \in 1 .. n + 1 :
         /\ tool.todo = Rest(Listed(at, n), k) /\ tool.invalid \in BOOLEAN
         /\ tool.quiet => IsListing(at) /\ ReadInv(at, k)

ToolInv ==
    /\ IsTool(tool)
    /\ tool.name \in {"none", "generate", "pair", "family", "retarget", "validate"}
    /\ tool.outcome \in {"none", "accepted", "refused"} /\ tool.quiet \in BOOLEAN
    /\ tool.text = None \/ tool.text \in Texts
    /\ tool.to = None \/ tool.to \in Spots
    /\ Running => tool.outcome = "none" /\ tool.name # "none"
    /\ Running /\ tool.name \in Gates =>
        /\ IsDirectory(rpms) /\ IsRoot(extracted)
        /\ tool.name = "generate" => tool.to \in Spots
        /\ \E k \in 1 .. Len(Agenda) : tool.todo = Rest(Agenda, k) /\ GateInv(k)
    /\ Running /\ tool.name = "retarget" => RetargetInv
    /\ Running /\ tool.name = "validate" => ValidateInv

CandidateInv == WorldInv /\ ToolInv /\ GatesAreExact /\ ValidatorIsExact

-----------------------------------------------------------------------------

\* A gate that runs is at some place of its agenda, which names what it does next.
At(k, L) ==
    /\ L = Len(Agenda) /\ L \in Nat /\ k \in 1 .. L /\ k \in Nat \ {0}
    /\ tool.todo = Rest(Agenda, k) /\ Agenda[k] = <<Question, Subject>>
    /\ Tail(tool.todo) = Rest(Agenda, k + 1)
    /\ Tail(tool.todo) = <<>> <=> k = L
    /\ GateInv(k)

\* A gate that runs stands somewhere.
LEMMA GateIsAt ==
    ASSUME ToolInv, Running, tool.name \in Gates
    PROVE  \E k, L \in Nat : At(k, L)
<1>1. PICK k \in 1 .. Len(Agenda) : tool.todo = Rest(Agenda, k) /\ GateInv(k)
    BY DEF ToolInv
<1>2. PICK L \in Nat : L = Len(Agenda) /\ DOMAIN Agenda = 1 .. L
                       /\ \A j \in 1 .. L : Agenda[j] = <<Agenda[j][1], Agenda[j][2]>>
    <2>1. CASE tool.name = "generate"
        <3>1. PICK D \in Nat : D = Len(Directory)
            BY Packaged
        <3>2. GenerateLaid(GenerateAgenda(tool.to), tool.to, D)
            BY <3>1, GenerateOrder
        <3>3. Len(GenerateAgenda(tool.to)) \in Nat
              /\ DOMAIN GenerateAgenda(tool.to) = 1 .. Len(GenerateAgenda(tool.to))
            BY <3>2 DEF GenerateLaid
        <3>4. \A j \in DOMAIN GenerateAgenda(tool.to) :
                GenerateAgenda(tool.to)[j] = <<GenerateAgenda(tool.to)[j][1], GenerateAgenda(tool.to)[j][2]>>
            BY GenerateFacts DEF GenerateSays
        <3>5. QED BY <2>1, <3>3, <3>4 DEF Agenda
    <2>2. CASE tool.name = "pair"
        BY <2>2, PairFacts DEF Agenda
    <2>3. CASE tool.name = "family"
        <3>1. PICK F \in Nat : F = Len(Family)
            BY Packaged
        <3>2. FamilyLaid(FamilyAgenda, F)
            BY <3>1, FamilyOrder
        <3>3. Len(FamilyAgenda) \in Nat /\ DOMAIN FamilyAgenda = 1 .. Len(FamilyAgenda)
            BY <3>2 DEF FamilyLaid
        <3>4. \A j \in DOMAIN FamilyAgenda : FamilyAgenda[j] = <<FamilyAgenda[j][1], FamilyAgenda[j][2]>>
            BY FamilyFacts DEF FamilySays
        <3>5. QED BY <2>3, <3>3, <3>4 DEF Agenda
    <2>4. QED BY <2>1, <2>2, <2>3 DEF Gates
<1>3. k \in 1 .. L /\ k \in Nat /\ k \in Nat \ {0}
    BY <1>2
<1>4. /\ Head(tool.todo) = Agenda[k] /\ Tail(tool.todo) = Rest(Agenda, k + 1)
      /\ Tail(tool.todo) = <<>> <=> k = L
    <2>1. /\ Head(Rest(Agenda, k)) = Agenda[k] /\ Tail(Rest(Agenda, k)) = Rest(Agenda, k + 1)
          /\ Tail(Rest(Agenda, k)) = <<>> <=> k = L
        BY <1>2, <1>3, RestMoves
    <2>2. QED BY <1>1, <2>1
<1>5. Agenda[k] = <<Question, Subject>>
    BY <1>2, <1>3, <1>4 DEF Question, Subject
<1>6. QED BY <1>1, <1>2, <1>3, <1>4, <1>5 DEF At

-----------------------------------------------------------------------------
(* Where a gate is.                                                        *)

InspectQuestions == {"file", "digest", "identity", "scripts", "requirements", "files", "source", "again"}
FamilyQuestions == {"file", "identity", "requirements", "files", "scripts"}

\* Which questions there are.
LEMMA QuestionSets ==
    /\ {Inspected[i] : i \in 1 .. 8} = InspectQuestions
    /\ {Judged[i] : i \in 1 .. 5} = FamilyQuestions
    /\ Questions = InspectQuestions \cup {"provides"} /\ FamilyQuestions \subseteq Questions
<1>1. 1 .. 8 = {1, 2, 3, 4, 5, 6, 7, 8} /\ 1 .. 5 = {1, 2, 3, 4, 5}
    OBVIOUS
<1>2. {Inspected[i] : i \in {1, 2, 3, 4, 5, 6, 7, 8}} = InspectQuestions
    BY DEF Inspected, InspectQuestions
<1>3. {Judged[i] : i \in {1, 2, 3, 4, 5}} = FamilyQuestions
    BY DEF Judged, FamilyQuestions
<1>4. QED BY <1>1, <1>2, <1>3 DEF Questions, InspectQuestions, FamilyQuestions

\* What the generator does next, and what it has done by then.
LEMMA GenerateAt ==
    ASSUME NEW k, NEW L, At(k, L), tool.name = "generate"
    PROVE  /\ Question \in InspectQuestions
                    \cup {"output", "lock", "lockDigest", "entries", "set", "publish", "sync"}
           /\ Question \in InspectQuestions => Subject \in Packages /\ ~Before(Agenda, k, "again", Subject)
           /\ Question \notin InspectQuestions => Subject = tool.to
           /\ Question \notin {"publish", "sync"} => ~After(Agenda, k, "set")
           /\ Question = "digest" => \A r \in Questions \ {"file"} : ~Before(Agenda, k, r, Subject)
           /\ Question \in InspectQuestions \ {"file", "digest"} => Before(Agenda, k, "digest", Subject)
           /\ Question \in {"set", "publish", "sync"} =>
                /\ \A s \in Packages, r \in InspectQuestions : Before(Agenda, k, r, s)
                /\ After(Agenda, k, "lock") /\ After(Agenda, k, "lockDigest")
           /\ Question \in {"publish", "sync"} => After(Agenda, k, "set")
           /\ k = L <=> Question = "sync"
           /\ \A s : ~Before(Agenda, k, "provides", s)
<1> DEFINE G == GenerateAgenda(tool.to)
<1>1. /\ Agenda = G /\ L = Len(G) /\ k \in 1 .. L /\ L \in Nat
      /\ G[k][1] = Question /\ G[k][2] = Subject /\ DOMAIN G = 1 .. L
    <2>1. Agenda = G
        BY DEF Agenda
    <2>2. PICK D \in Nat : D = Len(Directory)
        BY Packaged
    <2>3. GenerateLaid(G, tool.to, D)
        BY <2>2, GenerateOrder
    <2> HIDE DEF G
    <2>4. QED BY <2>1, <2>3 DEF At, GenerateLaid
<1>2. /\ Question \in InspectQuestions \cup {"output", "lock", "lockDigest", "entries", "set", "publish", "sync"}
      /\ Question \in InspectQuestions => Subject \in Packages
      /\ Question \notin InspectQuestions => Subject = tool.to
      /\ Question \in InspectQuestions => \A j \in 1 .. k - 1 : G[j] # <<"again", Subject>>
      /\ Question = "digest" =>
            \A j \in 1 .. k - 1 : \A r \in InspectQuestions \ {"file"} : G[j] # <<r, Subject>>
      /\ Question \in InspectQuestions \ {"file", "digest"} => \E j \in 1 .. k - 1 : G[j] = <<"digest", Subject>>
      /\ Question \in InspectQuestions \cup {"output", "lock", "lockDigest", "entries", "set"} =>
            \A j \in 1 .. k - 1 : G[j][1] # "set"
      /\ Question \in {"set", "publish", "sync"} =>
            /\ \A s \in Packages, r \in InspectQuestions : \E j \in 1 .. k - 1 : G[j] = <<r, s>>
            /\ \E j \in 1 .. k - 1 : G[j][1] = "lock"
            /\ \E j \in 1 .. k - 1 : G[j][1] = "lockDigest"
      /\ Question \in {"publish", "sync"} => \E j \in 1 .. k - 1 : G[j][1] = "set"
      /\ k = Len(G) <=> Question = "sync"
    <2>1. k \in DOMAIN G
        BY <1>1
    <2>2. /\ G[k][1] = Question /\ G[k][2] = Subject
          /\ {Inspected[i] : i \in 1 .. 8} = InspectQuestions
        BY <1>1, QuestionSets
    <2>3. GenerateSays(G, k, tool.to, Question, Subject, InspectQuestions)
        BY <2>1, <2>2, GenerateFacts
    <2> HIDE DEF G
    <2>4. QED BY <2>3 DEF GenerateSays
<1>3. \A j \in 1 .. L : G[j][1] \in
        InspectQuestions \cup {"output", "lock", "lockDigest", "entries", "set", "publish", "sync"}
    <2>1. ASSUME NEW j \in 1 .. L
          PROVE  GenerateSays(G, j, tool.to, G[j][1], G[j][2], InspectQuestions)
        BY <1>1, GenerateFacts, QuestionSets
    <2> HIDE DEF G
    <2>2. QED BY <2>1 DEF GenerateSays
<1> HIDE DEF G
<1>4. \A s : ~Before(Agenda, k, "provides", s)
    <2>1. "provides" \notin
            InspectQuestions \cup {"output", "lock", "lockDigest", "entries", "set", "publish", "sync"}
        BY DEF InspectQuestions
    <2>2. \A j \in 1 .. k - 1 : j \in 1 .. L
        BY <1>1
    <2>3. QED BY <1>1, <1>3, <2>1, <2>2 DEF Before
<1>5. /\ Question \in InspectQuestions => ~Before(Agenda, k, "again", Subject)
      /\ Question \in InspectQuestions \ {"file", "digest"} => Before(Agenda, k, "digest", Subject)
      /\ Question \in {"set", "publish", "sync"} =>
            \A s \in Packages, r \in InspectQuestions : Before(Agenda, k, r, s)
    BY <1>1, <1>2 DEF Before
<1>6. /\ Question \notin {"publish", "sync"} => ~After(Agenda, k, "set")
      /\ Question \in {"set", "publish", "sync"} => After(Agenda, k, "lock") /\ After(Agenda, k, "lockDigest")
      /\ Question \in {"publish", "sync"} => After(Agenda, k, "set")
    BY <1>1, <1>2 DEF After
<1>7. Question = "digest" => \A r \in Questions \ {"file"} : ~Before(Agenda, k, r, Subject)
    <2>1. ASSUME Question = "digest", NEW r \in InspectQuestions \ {"file"}
          PROVE  ~Before(Agenda, k, r, Subject)
        BY <1>1, <1>2, <2>1 DEF Before
    <2>2. QED BY <1>4, <2>1, QuestionSets
<1>8. QED BY <1>1, <1>2, <1>4, <1>5, <1>6, <1>7

\* What OpenVINO's gate does next, and what it has done by then.
LEMMA FamilyAt ==
    ASSUME NEW k, NEW L, At(k, L), tool.name = "family"
    PROVE  /\ Subject \in Family1 /\ Question \in FamilyQuestions \cup {"set", "payload", "elf"}
           /\ Question \in FamilyQuestions \cup {"set"} =>
                /\ k # L
                /\ ~After(Agenda, k, "set") /\ ~After(Agenda, k, "payload") /\ ~After(Agenda, k, "elf")
           /\ Question \in {"set", "payload", "elf"} =>
                \A s \in Family1, r \in FamilyQuestions : Before(Agenda, k, r, s)
           /\ Question \in {"payload", "elf"} => After(Agenda, k, "set")
           /\ Question = "elf" => Before(Agenda, k, "payload", Subject)
           /\ k = L => /\ Question = "elf"
                       /\ \A s \in Family1 : /\ Before(Agenda, k + 1, "elf", s)
                                             /\ Before(Agenda, k, "payload", s)
<1> DEFINE A == FamilyAgenda
<1>1. /\ Agenda = A /\ L = Len(A) /\ k \in 1 .. L /\ L \in Nat
      /\ A[k][1] = Question /\ A[k][2] = Subject /\ DOMAIN A = 1 .. L
    <2>1. Agenda = A
        BY DEF Agenda
    <2>2. PICK F \in Nat : F = Len(Family)
        BY Packaged
    <2>3. FamilyLaid(A, F)
        BY <2>2, FamilyOrder
    <2> HIDE DEF A
    <2>4. QED BY <2>1, <2>3 DEF At, FamilyLaid
<1>2. /\ Subject \in Family1 /\ Question \in FamilyQuestions \cup {"set", "payload", "elf"}
      /\ Question \in FamilyQuestions \cup {"set"} =>
            k < Len(A) /\ \A j \in 1 .. k - 1 : A[j][1] \in FamilyQuestions
      /\ Question \in {"set", "payload", "elf"} =>
            \A s \in Family1, r \in FamilyQuestions : \E j \in 1 .. k - 1 : A[j] = <<r, s>>
      /\ Question \in {"payload", "elf"} => \E j \in 1 .. k - 1 : A[j][1] = "set"
      /\ Question = "elf" => \E j \in 1 .. k - 1 : A[j] = <<"payload", Subject>>
      /\ k = Len(A) => /\ Question = "elf"
                       /\ \A s \in Family1 : /\ \E j \in 1 .. k : A[j] = <<"elf", s>>
                                             /\ \E j \in 1 .. k - 1 : A[j] = <<"payload", s>>
    <2>1. k \in DOMAIN A
        BY <1>1
    <2>2. /\ A[k][1] = Question /\ A[k][2] = Subject
          /\ {Judged[i] : i \in 1 .. 5} = FamilyQuestions
        BY <1>1, QuestionSets
    <2>3. FamilySays(A, k, Question, Subject, FamilyQuestions)
        BY <2>1, <2>2, FamilyFacts
    <2> HIDE DEF A
    <2>4. QED BY <2>3 DEF FamilySays, Family1
<1> HIDE DEF A
<1>3. {"set", "payload", "elf"} \cap FamilyQuestions = {}
    BY DEF FamilyQuestions
<1>4. 1 .. (k + 1) - 1 = 1 .. k
    BY <1>1
<1>5. Question \in FamilyQuestions \cup {"set"} =>
        k # L /\ ~After(Agenda, k, "set") /\ ~After(Agenda, k, "payload") /\ ~After(Agenda, k, "elf")
    BY <1>1, <1>2, <1>3 DEF After
<1>6. QED BY <1>1, <1>2, <1>4, <1>5 DEF Before, After

\* What the pair's gate does next, and what it has done in the end.
LEMMA PairAt ==
    ASSUME NEW k, NEW L, At(k, L), tool.name = "pair"
    PROVE  /\ Subject \in {Driver, Blob}
           /\ Question \in {"file", "identity", "requirements", "provides", "scripts", "files"}
           /\ k = L => /\ \A r \in {"file", "identity", "requirements", "scripts", "files"} :
                            Before(Agenda, k + 1, r, Driver)
                       /\ \A r \in {"file", "identity", "provides", "scripts", "files"} :
                            Before(Agenda, k + 1, r, Blob)
<1>1. /\ Agenda = PairAgenda /\ L = 10 /\ k \in 1 .. 10
      /\ PairAgenda[k][1] = Question /\ PairAgenda[k][2] = Subject
    <2>1. Agenda = PairAgenda
        BY DEF Agenda
    <2>2. L = 10 /\ k \in 1 .. 10 /\ PairAgenda[k] = <<Question, Subject>>
        BY <2>1, PairFacts DEF At
    <2>3. QED BY <2>1, <2>2
<1>2. k = L => 1 .. (k + 1) - 1 = 1 .. 10
    BY <1>1
<1>3. \A j \in {1, 2, 3, 4, 5, 6, 7, 8, 9, 10} : j \in 1 .. 10
    OBVIOUS
<1>4. k = L => /\ \A r \in {"file", "identity", "requirements", "scripts", "files"} :
                     \E j \in 1 .. 10 : PairAgenda[j] = <<r, Driver>>
               /\ \A r \in {"file", "identity", "provides", "scripts", "files"} :
                     \E j \in 1 .. 10 : PairAgenda[j] = <<r, Blob>>
    BY <1>3, PairFacts
<1>5. QED BY <1>1, <1>2, <1>4, PairFacts DEF Before

-----------------------------------------------------------------------------
(* Steps of the tools in general.                                          *)

\* Nothing is said of a tool that has not ended.
LEMMA Unended == ASSUME tool'.outcome = "none" PROVE GatesAreExact' /\ ValidatorIsExact'
BY DEF GatesAreExact, ValidatorIsExact

\* What tools and people leave alone is as it may be.
LEMMA WorldStays ==
    ASSUME WorldInv, UNCHANGED <<world, receipts, edits, runs>>
    PROVE  WorldInv'
BY DEF WorldInv, world, IsDirectory, IsRoot, IsShelf

\* A tool may end at any time.
LEMMA ToolEnds ==
    ASSUME ToolInv, NEW outcome \in {"accepted", "refused"}, NEW quiet \in BOOLEAN,
           tool' = [NoTool EXCEPT !.name = tool.name, !.to = tool.to, !.outcome = outcome, !.quiet = quiet]
    PROVE  /\ ToolInv' /\ tool'.name = tool.name /\ tool'.to = tool.to
           /\ tool'.outcome = outcome /\ tool'.quiet = quiet
<1>1. /\ IsTool(tool') /\ tool'.name = tool.name /\ tool'.todo = <<>> /\ tool'.outcome = outcome
      /\ tool'.quiet = quiet /\ tool'.text = None /\ tool'.to = tool.to
    BY DEF IsTool, NoTool, Fields
<1>2. QED BY <1>1 DEF ToolInv, Running

\* A gate that goes on is at the next place.
LEMMA GateGoesOn ==
    ASSUME ToolInv, NEW k, NEW L, At(k, L), k # L, Running, tool.name \in Gates,
           IsTool(tool'), tool'.todo = Tail(tool.todo), tool'.name = tool.name,
           tool'.outcome = tool.outcome, tool'.quiet = tool.quiet, tool'.to = tool.to,
           tool'.text = None \/ tool'.text \in Texts,
           IsDirectory(rpms'), IsRoot(extracted'), GateInv(k + 1)'
    PROVE  ToolInv' /\ tool'.outcome = "none"
<1>1. Agenda' = Agenda
    BY DEF Agenda
<1>2. k + 1 \in 1 .. Len(Agenda') /\ tool'.todo = Rest(Agenda', k + 1)
    BY <1>1 DEF At
<1>3. QED BY <1>2 DEF ToolInv, Running, Gates

\* The same lets an answer pass, if what it is compared with is the same.
LEMMA InspectsAlike ==
    ASSUME NEW q, NEW f, NEW a, NEW b, q = "again" => a["digest"] = b["digest"], Inspects(q, f, a)
    PROVE  Inspects(q, f, b)
<1>1. CASE q = "again"
    BY <1>1 DEF Inspects, Unchanged
<1>2. CASE q # "again"
    BY <1>2 DEF Inspects
<1>3. QED BY <1>1, <1>2

-----------------------------------------------------------------------------
(* A look at a file.                                                       *)

\* One more question has been answered about the package's RPM.
AnswerGiven(f) ==
    /\ tool'.name = tool.name /\ tool'.quiet = tool.quiet /\ tool'.to = tool.to
    /\ tool'.swaps = tool.swaps /\ tool'.from = tool.from /\ tool'.text = tool.text
    /\ tool'.sources = tool.sources /\ tool'.lock = tool.lock
    /\ tool'.seen \in Known /\ tool'.seen[Subject][Question] = f
    /\ \A s \in Packages, r \in Questions :
            s # Subject \/ r # Question => tool'.seen[s][r] = tool.seen[s][r]
    /\ rpms' = rpms /\ extracted' = extracted

\* What the tool that has the answer lets pass.
PassesThen(q, p) ==
    IF tool.name = "generate" THEN Inspects(q, tool'.seen[p][q], tool'.seen[p])
    ELSE IF tool.name = "pair" THEN PairAccepts(q, p, tool'.seen[p][q])
    ELSE /\ q = "file" => RegularRpm(tool'.seen[p][q])
         /\ q = "scripts" => Scriptless(tool'.seen[p][q])

\* Every answer so far passes still.
LEMMA AnswerIsKept ==
    ASSUME NEW k, NEW L, At(k, L), tool.name \in Gates, Question \in Questions, Subject \in Packages,
           rpms[Subject] \in RpmFiles(Subject), Accepts(Subject, rpms[Subject]), AnswerGiven(rpms[Subject])
    PROVE  Answered(k + 1)'
<1> DEFINE f == rpms[Subject]
<1>1. GateInv(k) /\ Answered(k) /\ k \in Nat \ {0} /\ Agenda[k] = <<Question, Subject>> /\ Agenda' = Agenda
    BY DEF At, GateInv, AnswerGiven, Agenda
<1>2. \A r, s : Before(Agenda, k + 1, r, s) <=> Before(Agenda, k, r, s) \/ (r = Question /\ s = Subject)
    BY <1>1, OneMore
<1>3. ASSUME NEW p \in Packages, NEW q \in Questions, p # Subject \/ q # Question
      PROVE  /\ tool'.seen[p][q] = tool.seen[p][q]
             /\ (Before(Agenda, k, q, p) /\ Passes(q, p, tool.seen[p])) => PassesThen(q, p)
    <2>1. tool'.seen[p][q] = tool.seen[p][q]
        BY <1>3 DEF AnswerGiven
    <2>2. ASSUME Before(Agenda, k, q, p), tool.name = "generate", Inspects(q, tool.seen[p][q], tool.seen[p])
          PROVE  Inspects(q, tool'.seen[p][q], tool'.seen[p])
        <3>1. q = "again" => tool.seen[p]["digest"] = tool'.seen[p]["digest"]
            <4>1. q = "again" => ~(p = Subject /\ Question = "digest")
                BY <2>2, GenerateAt
            <4>2. "digest" \in Questions
                BY DEF Questions
            <4>3. QED BY <4>1, <4>2 DEF AnswerGiven
        <3>2. QED BY <2>1, <2>2, <3>1, InspectsAlike
    <2>3. QED BY <2>1, <2>2 DEF Passes, PassesThen
<1>4. /\ f \in RpmFiles(Subject) /\ tool'.seen[Subject][Question] = f
      /\ PassesThen(Question, Subject)
    <2>1. tool'.seen[Subject][Question] = f /\ tool'.name = tool.name
        BY DEF AnswerGiven
    <2>2. CASE tool.name = "generate"
        <3>1. Inspects(Question, f, tool.seen[Subject])
            BY <2>2 DEF Accepts
        <3>2. Question = "again" => tool.seen[Subject]["digest"] = tool'.seen[Subject]["digest"]
            <4>1. "digest" \in Questions
                BY DEF Questions
            <4>2. QED BY <4>1 DEF AnswerGiven
        <3>3. QED BY <2>1, <2>2, <3>1, <3>2, InspectsAlike DEF PassesThen
    <2>3. CASE tool.name = "pair"
        BY <2>1, <2>3 DEF Accepts, PassesThen
    <2>4. CASE tool.name = "family"
        <3>1. FamilyAccepts(Question, Subject, f, tool.seen)
            BY <2>4 DEF Accepts
        <3>2. /\ Question = "file" => RegularRpm(f)
              /\ Question = "scripts" => Scriptless(f)
            BY <3>1 DEF FamilyAccepts
        <3>3. QED BY <2>1, <2>4, <3>2 DEF PassesThen
    <2>5. QED BY <2>2, <2>3, <2>4 DEF Gates
<1> HIDE DEF f
<1>5. f # None
    BY <1>4, PackageConstants
<1>6. ASSUME NEW p \in Packages, NEW q \in Questions
      PROVE  /\ tool'.seen[p][q] # None => Before(Agenda, k + 1, q, p)
             /\ Before(Agenda, k + 1, q, p) => tool'.seen[p][q] \in RpmFiles(p) /\ PassesThen(q, p)
    <2>1. CASE p = Subject /\ q = Question
        BY <1>2, <1>4, <1>5, <2>1
    <2>2. CASE p # Subject \/ q # Question
        <3>1. /\ tool.seen[p][q] # None => Before(Agenda, k, q, p)
              /\ Before(Agenda, k, q, p) => tool.seen[p][q] \in RpmFiles(p) /\ Passes(q, p, tool.seen[p])
            BY <1>1 DEF Answered
        <3>2. QED BY <1>2, <1>3, <2>2, <3>1
    <2>3. QED BY <2>1, <2>2
<1>7. \A p \in Packages, q \in Questions : PassesThen(q, p) <=> Passes(q, p, tool.seen[p])'
    BY DEF PassesThen, Passes, AnswerGiven
<1>8. QED BY <1>1, <1>6, <1>7 DEF Answered

\* What the re-hash says of one package.
Hashed(p) ==
    tool.swaps[p] <= 1 /\ tool.seen[p]["digest"] # None =>
        IF tool.seen[p]["again"] # None THEN Steady(p)
        ELSE \/ Steady(p) /\ rpms[p] = tool.seen[p]["digest"]
             \/ tool.swaps[p] = 1 /\ rpms[p] # tool.seen[p]["digest"]

\* The re-hash is as good as before, or better.
LEMMA RehashedStill ==
    ASSUME NEW k, NEW L, At(k, L), tool.name = "generate", Question \in InspectQuestions,
           rpms[Subject] \in RpmFiles(Subject), Accepts(Subject, rpms[Subject]), AnswerGiven(rpms[Subject])
    PROVE  Rehashed'
<1>1. /\ Answered(k) /\ \A p \in Packages : Hashed(p)
      /\ "digest" \in Questions /\ "again" \in Questions /\ Subject \in Packages /\ Question \in Questions
    BY GenerateAt, QuestionSets DEF At, GateInv, Rehashed, Hashed, Questions
<1>a. PICK S \in Packages : S = Subject
    BY <1>1
<1>b. PICK Q \in Questions : Q = Question
    BY <1>1
<1>c. PICK f : f = rpms[S]
    OBVIOUS
<1>2. S = Subject /\ f = rpms[S] /\ f \in RpmFiles(S) /\ Q = Question
    BY <1>a, <1>b, <1>c
<1>3. /\ tool.seen[S]["again"] = None
      /\ Q = "digest" => \A r \in Questions \ {"file"} : tool.seen[S][r] = None
    BY <1>1, <1>2, GenerateAt DEF Answered
<1>4. f # None
    BY <1>2, PackageConstants
<1>5. /\ tool'.seen[S][Q] = f /\ rpms' = rpms /\ tool'.swaps = tool.swaps
      /\ \A q \in Questions \ {Q} : tool'.seen[S][q] = tool.seen[S][q]
      /\ \A p \in Packages \ {S}, q \in Questions : tool'.seen[p][q] = tool.seen[p][q]
    BY <1>2 DEF AnswerGiven
<1>6. ASSUME NEW p \in Packages \ {S} PROVE Hashed(p)'
    <2>1. /\ tool'.seen[p]["digest"] = tool.seen[p]["digest"]
          /\ tool'.seen[p]["again"] = tool.seen[p]["again"]
        BY <1>1, <1>5
    <2>2. Steady(p)' <=> Steady(p)
        BY <1>1, <1>5, <2>1 DEF Steady
    <2>3. Hashed(p) /\ rpms' = rpms /\ tool'.swaps = tool.swaps
        BY <1>1, <1>5
    <2>4. QED BY <2>1, <2>2, <2>3 DEF Hashed
<1>7. Hashed(S)'
    <2>1. Hashed(S) /\ rpms'[S] = f /\ tool'.swaps[S] = tool.swaps[S]
        BY <1>1, <1>2, <1>5
    <2>2. CASE Q = "file"
        <3>1. /\ tool'.seen[S]["digest"] = tool.seen[S]["digest"]
              /\ tool'.seen[S]["again"] = tool.seen[S]["again"]
            BY <1>1, <1>5, <2>2
        <3>2. Steady(S)' <=> Steady(S)
            BY <1>1, <1>5, <2>2, <3>1 DEF Steady
        <3>3. QED BY <1>2, <2>1, <3>1, <3>2 DEF Hashed
    <2>3. CASE Q = "digest"
        <3>1. tool'.seen[S]["digest"] = f /\ tool'.seen[S]["again"] = None
            BY <1>1, <1>3, <1>5, <2>3
        <3>2. Steady(S)'
            BY <1>3, <1>5, <2>3, <3>1 DEF Steady
        <3>3. QED BY <2>1, <3>1, <3>2 DEF Hashed
    <2>4. CASE Q = "again"
        <3>1. Inspects("again", f, tool.seen[S])
            BY <1>2, <2>4 DEF Accepts
        <3>2. f = tool.seen[S]["digest"]
            BY <3>1 DEF Inspects, Unchanged
        <3>3. tool'.seen[S]["digest"] = f /\ tool'.seen[S]["again"] = f
            BY <1>1, <1>5, <2>4, <3>2
        <3>4. tool.swaps[S] <= 1 => Steady(S)
            BY <1>2, <1>3, <1>4, <2>1, <3>2 DEF Hashed
        <3>5. Steady(S) => Steady(S)'
            BY <1>1, <1>5, <2>4, <3>2, <3>3 DEF Steady
        <3>6. QED BY <1>4, <2>1, <3>3, <3>4, <3>5 DEF Hashed
    <2>5. CASE Q \notin {"file", "digest", "again"}
        <3>1. /\ tool'.seen[S]["digest"] = tool.seen[S]["digest"]
              /\ tool'.seen[S]["again"] = None
            BY <1>1, <1>3, <1>5, <2>5
        <3>2. f = tool.seen[S]["digest"] => (Steady(S) => Steady(S)')
            BY <1>1, <1>5, <3>1 DEF Steady
        <3>3. QED BY <1>2, <1>3, <2>1, <3>1, <3>2 DEF Hashed
    <2>6. QED BY <2>2, <2>3, <2>4, <2>5
<1>8. \A p \in Packages : Hashed(p)'
    BY <1>6, <1>7
<1>9. QED BY <1>8 DEF Rehashed, Hashed

\* With the answer the gate is as it may be at its next place.
LEMMA AnswerGoesOn ==
    ASSUME NEW k, NEW L, At(k, L), tool.name \in Gates, Question \in Questions, Subject \in Packages,
           rpms[Subject] \in RpmFiles(Subject), Accepts(Subject, rpms[Subject]), AnswerGiven(rpms[Subject])
    PROVE  GateInv(k + 1)'
<1>1. /\ GateInv(k) /\ k \in Nat \ {0} /\ Agenda[k] = <<Question, Subject>> /\ Agenda' = Agenda
    BY DEF At, AnswerGiven, Agenda
<1>2. /\ \A r, s : Before(Agenda, k + 1, r, s) <=> Before(Agenda, k, r, s) \/ (r = Question /\ s = Subject)
      /\ \A r : After(Agenda, k + 1, r) <=> After(Agenda, k, r) \/ r = Question
    BY <1>1, OneMore
<1>3. Answered(k + 1)'
    BY AnswerIsKept
<1>4. tool'.seen \in Known /\ tool'.swaps \in [Packages -> Nat] /\ tool'.name = tool.name
    BY <1>1 DEF GateInv, AnswerGiven
<1>5. Undisturbed'
    <2>1. Undisturbed
        BY <1>1 DEF GateInv
    <2>2. QED BY <2>1 DEF Undisturbed, AnswerGiven
<1>6. ASSUME tool.name = "generate" PROVE Rehashed' /\ Drafted(k + 1)'
    <2>1. Question \in InspectQuestions /\ ~After(Agenda, k, "set")
        <3>1. "set" \notin Questions /\ "publish" \notin Questions /\ "sync" \notin Questions
              /\ "output" \notin Questions /\ "lock" \notin Questions /\ "lockDigest" \notin Questions
              /\ "entries" \notin Questions
            BY DEF Questions
        <3>2. QED BY <1>6, <3>1, GenerateAt
    <2>2. Question \notin {"lock", "lockDigest", "set"}
        BY <2>1 DEF InspectQuestions
    <2>3. Drafted(k)
        BY <1>1, <1>6 DEF GateInv
    <2>4. Drafted(k + 1)'
        BY <1>1, <1>2, <2>1, <2>2, <2>3 DEF Drafted, AnswerGiven
    <2>5. QED BY <1>6, <2>1, <2>4, RehashedStill
<1>7. ASSUME tool.name = "family" PROVE Compared(k + 1)'
    <2>1. Question \notin {"payload", "elf", "set"}
        BY DEF Questions
    <2>2. ~After(Agenda, k, "set") /\ ~After(Agenda, k, "payload") /\ ~After(Agenda, k, "elf")
        BY <1>7, <2>1, FamilyAt
    <2>3. \A s : ~Before(Agenda, k, "payload", s) /\ ~Before(Agenda, k, "elf", s)
        <3>1. ASSUME NEW r, NEW s, Before(Agenda, k, r, s) PROVE After(Agenda, k, r)
            <4>1. PICK j \in 1 .. k - 1 : Agenda[j] = <<r, s>>
                BY <3>1 DEF Before
            <4>2. Agenda[j][1] = r
                BY <4>1
            <4>3. QED BY <4>2 DEF After
        <3>2. QED BY <2>2, <3>1
    <2>4. QED BY <1>1, <1>2, <2>1, <2>2, <2>3 DEF Compared
<1>8. QED BY <1>3, <1>4, <1>5, <1>6, <1>7 DEF GateInv

-----------------------------------------------------------------------------
(* Verdicts.                                                               *)

\* What a gate is there to find is not there.
PairFine == \A p \in {Driver, Blob} : rpms[p] # None /\ rpms[p].flaw \notin FoundByPair(p)
FamilyFine ==
    \A p \in Family1 : rpms[p] # None /\ rpms[p].flaw \notin FoundByFamily(p) /\ extracted[p] = rpms[p]
GenerateFine == \A p \in Packages : rpms[p] # None /\ rpms[p].flaw \notin FoundByGenerator(p)

\* When a gate gives its verdict, what it is about stays as it was.
Decided(outcome) ==
    /\ tool'.name = tool.name /\ tool'.to = tool.to /\ tool'.outcome = outcome /\ tool'.quiet = tool.quiet
    /\ rpms' = rpms /\ extracted' = extracted /\ lock' = lock /\ shelf' = shelf

\* An undisturbed gate is right to refuse.
LEMMA RightToRefuse ==
    ASSUME Decided("refused"), tool.name \in Gates,
           tool.quiet => /\ tool.name = "pair" => ~PairFine
                         /\ tool.name = "family" => ~FamilyFine
                         /\ tool.name = "generate" => ~GenerateFine \/ lock = None \/ shelf[tool.to] # None
    PROVE  GatesAreExact' /\ ValidatorIsExact'
<1>1. CASE tool.name = "pair"
    BY <1>1 DEF Decided, GatesAreExact, ValidatorIsExact, PairFine
<1>2. CASE tool.name = "family"
    BY <1>2 DEF Decided, GatesAreExact, ValidatorIsExact, FamilyFine, Family1
<1>3. CASE tool.name = "generate"
    BY <1>3 DEF Decided, GatesAreExact, ValidatorIsExact, GenerateFine
<1>4. QED BY <1>1, <1>2, <1>3 DEF Gates

\* And right to accept.
LEMMA RightToAccept ==
    ASSUME Decided("accepted"), tool.name \in Gates,
           tool.quiet => /\ tool.name = "pair" => PairFine
                         /\ tool.name = "family" => FamilyFine
                         /\ tool.name = "generate" => GenerateFine
    PROVE  GatesAreExact' /\ ValidatorIsExact'
<1>1. CASE tool.name = "pair"
    BY <1>1 DEF Decided, GatesAreExact, ValidatorIsExact, PairFine
<1>2. CASE tool.name = "family"
    BY <1>2 DEF Decided, GatesAreExact, ValidatorIsExact, FamilyFine, Family1
<1>3. CASE tool.name = "generate"
    BY <1>3 DEF Decided, GatesAreExact, ValidatorIsExact, GenerateFine
<1>4. QED BY <1>1, <1>2, <1>3 DEF Gates

\* Where the validator is in its listing.
LEMMA ListedFacts ==
    ASSUME NEW n \in Nat, NEW at
    PROVE  /\ Len(Listed(at, n)) = n + 1
           /\ \A j \in 1 .. n : Listed(at, n)[j] = <<"profile", Shelf[at[j]]>>
           /\ Listed(at, n)[n + 1] = <<"verdict", None>>
<1> DEFINE A == [i \in 1 .. n |-> <<"profile", Shelf[at[i]]>>]
           B == << <<"verdict", None>> >>
           S == {A[i] : i \in 1 .. n} \cup {<<"verdict", None>>}
<1>1. A \in Seq(S) /\ Len(A) = n /\ \A i \in 1 .. n : A[i] = <<"profile", Shelf[at[i]]>>
    OBVIOUS
<1>2. B \in Seq(S) /\ Len(B) = 1 /\ B[1] = <<"verdict", None>>
    OBVIOUS
<1>3. Listed(at, n) = A \o B
    BY DEF Listed
<1> HIDE DEF A, B, S
<1>4. Len(A \o B) = n + 1 /\ (\A j \in 1 .. n : (A \o B)[j] = A[j]) /\ (A \o B)[n + 1] = B[1]
    <2>1. /\ Len(A \o B) = n + 1
          /\ \A j \in 1 .. n + 1 : (A \o B)[j] = IF j <= n THEN A[j] ELSE B[j - n]
        <3>1. A \in Seq(S) /\ B \in Seq(S) /\ Len(A) = n /\ Len(B) = 1
            BY <1>1, <1>2
        <3>2. /\ Len(A \o B) = Len(A) + Len(B)
              /\ \A j \in 1 .. Len(A) + Len(B) :
                    (A \o B)[j] = IF j <= Len(A) THEN A[j] ELSE B[j - Len(A)]
            BY <3>1, ConcatProperties
        <3>3. QED BY <3>1, <3>2
    <2>2. n + 1 \in 1 .. n + 1 /\ ~(n + 1 <= n) /\ (n + 1) - n = 1
        OBVIOUS
    <2>3. \A j \in 1 .. n : j \in 1 .. n + 1 /\ j <= n
        OBVIOUS
    <2>4. QED BY <2>1, <2>2, <2>3
<1>5. QED BY <1>1, <1>2, <1>3, <1>4

\* The question says which tool asks it.
LEMMA WhoAsks ==
    ASSUME ToolInv, Running
    PROVE  /\ tool.name \in Gates \cup {"retarget", "validate"}
           /\ Question \in Questions \cup {"payload", "elf", "set"} => tool.name \in Gates
           /\ Question \in {"output", "lock", "lockDigest", "entries", "publish"} => tool.name = "generate"
           /\ Question \in {"read", "create", "write"} => tool.name = "retarget"
           /\ Question = "sync" => tool.name \in {"generate", "retarget"}
           /\ Question \in {"list", "profile", "verdict"} => tool.name = "validate"
<1> DEFINE Own == /\ Question \in Questions \cup {"payload", "elf", "set"} => tool.name \in Gates
                  /\ Question \in {"output", "lock", "lockDigest", "entries", "publish"} => tool.name = "generate"
                  /\ Question \in {"read", "create", "write"} => tool.name = "retarget"
                  /\ Question = "sync" => tool.name \in {"generate", "retarget"}
                  /\ Question \in {"list", "profile", "verdict"} => tool.name = "validate"
<1>1. tool.name \in Gates \cup {"retarget", "validate"}
    BY DEF ToolInv, Gates
<1>2. CASE tool.name \in Gates
    <2>1. PICK k, L \in Nat : At(k, L)
        BY <1>2, GateIsAt
    <2>2. CASE tool.name = "generate"
        BY <1>2, <2>1, <2>2, GenerateAt DEF InspectQuestions, Questions
    <2>3. CASE tool.name = "pair"
        BY <1>2, <2>1, <2>3, PairAt DEF Questions
    <2>4. CASE tool.name = "family"
        BY <1>2, <2>1, <2>4, FamilyAt DEF FamilyQuestions, Questions
    <2>5. QED BY <1>1, <1>2, <2>2, <2>3, <2>4 DEF Gates
<1>3. CASE tool.name = "retarget"
    <2>1. Head(tool.todo)[1] \in {"read", "create", "write", "sync"}
        BY <1>3 DEF ToolInv, RetargetInv
    <2>2. QED BY <1>3, <2>1 DEF Question, Questions
<1>4. CASE tool.name = "validate"
    <2>1. Head(tool.todo)[1] \in {"list", "profile", "verdict"}
        <3>1. CASE tool.todo = << <<"list", None>>, <<"verdict", None>> >>
            BY <3>1
        <3>2. ASSUME NEW n \in Nat, NEW at, NEW k \in 1 .. n + 1, tool.todo = Rest(Listed(at, n), k)
              PROVE  Head(tool.todo)[1] \in {"list", "profile", "verdict"}
            <4>1. Listed(at, n)[k] \in {<<"profile", Shelf[at[k]]>>, <<"verdict", None>>}
                  /\ k \in 1 .. Len(Listed(at, n)) /\ Len(Listed(at, n)) \in Nat
                <5>1. k \in 1 .. n \/ k = n + 1
                    OBVIOUS
                <5>2. Len(Listed(at, n)) = n + 1
                    BY ListedFacts
                <5>3. k \in 1 .. n => Listed(at, n)[k] = <<"profile", Shelf[at[k]]>>
                    BY ListedFacts
                <5>4. k = n + 1 => Listed(at, n)[k] = <<"verdict", None>>
                    BY ListedFacts
                <5>5. k \in 1 .. n + 1 /\ n + 1 \in Nat
                    OBVIOUS
                <5>6. QED BY <5>1, <5>2, <5>3, <5>4, <5>5
            <4>2. Head(tool.todo) = Listed(at, n)[k]
                BY <3>2, <4>1, RestMoves
            <4>3. QED BY <4>1, <4>2
        <3>3. Len(Shelf) \in Nat
            BY CandidateConstants
        <3>4. QED BY <1>4, <3>1, <3>2, <3>3 DEF ToolInv, ValidateInv
    <2>2. QED BY <1>4, <2>1 DEF Question, Questions
<1>5. QED BY <1>1, <1>2, <1>3, <1>4

-----------------------------------------------------------------------------
(* Looking at a file.                                                      *)

\* An undisturbed gate's answers are of the files that are there.
LEMMA QuietAnswer ==
    ASSUME NEW k, NEW L, At(k, L), tool.quiet,
           NEW p \in Packages, NEW q \in Questions, Before(Agenda, k, q, p)
    PROVE  /\ tool.seen[p][q] = rpms[p] /\ rpms[p] \in RpmFiles(p) /\ rpms[p] # None
           /\ Passes(q, p, tool.seen[p])
<1>1. Answered(k) /\ Undisturbed
    BY DEF At, GateInv
<1>2. tool.seen[p][q] \in RpmFiles(p) /\ Passes(q, p, tool.seen[p])
    BY <1>1 DEF Answered
<1>3. tool.seen[p][q] # None
    BY <1>2, PackageConstants
<1>4. QED BY <1>1, <1>2, <1>3 DEF Undisturbed

\* Families of packages.
LEMMA Families ==
    /\ {Driver, Blob} \subseteq Packages /\ Family1 \subseteq Packages /\ {Meta, Tools} \subseteq Packages
    /\ Runtime \in Family1 /\ Family1 = {Family[i] : i \in DOMAIN Family}
<1>1. PICK F \in Nat \ {0} : F = Len(Family)
    BY Packaged
<1>2. DOMAIN Directory = 1 .. F + 4 /\ DOMAIN Family = 1 .. F
    BY <1>1, Packaged
<1>3. Directory[1] \in Packages /\ Directory[2] \in Packages /\ Directory[3] \in Packages
      /\ Directory[4] \in Packages
    BY <1>2 DEF Packages
<1>4. \A i \in 1 .. F : Directory[i + 4] \in Packages
    BY <1>2 DEF Packages
<1>5. Family1 = {Family[i] : i \in DOMAIN Family} /\ Runtime \in Family1
    BY Packaged DEF Family1
<1>6. Family1 \subseteq Packages
    BY <1>2, <1>4, <1>5, Packaged
<1>7. QED BY <1>3, <1>5, <1>6, Packaged

\* What the generator refuses it is there to find.
LEMMA InspectionRefused ==
    ASSUME NEW k, NEW L, At(k, L), tool.name = "generate", Question \in InspectQuestions, tool.quiet,
           rpms[Subject] = None \/ ~Accepts(Subject, rpms[Subject])
    PROVE  ~GenerateFine
<1>1. /\ Subject \in Packages
      /\ Question \in InspectQuestions \ {"file", "digest"} => Before(Agenda, k, "digest", Subject)
    BY GenerateAt
<1>2. CASE rpms[Subject] = None
    BY <1>1, <1>2 DEF GenerateFine
<1>3. CASE ~Accepts(Subject, rpms[Subject])
    <2>1. ~Inspects(Question, rpms[Subject], tool.seen[Subject])
        BY <1>3 DEF Accepts
    <2>2. CASE Question = "again"
        <3>1. rpms[Subject] # tool.seen[Subject]["digest"]
            BY <2>1, <2>2 DEF Inspects, Unchanged
        <3>2. Before(Agenda, k, "digest", Subject) /\ "digest" \in Questions
            BY <1>1, <2>2 DEF Questions
        <3>3. QED BY <1>1, <3>1, <3>2, QuietAnswer
    <2>3. CASE Question # "again"
        <3>1. rpms[Subject].flaw \in {"irregular", "identity", "licenceTag", "scripts", "shortCircuit",
                                      "unsafePath", "owns", "source"}
            BY <2>1, <2>3 DEF Inspects, Expected, ReviewedLicence, FullBuild, SafeFiles
        <3>2. QED BY <1>1, <3>1 DEF GenerateFine, FoundByGenerator
    <2>4. QED BY <2>2, <2>3
<1>4. QED BY <1>2, <1>3

\* What the pair's gate refuses it is there to find.
LEMMA PairRefused ==
    ASSUME NEW k, NEW L, At(k, L), tool.name = "pair",
           rpms[Subject] = None \/ ~Accepts(Subject, rpms[Subject])
    PROVE  ~PairFine
<1>1. Subject \in {Driver, Blob}
      /\ Question \in {"file", "identity", "requirements", "provides", "scripts", "files"}
    BY PairAt
<1>2. CASE rpms[Subject] = None
    BY <1>1, <1>2 DEF PairFine
<1>3. CASE ~Accepts(Subject, rpms[Subject])
    <2>1. ~PairAccepts(Question, Subject, rpms[Subject])
        BY <1>3 DEF Accepts
    <2>2. rpms[Subject].flaw \in FoundByPair(Subject)
        <3>1. CASE Question # "files"
            BY <1>1, <2>1, <3>1 DEF PairAccepts, RegularRpm, Identified, ExactRelation, Scriptless, FoundByPair
        <3>2. CASE Question = "files" /\ Subject = Driver
            BY <2>1, <3>2 DEF PairAccepts, DriverFiles, FirmwareFiles, FoundByPair
        <3>3. CASE Question = "files" /\ Subject = Blob
            <4>1. Blob # Driver
                BY PackagesDiffer
            <4>2. QED BY <2>1, <3>3, <4>1 DEF PairAccepts, DriverFiles, FirmwareFiles, FoundByPair
        <3>4. QED BY <1>1, <3>1, <3>2, <3>3
    <2>3. QED BY <1>1, <2>2 DEF PairFine
<1>4. QED BY <1>2, <1>3

\* What OpenVINO's gate refuses it is there to find, or the payload is another than the RPM's.
LEMMA FamilyRefused ==
    ASSUME NEW k, NEW L, At(k, L), tool.name = "family", tool.quiet,
           Question \in Questions \cup {"payload", "elf"},
           NEW f, f = IF Question \in {"payload", "elf"} THEN extracted[Subject] ELSE rpms[Subject],
           f = None \/ ~Accepts(Subject, f)
    PROVE  ~FamilyFine
<1>1. Subject \in Family1 /\ Question \in FamilyQuestions \cup {"payload", "elf"}
    BY FamilyAt DEF Questions
<1>2. CASE f = None
    BY <1>1, <1>2 DEF FamilyFine
<1>3. CASE ~Accepts(Subject, f)
    <2>1. ~FamilyAccepts(Question, Subject, f, tool.seen)
        BY <1>3 DEF Accepts
    <2>2. CASE Question \in FamilyQuestions
        <3>1. f = rpms[Subject] /\ f.flaw \in {"irregular", "scripts"}
            BY <2>1, <2>2 DEF FamilyAccepts, FamilyQuestions, RegularRpm, Scriptless
        <3>2. QED BY <1>1, <3>1 DEF FamilyFine, FoundByFamily
    <2>3. CASE Question = "payload"
        <3>1. Before(Agenda, k, "files", Subject) /\ "files" \in Questions /\ Subject \in Packages
            BY <1>1, <2>3, FamilyAt, Families DEF FamilyQuestions, Questions
        <3>2. tool.seen[Subject]["files"] = rpms[Subject]
            BY <3>1, QuietAnswer
        <3>3. f = extracted[Subject] /\ ~PayloadIsOfRpm(f, rpms[Subject])
            BY <2>1, <2>3, <3>2 DEF FamilyAccepts
        <3>4. QED BY <1>1, <3>3 DEF PayloadIsOfRpm, FamilyFine, FoundByFamily
    <2>4. CASE Question = "elf"
        <3>1. f = extracted[Subject] /\ f.flaw \in {"elf", "soname", "closure"}
            BY <2>1, <2>4 DEF FamilyAccepts, GoodElf
        <3>2. QED BY <1>1, <3>1 DEF FamilyFine, FoundByFamily
    <2>5. QED BY <1>1, <2>2, <2>3, <2>4
<1>4. QED BY <1>2, <1>3

\* What the pair's gate accepts in the end has nothing that it is there to find.
LEMMA PairAccepted ==
    ASSUME NEW k, NEW L, At(k, L), tool.name = "pair", k = L, tool.quiet,
           rpms[Subject] \in RpmFiles(Subject), Accepts(Subject, rpms[Subject])
    PROVE  PairFine
<1>1. /\ k \in Nat \ {0} /\ Agenda[k] = <<Question, Subject>>
      /\ Question \in Questions /\ Subject \in {Driver, Blob}
    BY PairAt DEF At, Questions
<1>2. ASSUME NEW p \in {Driver, Blob}, NEW q \in Questions, Before(Agenda, k + 1, q, p)
      PROVE  rpms[p] # None /\ PairAccepts(q, p, rpms[p])
    <2>1. Before(Agenda, k, q, p) \/ (q = Question /\ p = Subject)
        BY <1>1, <1>2, OneMore
    <2>2. CASE Before(Agenda, k, q, p)
        BY <2>2, QuietAnswer, Families DEF Passes
    <2>3. CASE q = Question /\ p = Subject
        <3>1. rpms[Subject] # None
            BY <1>1, Families, PackageConstants
        <3>2. QED BY <2>3, <3>1 DEF Accepts
    <2>4. QED BY <2>1, <2>2, <2>3
<1>3. {"file", "identity", "requirements", "provides", "scripts", "files"} \subseteq Questions
    BY DEF Questions
<1>4. ASSUME NEW r \in {"file", "identity", "requirements", "scripts", "files"}
      PROVE  rpms[Driver] # None /\ PairAccepts(r, Driver, rpms[Driver])
    BY <1>2, <1>3, PairAt
<1>5. ASSUME NEW r \in {"file", "identity", "provides", "scripts", "files"}
      PROVE  rpms[Blob] # None /\ PairAccepts(r, Blob, rpms[Blob])
    BY <1>2, <1>3, PairAt
<1>6. rpms[Driver] # None /\ rpms[Driver].flaw \notin FoundByPair(Driver)
    <2>1. /\ rpms[Driver].flaw \notin {"irregular", "identity", "relation", "provide", "scripts"}
          /\ rpms[Driver].flaw \notin {"stray", "overlap", "payload", "licence"}
        BY <1>4 DEF PairAccepts, RegularRpm, Identified, ExactRelation, Scriptless, DriverFiles
    <2>2. Driver # Blob
        BY PackagesDiffer
    <2>3. QED BY <1>4, <2>1, <2>2 DEF FoundByPair
<1>7. rpms[Blob] # None /\ rpms[Blob].flaw \notin FoundByPair(Blob)
    <2>1. Driver # Blob
        BY PackagesDiffer
    <2>2. /\ rpms[Blob].flaw \notin {"irregular", "identity", "relation", "provide", "scripts"}
          /\ rpms[Blob].flaw \notin {"stray", "unsafePath", "overlap", "payload", "licence", "mode"}
        BY <1>5, <2>1 DEF PairAccepts, RegularRpm, Identified, ExactRelation, Scriptless, FirmwareFiles
    <2>3. QED BY <1>5, <2>2 DEF FoundByPair
<1>8. QED BY <1>6, <1>7 DEF PairFine

\* What OpenVINO's gate accepts in the end has nothing that it is there to find.
LEMMA FamilyAccepted ==
    ASSUME NEW k, NEW L, At(k, L), tool.name = "family", k = L, tool.quiet,
           Accepts(Subject, extracted[Subject])
    PROVE  FamilyFine
<1>1. /\ k \in Nat \ {0} /\ Agenda[k] = <<"elf", Subject>> /\ Question = "elf" /\ Subject \in Family1
      /\ \A s \in Family1 : Before(Agenda, k + 1, "elf", s) /\ Before(Agenda, k, "payload", s)
      /\ \A s \in Family1, r \in FamilyQuestions : Before(Agenda, k, r, s)
      /\ After(Agenda, k, "set")
    BY FamilyAt DEF At
<1>2. Compared(k)
    BY DEF At, GateInv
<1>3. ASSUME NEW p \in Family1
      PROVE  extracted[p] = rpms[p] /\ rpms[p].flaw # "payload" /\ GoodElf(rpms[p])
    <2>1. extracted[p] = rpms[p] /\ rpms[p].flaw # "payload"
        BY <1>1, <1>2 DEF Compared
    <2>2. Before(Agenda, k, "elf", p) \/ p = Subject
        BY <1>1, OneMore
    <2>3. GoodElf(extracted[Subject])
        BY <1>1 DEF Accepts, FamilyAccepts
    <2>4. QED BY <1>2, <2>1, <2>2, <2>3 DEF Compared
<1>4. ASSUME NEW p \in Family1, NEW r \in FamilyQuestions
      PROVE  tool.seen[p][r] = rpms[p] /\ rpms[p] # None /\ Passes(r, p, tool.seen[p])
    BY <1>1, QuietAnswer, QuestionSets, Families
<1>5. FamilySet(tool.seen)
    BY <1>1, <1>2 DEF Compared
<1>6. ASSUME NEW p \in Family1
      PROVE  /\ tool.seen[p]["identity"].flaw # "identity"
             /\ tool.seen[p]["requirements"].flaw # "relation"
             /\ tool.seen[p]["files"].flaw \notin {"unsafePath", "overlap"}
    <2>1. PICK i \in DOMAIN Family : p = Family[i]
        BY Families
    <2>2. QED BY <1>5, <2>1 DEF FamilySet, FamilyRelations, FamilyOwnership, Identified, Requires
<1>7. tool.seen[Runtime]["files"].flaw # "licence"
    BY <1>5 DEF FamilySet, FamilyOwnership, OwnsLicence
<1>8. {"file", "identity", "requirements", "files", "scripts"} = FamilyQuestions
    BY DEF FamilyQuestions
<1>9. ASSUME NEW p \in Family1
      PROVE  rpms[p] # None /\ rpms[p].flaw \notin FoundByFamily(p) /\ extracted[p] = rpms[p]
    <2>1. rpms[p] # None /\ rpms[p].flaw \notin {"identity", "relation", "unsafePath", "overlap"}
        BY <1>4, <1>6, <1>8
    <2>2. rpms[p].flaw \notin {"irregular", "scripts"}
        <3>1. Passes("file", p, tool.seen[p]) /\ Passes("scripts", p, tool.seen[p])
              /\ tool.seen[p]["file"] = rpms[p] /\ tool.seen[p]["scripts"] = rpms[p]
            BY <1>4, <1>8
        <3>2. QED BY <3>1 DEF Passes, RegularRpm, Scriptless
    <2>3. p = Runtime => rpms[p].flaw # "licence"
        BY <1>4, <1>7, <1>8
    <2>4. QED BY <1>3, <2>1, <2>2, <2>3 DEF FoundByFamily, GoodElf
<1>10. QED BY <1>9 DEF FamilyFine

\* The set has been compared with its payload further.
LEMMA PayloadGoesOn ==
    ASSUME ToolInv, NEW k, NEW L, At(k, L), tool.name = "family", Question \in {"payload", "elf"},
           NEW f, f = extracted[Subject], f # None, Accepts(Subject, f),
           tool' = [tool EXCEPT !.todo = Tail(@)], rpms' = rpms, extracted' = extracted
    PROVE  GateInv(k + 1)'
<1>1. /\ GateInv(k) /\ k \in Nat \ {0} /\ Agenda[k] = <<Question, Subject>> /\ IsTool(tool)
    BY DEF At, ToolInv
<1>2. \A x \in Fields \ {"todo"} : tool'[x] = tool[x]
    BY <1>1, GoesOn
<1>3. /\ tool'.name = tool.name /\ tool'.quiet = tool.quiet /\ tool'.seen = tool.seen
      /\ tool'.swaps = tool.swaps /\ tool'.to = tool.to
    BY <1>2 DEF Fields
<1>4. Agenda' = Agenda
    BY <1>3 DEF Agenda
<1>5. /\ \A r, s : Before(Agenda, k + 1, r, s) <=> Before(Agenda, k, r, s) \/ (r = Question /\ s = Subject)
      /\ \A r : After(Agenda, k + 1, r) <=> After(Agenda, k, r) \/ r = Question
    BY <1>1, OneMore
<1>6. Question \notin Questions
    BY DEF Questions
<1>7. \A q, p : Passes(q, p, tool.seen[p])' <=> Passes(q, p, tool.seen[p])
    BY <1>3 DEF Passes
<1>8. Answered(k + 1)'
    BY <1>1, <1>3, <1>4, <1>5, <1>6, <1>7 DEF GateInv, Answered
<1>9. Undisturbed'
    BY <1>1, <1>3 DEF GateInv, Undisturbed
<1>10. Compared(k)
    BY <1>1 DEF GateInv
<1>11. /\ Subject \in Family1 /\ Before(Agenda, k, "files", Subject)
       /\ Subject \in Packages /\ "files" \in Questions
    BY FamilyAt, Families DEF FamilyQuestions, Questions
<1>12. FamilyAccepts(Question, Subject, f, tool.seen)
    BY DEF Accepts
<1>13. Question = "elf" => GoodElf(f)
    BY <1>12 DEF FamilyAccepts
<1>14. Question = "payload" /\ tool.quiet => f = rpms[Subject] /\ rpms[Subject].flaw # "payload"
    <2>1. tool.quiet => tool.seen[Subject]["files"] = rpms[Subject]
        BY <1>11, QuietAnswer
    <2>2. QED BY <1>12, <2>1 DEF FamilyAccepts, PayloadIsOfRpm
<1>15. Compared(k + 1)'
    <2>1. Question # "set"
        OBVIOUS
    <2>2. ASSUME NEW p \in Family1, tool.quiet
          PROVE  /\ Before(Agenda, k + 1, "payload", p) => extracted[p] = rpms[p] /\ rpms[p].flaw # "payload"
                 /\ Before(Agenda, k + 1, "elf", p) => GoodElf(extracted[p])
        <3>1. CASE p = Subject
            BY <1>5, <1>10, <1>13, <1>14, <2>2, <3>1 DEF Compared
        <3>2. CASE p # Subject
            BY <1>5, <1>10, <2>2, <3>2 DEF Compared
        <3>3. QED BY <3>1, <3>2
    <2>3. QED BY <1>3, <1>4, <1>5, <1>10, <2>1, <2>2 DEF Compared
<1>16. QED BY <1>1, <1>3, <1>8, <1>9, <1>15 DEF GateInv

\* A look keeps the invariant.
LEMMA LookStep ==
    ASSUME WorldInv, ToolInv, Look
    PROVE  CandidateInv'
<1>1. /\ Running /\ Question \in Questions \cup {"payload", "elf"} /\ ToolOnly
      /\ UNCHANGED <<rpms, extracted, lock, shelf>>
    BY DEF Look, ToolOnly, world
<1>2. tool.name \in Gates /\ IsDirectory(rpms) /\ IsRoot(extracted) /\ IsTool(tool)
      /\ tool.quiet \in BOOLEAN /\ tool.outcome = "none"
    BY <1>1, WhoAsks DEF ToolInv
<1>3. PICK k, L \in Nat : At(k, L)
    BY <1>1, <1>2, GateIsAt
<1>4. WorldInv'
    BY <1>1, WorldStays DEF ToolOnly
<1>5. /\ Subject \in Packages
      /\ Question \in {"payload", "elf"} => tool.name = "family" /\ Subject \in Family1
      /\ tool.name = "generate" => Question \in InspectQuestions
    <2>1. CASE tool.name = "generate"
        BY <1>1, <1>3, <2>1, GenerateAt DEF Questions, InspectQuestions
    <2>2. CASE tool.name = "pair"
        BY <1>1, <1>3, <2>2, PairAt, Families
    <2>3. CASE tool.name = "family"
        BY <1>1, <1>3, <2>3, FamilyAt, Families
    <2>4. QED BY <1>2, <2>1, <2>2, <2>3 DEF Gates
<1>6. PICK f : f = IF Question \in {"payload", "elf"} THEN extracted[Subject] ELSE rpms[Subject]
    OBVIOUS
<1>7. /\ Question \in Questions => Question \notin {"payload", "elf"}
      /\ f \in {None} \cup RpmFiles(Subject)
    <2>1. Question \in Questions => Question \notin {"payload", "elf"}
        BY DEF Questions
    <2>2. QED BY <1>1, <1>2, <1>5, <1>6, <2>1 DEF IsDirectory, IsRoot
<1>8. CASE (f = None \/ ~Accepts(Subject, f)) /\ Refuses
    <2>1. Decided("refused") /\ ToolInv'
        <3>1. tool' = [NoTool EXCEPT !.name = tool.name, !.to = tool.to, !.outcome = "refused",
                                     !.quiet = tool.quiet]
            BY <1>8 DEF Refuses, Ends
        <3>2. /\ ToolInv' /\ tool'.name = tool.name /\ tool'.to = tool.to
              /\ tool'.outcome = "refused" /\ tool'.quiet = tool.quiet
            BY <1>2, <3>1, ToolEnds
        <3>3. QED BY <1>1, <3>2 DEF Decided
    <2>2. tool.name = "pair" => ~PairFine
        BY <1>1, <1>3, <1>5, <1>6, <1>8, PairRefused
    <2>3. tool.quiet /\ tool.name = "family" => ~FamilyFine
        BY <1>1, <1>3, <1>6, <1>8, FamilyRefused
    <2>4. tool.quiet /\ tool.name = "generate" => ~GenerateFine
        <3>1. tool.name = "generate" => f = rpms[Subject] /\ Question \in InspectQuestions
            BY <1>5, <1>6
        <3>2. QED BY <1>3, <1>8, <3>1, InspectionRefused
    <2>5. GatesAreExact' /\ ValidatorIsExact'
        BY <1>2, <2>1, <2>2, <2>3, <2>4, RightToRefuse
    <2>6. QED BY <1>4, <2>1, <2>5 DEF CandidateInv
<1>9. CASE f # None /\ Accepts(Subject, f) /\ Tail(tool.todo) = <<>> /\ Ends("accepted")
    <2>1. Decided("accepted") /\ ToolInv'
        <3>1. tool' = [NoTool EXCEPT !.name = tool.name, !.to = tool.to, !.outcome = "accepted",
                                     !.quiet = tool.quiet]
            BY <1>9 DEF Ends
        <3>2. /\ ToolInv' /\ tool'.name = tool.name /\ tool'.to = tool.to
              /\ tool'.outcome = "accepted" /\ tool'.quiet = tool.quiet
            BY <1>2, <3>1, ToolEnds
        <3>3. QED BY <1>1, <3>2 DEF Decided
    <2>2. k = L
        BY <1>3, <1>9 DEF At
    <2>3. tool.quiet /\ tool.name = "pair" => PairFine
        <3>1. tool.name = "pair" => f = rpms[Subject] /\ f \in RpmFiles(Subject)
            BY <1>5, <1>6, <1>7, <1>9
        <3>2. QED BY <1>3, <1>9, <2>2, <3>1, PairAccepted
    <2>4. tool.quiet /\ tool.name = "family" => FamilyFine
        <3>1. tool.name = "family" => f = extracted[Subject]
            BY <1>3, <1>6, <2>2, FamilyAt
        <3>2. QED BY <1>3, <1>9, <2>2, <3>1, FamilyAccepted
    <2>5. tool.name # "generate"
        <3>1. tool.name = "generate" => Question = "sync"
            BY <1>3, <2>2, GenerateAt
        <3>2. "sync" \notin InspectQuestions
            BY DEF InspectQuestions
        <3>3. QED BY <1>5, <3>1, <3>2
    <2>6. GatesAreExact' /\ ValidatorIsExact'
        BY <1>2, <2>1, <2>3, <2>4, <2>5, RightToAccept
    <2>7. QED BY <1>4, <2>1, <2>6 DEF CandidateInv
<1>10. CASE /\ f # None /\ Accepts(Subject, f) /\ Tail(tool.todo) # <<>> /\ Question \in Questions
            /\ Proceed([tool EXCEPT !.seen[Subject][Question] = f])
    <2>1. /\ f = rpms[Subject] /\ f \in RpmFiles(Subject) /\ f \in Answers
        BY <1>5, <1>6, <1>7, <1>10 DEF Answers
    <2>2. tool.seen \in Known
        BY <1>3 DEF At, GateInv
    <2>3. PICK t : t = [tool EXCEPT !.seen[Subject][Question] = f]
        OBVIOUS
    <2>4. /\ IsTool(t) /\ \A x \in Fields \ {"seen"} : t[x] = tool[x]
          /\ t.seen \in Known /\ t.seen[Subject][Question] = f
          /\ \A s \in Packages, r \in Questions : s # Subject \/ r # Question => t.seen[s][r] = tool.seen[s][r]
        <3>1. IsTool(tool) /\ Subject \in Packages /\ Question \in Questions /\ f \in Answers
            BY <1>2, <1>5, <1>10, <2>1
        <3>2. /\ t.seen = [tool.seen EXCEPT ![Subject][Question] = f] /\ IsTool(t)
              /\ \A x \in Fields \ {"seen"} : t[x] = tool[x]
            BY <2>3, <3>1 DEF IsTool, Fields
        <3>3. /\ t.seen \in Known /\ t.seen[Subject][Question] = f
              /\ \A s \in Packages, r \in Questions : s # Subject \/ r # Question => t.seen[s][r] = tool.seen[s][r]
            BY <2>2, <3>1, <3>2 DEF Known
        <3>4. QED BY <3>2, <3>3
    <2>5. tool' = [t EXCEPT !.todo = Tail(@)]
        BY <1>10, <2>3 DEF Proceed
    <2>6. /\ IsTool(tool') /\ tool'.todo = Tail(t.todo) /\ \A x \in Fields \ {"todo"} : tool'[x] = t[x]
        BY <2>4, <2>5, GoesOn
    <2>7. /\ tool'.todo = Tail(tool.todo) /\ tool'.seen = t.seen
          /\ tool'.name = tool.name /\ tool'.quiet = tool.quiet /\ tool'.to = tool.to
          /\ tool'.swaps = tool.swaps /\ tool'.from = tool.from /\ tool'.text = tool.text
          /\ tool'.sources = tool.sources /\ tool'.lock = tool.lock /\ tool'.outcome = tool.outcome
        BY <2>4, <2>6 DEF Fields
    <2>8. AnswerGiven(rpms[Subject])
        BY <1>1, <2>1, <2>4, <2>7 DEF AnswerGiven
    <2>9. GateInv(k + 1)'
        BY <1>2, <1>3, <1>5, <1>10, <2>1, <2>8, AnswerGoesOn
    <2>10. /\ k # L /\ IsDirectory(rpms)' /\ IsRoot(extracted)'
           /\ tool'.text = None \/ tool'.text \in Texts
        BY <1>1, <1>2, <1>3, <1>10, <2>7 DEF At, IsDirectory, IsRoot, ToolInv
    <2>11. ToolInv' /\ tool'.outcome = "none"
        BY <1>1, <1>2, <1>3, <2>6, <2>7, <2>9, <2>10, GateGoesOn
    <2>12. QED BY <1>4, <2>11, Unended DEF CandidateInv
<1>11. CASE /\ f # None /\ Accepts(Subject, f) /\ Tail(tool.todo) # <<>>
            /\ Question \in {"payload", "elf"} /\ Proceed(tool)
    <2>1. tool' = [tool EXCEPT !.todo = Tail(@)] /\ tool.name = "family" /\ f = extracted[Subject]
        BY <1>5, <1>6, <1>11 DEF Proceed
    <2>2. GateInv(k + 1)'
        BY <1>1, <1>3, <1>11, <2>1, PayloadGoesOn
    <2>3. /\ IsTool(tool') /\ tool'.todo = Tail(tool.todo) /\ \A x \in Fields \ {"todo"} : tool'[x] = tool[x]
        BY <1>2, <2>1, GoesOn
    <2>4. /\ tool'.name = tool.name /\ tool'.quiet = tool.quiet /\ tool'.to = tool.to
          /\ tool'.text = tool.text /\ tool'.outcome = tool.outcome
        BY <2>3 DEF Fields
    <2>5. /\ k # L /\ IsDirectory(rpms)' /\ IsRoot(extracted)'
          /\ tool'.text = None \/ tool'.text \in Texts
        BY <1>1, <1>2, <1>3, <1>11, <2>4 DEF At, IsDirectory, IsRoot, ToolInv
    <2>6. ToolInv' /\ tool'.outcome = "none"
        BY <1>1, <1>2, <1>3, <2>2, <2>3, <2>4, <2>5, GateGoesOn
    <2>7. QED BY <1>4, <2>6, Unended DEF CandidateInv
<1>12. QED BY <1>1, <1>6, <1>7, <1>8, <1>9, <1>10, <1>11 DEF Look

-----------------------------------------------------------------------------
(* The other steps of a gate.                                              *)

\* A gate that refuses keeps the invariant if it is right to refuse.
LEMMA GateRefuses ==
    ASSUME WorldInv, ToolInv, Running, tool.name \in Gates, Refuses, ToolOnly,
           tool.quiet => /\ tool.name = "pair" => ~PairFine
                         /\ tool.name = "family" => ~FamilyFine
                         /\ tool.name = "generate" => ~GenerateFine \/ lock = None \/ shelf[tool.to] # None
    PROVE  CandidateInv'
<1>1. UNCHANGED <<world, receipts, edits, runs>> /\ tool.quiet \in BOOLEAN
    BY DEF ToolOnly, ToolInv
<1>2. tool' = [NoTool EXCEPT !.name = tool.name, !.to = tool.to, !.outcome = "refused", !.quiet = tool.quiet]
    BY DEF Refuses, Ends
<1>3. /\ ToolInv' /\ tool'.name = tool.name /\ tool'.to = tool.to
      /\ tool'.outcome = "refused" /\ tool'.quiet = tool.quiet
    BY <1>1, <1>2, ToolEnds
<1>4. Decided("refused")
    BY <1>1, <1>3 DEF Decided, world
<1>5. GatesAreExact' /\ ValidatorIsExact'
    BY <1>4, RightToRefuse
<1>6. QED BY <1>1, <1>3, <1>5, WorldStays DEF CandidateInv

\* A gate goes on from a step that asks no package anything.
LEMMA NothingAsked ==
    ASSUME NEW k, NEW L, At(k, L), Question \notin Questions,
           tool'.name = tool.name, tool'.quiet = tool.quiet, tool'.seen = tool.seen,
           tool'.swaps = tool.swaps, tool'.to = tool.to, rpms' = rpms,
           tool.name = "generate" => Drafted(k + 1)', tool.name = "family" => Compared(k + 1)'
    PROVE  GateInv(k + 1)'
<1>1. /\ GateInv(k) /\ k \in Nat \ {0} /\ Agenda[k] = <<Question, Subject>> /\ Agenda' = Agenda
    BY DEF At, Agenda
<1>2. \A r, s : Before(Agenda, k + 1, r, s) <=> Before(Agenda, k, r, s) \/ (r = Question /\ s = Subject)
    BY <1>1, OneMore
<1>3. \A q, p : Passes(q, p, tool.seen[p])' <=> Passes(q, p, tool.seen[p])
    BY DEF Passes
<1>4. Answered(k + 1)'
    BY <1>1, <1>2, <1>3 DEF GateInv, Answered
<1>5. Undisturbed'
    BY <1>1 DEF GateInv, Undisturbed
<1>6. Rehashed' <=> Rehashed
    <2>1. \A p : Steady(p)' <=> Steady(p)
        BY DEF Steady
    <2>2. QED BY <2>1 DEF Rehashed
<1>7. QED BY <1>1, <1>4, <1>5, <1>6 DEF GateInv

\* OpenVINO's set is judged as its answers tell.
LEMMA JudgeFamilyStep == ASSUME WorldInv, ToolInv, JudgeFamily PROVE CandidateInv'
<1>1. /\ Running /\ Question = "set" /\ tool.name = "family" /\ tool.name \in Gates
      /\ IsTool(tool) /\ IsDirectory(rpms) /\ IsRoot(extracted) /\ ToolOnly
      /\ UNCHANGED <<rpms, extracted, lock, shelf>>
    BY DEF JudgeFamily, Asked, ToolInv, Gates, ToolOnly, world
<1>2. PICK k, L \in Nat : At(k, L)
    BY <1>1, GateIsAt
<1>3. /\ k # L /\ ~After(Agenda, k, "payload") /\ ~After(Agenda, k, "elf")
      /\ \A s \in Family1, r \in FamilyQuestions : Before(Agenda, k, r, s)
    BY <1>1, <1>2, FamilyAt
<1>4. CASE FamilySet(tool.seen) /\ Proceed(tool)
    <2>1. tool' = [tool EXCEPT !.todo = Tail(@)]
        BY <1>4 DEF Proceed
    <2>2. /\ IsTool(tool') /\ tool'.todo = Tail(tool.todo) /\ \A x \in Fields \ {"todo"} : tool'[x] = tool[x]
        BY <1>1, <2>1, GoesOn
    <2>3. /\ tool'.name = tool.name /\ tool'.quiet = tool.quiet /\ tool'.seen = tool.seen
          /\ tool'.swaps = tool.swaps /\ tool'.to = tool.to
          /\ tool'.text = tool.text /\ tool'.outcome = tool.outcome
        BY <2>2 DEF Fields
    <2>4. k \in Nat \ {0} /\ Agenda[k] = <<Question, Subject>> /\ Agenda' = Agenda
        BY <1>2, <2>3 DEF At, Agenda
    <2>5. \A r, s : Before(Agenda, k + 1, r, s) <=> Before(Agenda, k, r, s) \/ (r = Question /\ s = Subject)
        BY <2>4, OneMore
    <2>6. \A s : ~Before(Agenda, k, "payload", s) /\ ~Before(Agenda, k, "elf", s)
        <3>1. ASSUME NEW r, NEW s, Before(Agenda, k, r, s) PROVE After(Agenda, k, r)
            <4>1. PICK j \in 1 .. k - 1 : Agenda[j] = <<r, s>>
                BY <3>1 DEF Before
            <4>2. Agenda[j][1] = r
                BY <4>1
            <4>3. QED BY <4>2 DEF After
        <3>2. QED BY <1>3, <3>1
    <2>7. Compared(k + 1)'
        BY <1>1, <1>4, <2>3, <2>4, <2>5, <2>6 DEF Compared
    <2>8. "set" \notin Questions
        BY DEF Questions
    <2>9. GateInv(k + 1)'
        BY <1>1, <1>2, <2>3, <2>7, <2>8, NothingAsked
    <2>10. /\ IsDirectory(rpms)' /\ IsRoot(extracted)'
           /\ tool'.text = None \/ tool'.text \in Texts
        BY <1>1, <2>3 DEF IsDirectory, IsRoot, ToolInv
    <2>11. ToolInv' /\ tool'.outcome = "none"
        <3>1. tool.outcome = "none"
            BY <1>1 DEF ToolInv
        <3>2. QED BY <1>1, <1>2, <1>3, <2>2, <2>3, <2>9, <2>10, <3>1, GateGoesOn
    <2>12. WorldInv'
        BY <1>1, WorldStays DEF ToolOnly
    <2>13. QED BY <2>11, <2>12, Unended DEF CandidateInv
<1>5. CASE ~FamilySet(tool.seen) /\ Refuses
    <2>1. ASSUME tool.quiet, FamilyFine PROVE FALSE
        <3>1. ASSUME NEW p \in Family1, NEW r \in FamilyQuestions PROVE tool.seen[p][r] = rpms[p]
            BY <1>2, <1>3, <2>1, QuietAnswer, QuestionSets, Families
        <3>2. {"identity", "requirements", "files"} \subseteq FamilyQuestions
            BY DEF FamilyQuestions
        <3>3. ASSUME NEW i \in DOMAIN Family
              PROVE  /\ Identified(tool.seen[Family[i]]["identity"]) /\ Requires(tool.seen, Family[i])
                     /\ tool.seen[Family[i]]["files"].flaw \notin {"unsafePath", "overlap"}
            <4>1. PICK p \in Family1 : p = Family[i]
                BY Families
            <4>2. rpms[p].flaw \notin FoundByFamily(p)
                BY <2>1 DEF FamilyFine
            <4>3. QED BY <3>1, <3>2, <4>1, <4>2 DEF FoundByFamily, Identified, Requires
        <3>4. OwnsLicence(tool.seen, Runtime)
            <4>1. Runtime \in Family1 /\ Runtime \notin Shared
                BY Packaged, Families
            <4>2. rpms[Runtime].flaw # "licence"
                BY <2>1, <4>1 DEF FamilyFine, FoundByFamily
            <4>3. QED BY <3>1, <3>2, <4>1, <4>2 DEF OwnsLicence
        <3>5. QED BY <1>5, <3>3, <3>4 DEF FamilySet, FamilyRelations, FamilyOwnership
    <2>2. tool.quiet => ~FamilyFine
        BY <2>1
    <2>3. QED BY <1>1, <1>5, <2>2, GateRefuses
<1>6. QED BY <1>4, <1>5 DEF JudgeFamily

-----------------------------------------------------------------------------
(* The generator's own steps.                                              *)

\* What a step of the generator goes on with.
GeneratorMoves(t) ==
    /\ IsTool(t) /\ tool' = [t EXCEPT !.todo = Tail(@)] /\ t.todo = tool.todo
    /\ t.name = tool.name /\ t.quiet = tool.quiet /\ t.seen = tool.seen /\ t.swaps = tool.swaps
    /\ t.to = tool.to /\ t.outcome = tool.outcome /\ t.from = tool.from

\* The generator goes on from such a step with what it has drafted.
LEMMA GeneratorGoesOn ==
    ASSUME ToolInv, Running, tool.name = "generate", Question \notin Questions, Question # "sync",
           NEW t, GeneratorMoves(t), t.text = None \/ t.text \in Texts,
           rpms' = rpms, extracted' = extracted, WorldInv',
           NEW k, NEW L, At(k, L),
           (After(Agenda, k, "lock") \/ Question = "lock") => t.sources \in {1, 2},
           (After(Agenda, k, "lockDigest") \/ Question = "lockDigest") => t.lock \in {1, 2},
           (After(Agenda, k, "set") \/ Question = "set") =>
                /\ Pinned(t.text) /\ CompleteSet(tool.seen)
                /\ \A p \in Providers : tool.seen[p]["files"].flaw # "crowded"
    PROVE  CandidateInv'
<1>1. /\ IsTool(tool') /\ tool'.todo = Tail(tool.todo) /\ \A x \in Fields \ {"todo"} : tool'[x] = t[x]
    BY GoesOn DEF GeneratorMoves
<1>2. /\ tool'.name = tool.name /\ tool'.quiet = tool.quiet /\ tool'.seen = tool.seen
      /\ tool'.swaps = tool.swaps /\ tool'.to = tool.to /\ tool'.outcome = tool.outcome
      /\ tool'.from = tool.from /\ tool'.text = t.text /\ tool'.sources = t.sources /\ tool'.lock = t.lock
    BY <1>1 DEF GeneratorMoves, Fields
<1>3. k \in Nat \ {0} /\ Agenda[k] = <<Question, Subject>> /\ Agenda' = Agenda /\ GateInv(k)
    BY <1>2 DEF At, Agenda
<1>4. \A r : After(Agenda, k + 1, r) <=> After(Agenda, k, r) \/ r = Question
    BY <1>3, OneMore
<1>5. Drafted(k)
    BY <1>3 DEF GateInv
<1>6. Drafted(k + 1)'
    <2>1. Pinned(t.text) => Pinned(tool.text)'
        BY <1>2 DEF Pinned
    <2>2. CompleteSet(tool.seen) => CompleteSet(tool.seen)'
        BY <1>2
    <2>3. QED BY <1>2, <1>3, <1>4, <1>5, <2>1, <2>2 DEF Drafted
<1>7. GateInv(k + 1)'
    BY <1>2, <1>6, NothingAsked
<1>8. k # L
    BY GenerateAt
<1>9. /\ tool.name \in Gates /\ IsDirectory(rpms)' /\ IsRoot(extracted)' /\ tool.outcome = "none"
    BY DEF ToolInv, IsDirectory, IsRoot, Gates
<1>10. ToolInv' /\ tool'.outcome = "none"
    BY <1>1, <1>2, <1>7, <1>8, <1>9, GateGoesOn
<1>11. QED BY <1>10, Unended DEF CandidateInv

\* A generator that only goes on.
LEMMA ItselfMoves ==
    ASSUME ToolInv, Proceed(tool)
    PROVE  GeneratorMoves(tool) /\ (tool.text = None \/ tool.text \in Texts)
BY DEF ToolInv, GeneratorMoves, Proceed

\* The place of the generator, and what it has drafted there.
GeneratorAt(k) ==
    /\ tool.from = None
    /\ After(Agenda, k, "lock") => tool.sources \in {1, 2}
    /\ After(Agenda, k, "lockDigest") => tool.lock \in {1, 2}
    /\ After(Agenda, k, "set") =>
        /\ Pinned(tool.text) /\ CompleteSet(tool.seen)
        /\ \A p \in Providers : tool.seen[p]["files"].flaw # "crowded"

\* A generator that runs stands somewhere, and has what it read before.
LEMMA GeneratorIsAt ==
    ASSUME ToolInv, Running, tool.name = "generate"
    PROVE  \E k, L \in Nat : At(k, L) /\ GeneratorAt(k)
<1>1. PICK k, L \in Nat : At(k, L)
    BY GateIsAt DEF Gates
<1>2. QED BY <1>1 DEF At, GateInv, Drafted, GeneratorAt

\* The output is free, the lock is read, the directory has every package; or not.
LEMMA OutputStep == ASSUME WorldInv, ToolInv, OutputIsFree PROVE CandidateInv'
<1>1. /\ Running /\ Question = "output" /\ tool.name = "generate" /\ tool.name \in Gates /\ ToolOnly
      /\ Question \notin Questions
    BY WhoAsks DEF OutputIsFree, Asked, Gates, Questions
<1>2. PICK k, L \in Nat : At(k, L) /\ GeneratorAt(k)
    BY <1>1, GeneratorIsAt
<1>3. Subject = tool.to /\ ~After(Agenda, k, "set")
    <2>1. Question \notin InspectQuestions
        BY <1>1 DEF InspectQuestions
    <2>2. QED BY <1>1, <1>2, <2>1, GenerateAt
<1>4. CASE shelf[Subject] = None /\ Proceed(tool)
    <2>1. GeneratorMoves(tool) /\ (tool.text = None \/ tool.text \in Texts)
        BY <1>4, ItselfMoves
    <2>2. rpms' = rpms /\ extracted' = extracted /\ WorldInv'
        BY <1>1, WorldStays DEF ToolOnly, world
    <2>3. QED BY <1>1, <1>2, <1>3, <2>1, <2>2, GeneratorGoesOn DEF GeneratorAt
<1>5. CASE shelf[Subject] # None /\ Refuses
    BY <1>1, <1>3, <1>5, GateRefuses
<1>6. QED BY <1>4, <1>5 DEF OutputIsFree

\* The generator reads the source lock, once to validate it and once for its digest.
LEMMA ReadLockStep == ASSUME WorldInv, ToolInv, ReadLock PROVE CandidateInv'
<1>1. /\ Running /\ Question \in {"lock", "lockDigest"} /\ tool.name = "generate" /\ tool.name \in Gates
      /\ ToolOnly /\ Question \notin Questions /\ IsTool(tool)
    BY WhoAsks DEF ReadLock, Gates, Questions, ToolInv
<1>2. PICK k, L \in Nat : At(k, L) /\ GeneratorAt(k)
    BY <1>1, GeneratorIsAt
<1>3. ~After(Agenda, k, "set")
    BY <1>1, <1>2, GenerateAt
<1>4. rpms' = rpms /\ extracted' = extracted /\ WorldInv'
    BY <1>1, WorldStays DEF ToolOnly, world
<1>5. CASE lock = None /\ Refuses
    BY <1>1, <1>5, GateRefuses
<1>6. CASE lock # None /\ Question = "lock" /\ Proceed([tool EXCEPT !.sources = lock])
    <2>1. lock \in {1, 2}
        BY <1>6 DEF WorldInv
    <2>2. PICK t : t = [tool EXCEPT !.sources = lock]
        OBVIOUS
    <2>3. IsTool(t) /\ t.sources = lock /\ \A x \in Fields \ {"sources"} : t[x] = tool[x]
        BY <1>1, <2>2 DEF IsTool, Fields
    <2>4. /\ GeneratorMoves(t) /\ (t.text = None \/ t.text \in Texts) /\ t.lock = tool.lock
        BY <1>6, <2>2, <2>3 DEF GeneratorMoves, Proceed, Fields, ToolInv
    <2>5. QED BY <1>1, <1>2, <1>3, <1>4, <1>6, <2>1, <2>3, <2>4, GeneratorGoesOn DEF GeneratorAt
<1>7. CASE lock # None /\ Question = "lockDigest" /\ Proceed([tool EXCEPT !.lock = lock])
    <2>1. lock \in {1, 2}
        BY <1>7 DEF WorldInv
    <2>2. PICK t : t = [tool EXCEPT !.lock = lock]
        OBVIOUS
    <2>3. IsTool(t) /\ t.lock = lock /\ \A x \in Fields \ {"lock"} : t[x] = tool[x]
        BY <1>1, <2>2 DEF IsTool, Fields
    <2>4. /\ GeneratorMoves(t) /\ (t.text = None \/ t.text \in Texts) /\ t.sources = tool.sources
        BY <1>7, <2>2, <2>3 DEF GeneratorMoves, Proceed, Fields, ToolInv
    <2>5. QED BY <1>1, <1>2, <1>3, <1>4, <1>7, <2>1, <2>3, <2>4, GeneratorGoesOn DEF GeneratorAt
<1>8. QED BY <1>1, <1>5, <1>6, <1>7 DEF ReadLock

\* The generator lists the directory.
LEMMA ListEntriesStep == ASSUME WorldInv, ToolInv, ListEntries PROVE CandidateInv'
<1>1. /\ Running /\ Question = "entries" /\ tool.name = "generate" /\ tool.name \in Gates /\ ToolOnly
      /\ Question \notin Questions
    BY WhoAsks DEF ListEntries, Asked, Gates, Questions
<1>2. PICK k, L \in Nat : At(k, L) /\ GeneratorAt(k)
    BY <1>1, GeneratorIsAt
<1>3. ~After(Agenda, k, "set")
    BY <1>1, <1>2, GenerateAt
<1>4. CASE Proceed(tool)
    <2>1. GeneratorMoves(tool) /\ (tool.text = None \/ tool.text \in Texts)
        BY <1>4, ItselfMoves
    <2>2. rpms' = rpms /\ extracted' = extracted /\ WorldInv'
        BY <1>1, WorldStays DEF ToolOnly, world
    <2>3. QED BY <1>1, <1>2, <1>3, <2>1, <2>2, GeneratorGoesOn DEF GeneratorAt
<1>5. CASE ~(\A p \in Packages : rpms[p] # None) /\ Refuses
    <2>1. ~GenerateFine
        BY <1>5 DEF GenerateFine
    <2>2. QED BY <1>1, <1>5, <2>1, GateRefuses
<1>6. QED BY <1>4, <1>5 DEF ListEntries

\* What the generator writes is a draft whose components are bound to the RPMs.
LEMMA DraftIsPinned ==
    ASSUME tool.sources \in {1, 2}, tool.lock \in {1, 2},
           \A p \in Providers : tool.seen[p]["digest"] \in RpmFiles(p),
           \A p \in Providers : tool.seen[p]["files"].flaw # "crowded"
    PROVE  Pinned(GeneratedText)
<1> DEFINE B == [p \in Providers |-> tool.seen[p]["digest"]]
           Flaws == (UNION {FlawsOf(p) : p \in Providers}) \cup {None}
<1>1. B \in [Providers -> [build : 1 .. Builds, flaw : Flaws]]
    <2>1. ASSUME NEW p \in Providers PROVE RpmFiles(p) \subseteq [build : 1 .. Builds, flaw : Flaws]
        <3>1. FlawsOf(p) \cup {None} \subseteq Flaws
            OBVIOUS
        <3> HIDE DEF Flaws
        <3>2. QED BY <3>1 DEF RpmFiles
    <2> HIDE DEF Flaws
    <2>2. QED BY <2>1
<1>2. GeneratedText = [defect |-> None, link |-> FALSE, id |-> "generated", status |-> "candidate",
                       evidence |-> "absent", min |-> Target, max |-> Target + 1,
                       bound |-> B, sources |-> tool.sources, lock |-> tool.lock]
    BY DEF GeneratedText
<1>3. Target \in Releases /\ Target + 1 \in Releases /\ tool.sources \in 1 .. 2 /\ tool.lock \in 1 .. 2
    BY CandidateConstants
<1> HIDE DEF B, Flaws
<1>4. GeneratedText \in Texts
    BY <1>1, <1>2, <1>3 DEF Texts, Flaws
<1>5. QED BY <1>2, <1>4 DEF Pinned

\* It is valid unless a provider has too many files.
LEMMA DraftIsValid ==
    ValidProfile(GeneratedText) <=> \A p \in Providers : tool.seen[p]["files"].flaw # "crowded"
<1>1. /\ GeneratedText.defect = IF \E p \in Providers : tool.seen[p]["files"].flaw = "crowded"
                                THEN "provider" ELSE None
      /\ GeneratedText.status = "candidate" /\ GeneratedText.min = Target /\ GeneratedText.max = Target + 1
    BY DEF GeneratedText
<1>2. Target < Target + 1
    BY CandidateConstants
<1>3. None \notin Defects
    BY CandidateConstants
<1>4. QED BY <1>1, <1>2, <1>3 DEF ValidProfile, WellFormed, SchemaSupported, WithinLimits, FieldsFilled,
                   ConflictsSorted, PciIdsNormal, RangeOrdered, ComponentsComplete, ProvidersExact,
                   EvidenceComplete, Defects

\* A set with nothing wrong that the generator is there to find is complete and valid.
LEMMA GoodSetPasses ==
    ASSUME GenerateFine, \A p \in Packages, r \in InspectQuestions : tool.seen[p][r] = rpms[p]
    PROVE  CompleteSet(tool.seen) /\ ValidProfile(GeneratedText)
<1>1. {"requirements", "files"} \subseteq InspectQuestions
    BY DEF InspectQuestions
<1>2. ASSUME NEW p \in Packages
      PROVE  /\ tool.seen[p]["requirements"].flaw \notin FoundByGenerator(p)
             /\ tool.seen[p]["files"].flaw \notin FoundByGenerator(p)
    BY <1>1 DEF GenerateFine
<1>3. Runtime \in Packages /\ Runtime \notin Shared /\ Meta \in Packages /\ Tools \in Packages
    BY Packaged, Families
<1>4. NoOverlap(tool.seen)
    BY <1>2 DEF NoOverlap, FoundByGenerator
<1>5. \A p \in Packages : RequiredPayload(tool.seen, p) /\ InternalPinned(tool.seen, p)
    BY <1>2 DEF RequiredPayload, InternalPinned, FoundByGenerator
<1>6. ExactProviders(tool.seen)
    BY <1>2, <1>3 DEF ExactProviders, Requires, FoundByGenerator
<1>7. ExecutableModes(tool.seen)
    BY <1>2, <1>3 DEF ExecutableModes, FoundByGenerator
<1>8. ASSUME NEW p \in Packages PROVE Licensed(tool.seen, p)
    <2>1. CASE p \notin Shared
        BY <1>2, <2>1 DEF Licensed, OwnsLicence, FoundByGenerator
    <2>2. CASE p \in Shared
        BY <1>2, <1>3, <2>2 DEF Licensed, OwnsLicence, Requires, FoundByGenerator
    <2>3. QED BY <2>1, <2>2
<1>9. \A p \in Providers : tool.seen[p]["files"].flaw # "crowded"
    BY <1>2 DEF Providers, FoundByGenerator
<1>10. QED BY <1>4, <1>5, <1>6, <1>7, <1>8, <1>9, DraftIsValid DEF CompleteSet

\* The set is judged as its answers tell.
LEMMA JudgeSetStep == ASSUME WorldInv, ToolInv, JudgeSet PROVE CandidateInv'
<1>1. /\ Running /\ Question = "set" /\ tool.name = "generate" /\ tool.name \in Gates /\ ToolOnly
      /\ Question \notin Questions /\ IsTool(tool)
    BY DEF JudgeSet, Asked, Gates, Questions, ToolInv
<1>2. PICK k, L \in Nat : At(k, L) /\ GeneratorAt(k)
    BY <1>1, GeneratorIsAt
<1>3. /\ \A s \in Packages, r \in InspectQuestions : Before(Agenda, k, r, s)
      /\ tool.sources \in {1, 2} /\ tool.lock \in {1, 2}
    BY <1>1, <1>2, GenerateAt DEF GeneratorAt
<1>4. "digest" \in InspectQuestions /\ InspectQuestions \subseteq Questions
    BY QuestionSets DEF InspectQuestions
<1>5. CASE CompleteSet(tool.seen) /\ ValidProfile(GeneratedText) /\ Proceed([tool EXCEPT !.text = GeneratedText])
    <2>1. \A p \in Providers : tool.seen[p]["files"].flaw # "crowded"
        BY <1>5, DraftIsValid
    <2>2. \A p \in Providers : tool.seen[p]["digest"] \in RpmFiles(p)
        BY <1>2, <1>3, <1>4 DEF At, GateInv, Answered, Providers
    <2>3. Pinned(GeneratedText)
        BY <1>3, <2>1, <2>2, DraftIsPinned
    <2>4. PICK g : g = GeneratedText
        OBVIOUS
    <2>5. PICK t : t = [tool EXCEPT !.text = g]
        OBVIOUS
    <2>6. IsTool(t) /\ t.text = g /\ \A x \in Fields \ {"text"} : t[x] = tool[x]
        BY <1>1, <2>5 DEF IsTool, Fields
    <2>7. Pinned(t.text) /\ t.text \in Texts
        BY <2>3, <2>4, <2>6 DEF Pinned
    <2>8. /\ GeneratorMoves(t) /\ t.sources = tool.sources /\ t.lock = tool.lock
        BY <1>5, <2>4, <2>5, <2>6 DEF GeneratorMoves, Proceed, Fields
    <2>9. rpms' = rpms /\ extracted' = extracted /\ WorldInv'
        BY <1>1, WorldStays DEF ToolOnly, world
    <2>10. QED BY <1>1, <1>2, <1>3, <1>5, <2>1, <2>7, <2>8, <2>9, GeneratorGoesOn
<1>6. CASE ~(CompleteSet(tool.seen) /\ ValidProfile(GeneratedText)) /\ Refuses
    <2>1. tool.quiet => \A p \in Packages, r \in InspectQuestions : tool.seen[p][r] = rpms[p]
        BY <1>2, <1>3, <1>4, QuietAnswer
    <2>2. tool.quiet => ~GenerateFine
        BY <1>6, <2>1, GoodSetPasses
    <2>3. QED BY <1>1, <1>6, <2>2, GateRefuses
<1>7. QED BY <1>5, <1>6 DEF JudgeSet

\* The draft appears whole, or not at all.
LEMMA PublishStep == ASSUME WorldInv, ToolInv, Publish PROVE CandidateInv'
<1>1. /\ Running /\ Question = "publish" /\ tool.name = "generate" /\ tool.name \in Gates
      /\ Question \notin Questions /\ UNCHANGED <<rpms, extracted, lock, receipts, edits, runs>>
    BY WhoAsks DEF Publish, Asked, Gates, Questions
<1>2. PICK k, L \in Nat : At(k, L) /\ GeneratorAt(k)
    BY <1>1, GeneratorIsAt
<1>3. Subject = tool.to /\ After(Agenda, k, "set") /\ After(Agenda, k, "lock") /\ After(Agenda, k, "lockDigest")
    <2>1. Question \notin InspectQuestions
        BY <1>1 DEF InspectQuestions
    <2>2. QED BY <1>1, <1>2, <2>1, GenerateAt
<1>4. CASE Persist(Subject, tool.text) /\ Proceed(tool)
    <2>1. GeneratorMoves(tool) /\ (tool.text = None \/ tool.text \in Texts)
        BY <1>4, ItselfMoves
    <2>2. tool.text \in Texts
        BY <1>2, <1>3 DEF GeneratorAt, Pinned
    <2>3. IsShelf(shelf)'
        BY <1>4, <2>2 DEF WorldInv, IsShelf, Persist
    <2>4. WorldInv'
        BY <1>1, <2>3 DEF WorldInv, IsDirectory, IsRoot
    <2>5. QED BY <1>1, <1>2, <1>3, <2>1, <2>4, GeneratorGoesOn DEF GeneratorAt
<1>5. CASE shelf[Subject] # None /\ Refuses /\ UNCHANGED shelf
    <2>1. ToolOnly
        BY <1>1, <1>5 DEF ToolOnly, world
    <2>2. QED BY <1>1, <1>3, <1>5, <2>1, GateRefuses
<1>6. QED BY <1>4, <1>5 DEF Publish

\* A file that gave all answers but the first has nothing wrong that the generator is there
\* to find, but that it may be irregular by now.
LEMMA NothingFound ==
    ASSUME NEW p \in Packages, NEW f \in RpmFiles(p), CompleteSet(tool.seen),
           \A s \in Providers : tool.seen[s]["files"].flaw # "crowded",
           \A r \in InspectQuestions \ {"file"} : tool.seen[p][r] = f /\ Inspects(r, f, tool.seen[p])
    PROVE  f.flaw \notin FoundByGenerator(p) \ {"irregular"}
<1>1. {"identity", "scripts", "requirements", "files", "source"} \subseteq InspectQuestions \ {"file"}
    BY DEF InspectQuestions
<1>2. f.flaw \notin {"identity", "licenceTag", "scripts", "shortCircuit", "unsafePath", "owns", "source"}
    <2>1. /\ Inspects("identity", f, tool.seen[p])
          /\ Inspects("scripts", f, tool.seen[p]) /\ Inspects("requirements", f, tool.seen[p])
          /\ Inspects("files", f, tool.seen[p]) /\ Inspects("source", f, tool.seen[p])
        BY <1>1
    <2>2. QED BY <2>1 DEF Inspects, Expected, ReviewedLicence, FullBuild, SafeFiles
<1>3. tool.seen[p]["files"] = f /\ tool.seen[p]["requirements"] = f
    BY <1>1
<1>4. f.flaw \notin {"loose", "overlap", "payload"}
    BY <1>3 DEF CompleteSet, NoOverlap, RequiredPayload, InternalPinned
<1>5. p \in Shared \cup {Meta, Tools} => f.flaw # "relation"
    <2>1. p \in Shared => p \notin {Meta, Tools}
        BY PackagesDiffer DEF Shared
    <2>2. p \in {Meta, Tools} => f.flaw # "relation"
        BY <1>3 DEF CompleteSet, ExactProviders, Requires
    <2>3. p \in Shared => f.flaw # "relation"
        BY <1>3, <2>1 DEF CompleteSet, Licensed, OwnsLicence, Requires
    <2>4. QED BY <2>2, <2>3
<1>6. p = Tools => f.flaw # "mode"
    BY <1>3 DEF CompleteSet, ExecutableModes
<1>7. f.flaw # "licence"
    <2>1. CASE p \in Shared \cup {Meta}
        <3>1. p \notin {Tools, Driver, Blob, Runtime}
            BY <2>1, PackagesDiffer, Packaged DEF Shared
        <3>2. "licence" # None
            BY PackageConstants, Families DEF FlawsOf
        <3>3. "licence" \notin FlawsOf(p) \cup {None}
            BY <3>1, <3>2 DEF FlawsOf
        <3>4. QED BY <3>3 DEF RpmFiles
    <2>2. CASE p \notin Shared \cup {Meta}
        BY <1>3, <2>2 DEF CompleteSet, Licensed, OwnsLicence
    <2>3. QED BY <2>1, <2>2
<1>8. f.flaw # "crowded"
    <2>1. CASE p \in Providers
        BY <1>3, <2>1
    <2>2. CASE p \notin Providers
        <3>1. Driver \in Providers
            BY Families, PackagesDiffer DEF Providers
        <3>2. "crowded" # None
            BY <3>1, PackageConstants, Families DEF FlawsOf
        <3>3. "crowded" \notin FlawsOf(p) \cup {None}
            BY <2>2, <3>2 DEF FlawsOf
        <3>4. QED BY <3>3 DEF RpmFiles
    <2>3. QED BY <2>1, <2>2
<1>9. QED BY <1>2, <1>4, <1>5, <1>6, <1>7, <1>8 DEF FoundByGenerator

\* What the generator has published has nothing wrong that it is there to find.
LEMMA PublishedIsFine ==
    ASSUME NEW k, NEW L, At(k, L), GeneratorAt(k), tool.name = "generate", Question = "sync", tool.quiet
    PROVE  GenerateFine
<1>1. /\ \A s \in Packages, r \in InspectQuestions : Before(Agenda, k, r, s)
      /\ After(Agenda, k, "set")
    BY GenerateAt
<1>2. /\ CompleteSet(tool.seen) /\ \A p \in Providers : tool.seen[p]["files"].flaw # "crowded"
    BY <1>1 DEF GeneratorAt
<1>3. ASSUME NEW p \in Packages, NEW r \in InspectQuestions
      PROVE  /\ tool.seen[p][r] = rpms[p] /\ rpms[p] # None /\ rpms[p] \in RpmFiles(p)
             /\ Inspects(r, rpms[p], tool.seen[p])
    <2>1. r \in Questions
        BY QuestionSets
    <2>2. tool.seen[p][r] = rpms[p] /\ Passes(r, p, tool.seen[p]) /\ rpms[p] # None /\ rpms[p] \in RpmFiles(p)
        BY <1>1, <2>1, QuietAnswer
    <2>3. QED BY <2>2 DEF Passes
<1>4. "file" \in InspectQuestions
    BY DEF InspectQuestions
<1>5. ASSUME NEW p \in Packages
      PROVE  rpms[p] # None /\ rpms[p].flaw \notin FoundByGenerator(p)
    <2>1. rpms[p] # None /\ rpms[p] \in RpmFiles(p) /\ Inspects("file", rpms[p], tool.seen[p])
        BY <1>3, <1>4
    <2>2. rpms[p].flaw # "irregular"
        BY <2>1 DEF Inspects
    <2>3. rpms[p].flaw \notin FoundByGenerator(p) \ {"irregular"}
        BY <1>2, <1>3, <2>1, NothingFound
    <2>4. QED BY <2>1, <2>2, <2>3
<1>6. QED BY <1>5 DEF GenerateFine

\* A record says which file was read and which was written.
LEMMA PrintRecordStep == ASSUME WorldInv, ToolInv, PrintRecord PROVE CandidateInv'
<1>1. /\ Running /\ Question = "sync" /\ tool.name \in {"generate", "retarget"} /\ tool.quiet \in BOOLEAN
      /\ UNCHANGED <<rpms, extracted, lock, shelf, edits, runs>>
      /\ receipts' = receipts \cup {[from |-> tool.from, text |-> tool.text]}
    BY WhoAsks DEF PrintRecord, Asked, ToolInv, world
<1>2. tool' = [NoTool EXCEPT !.name = tool.name, !.to = tool.to, !.outcome = "accepted", !.quiet = tool.quiet]
    BY DEF PrintRecord, Ends
<1>3. /\ ToolInv' /\ tool'.name = tool.name /\ tool'.to = tool.to
      /\ tool'.outcome = "accepted" /\ tool'.quiet = tool.quiet
    BY <1>1, <1>2, ToolEnds
<1>4. Recorded(tool.from, tool.text) => WorldInv'
    BY <1>1 DEF WorldInv, IsDirectory, IsRoot, IsShelf
<1>5. CASE tool.name = "generate"
    <2>1. PICK k, L \in Nat : At(k, L) /\ GeneratorAt(k)
        BY <1>1, <1>5, GeneratorIsAt
    <2>2. After(Agenda, k, "set")
        BY <1>1, <1>5, <2>1, GenerateAt
    <2>3. Recorded(tool.from, tool.text)
        BY <2>1, <2>2 DEF GeneratorAt, Recorded
    <2>4. tool.quiet => GenerateFine
        BY <1>1, <1>5, <2>1, PublishedIsFine
    <2>5. Decided("accepted") /\ tool.name \in Gates
        BY <1>1, <1>3, <1>5 DEF Decided, Gates
    <2>6. GatesAreExact' /\ ValidatorIsExact'
        BY <1>5, <2>4, <2>5, RightToAccept
    <2>7. QED BY <1>3, <1>4, <2>3, <2>6 DEF CandidateInv
<1>6. CASE tool.name = "retarget"
    <2>1. Recorded(tool.from, tool.text)
        BY <1>1, <1>6 DEF ToolInv, RetargetInv, Question
    <2>2. GatesAreExact' /\ ValidatorIsExact'
        BY <1>3, <1>6 DEF GatesAreExact, ValidatorIsExact
    <2>3. QED BY <1>3, <1>4, <2>1, <2>2 DEF CandidateInv
<1>7. QED BY <1>1, <1>5, <1>6

-----------------------------------------------------------------------------
(* retarget-candidate.                                                     *)

\* It may refuse whatever it finds.
LEMMA RetargetRefuses ==
    ASSUME WorldInv, ToolInv, tool.name = "retarget", Refuses, ToolOnly
    PROVE  CandidateInv'
<1>1. UNCHANGED <<world, receipts, edits, runs>> /\ tool.quiet \in BOOLEAN
    BY DEF ToolOnly, ToolInv
<1>2. tool' = [NoTool EXCEPT !.name = tool.name, !.to = tool.to, !.outcome = "refused", !.quiet = tool.quiet]
    BY DEF Refuses, Ends
<1>3. ToolInv' /\ tool'.name = tool.name
    BY <1>1, <1>2, ToolEnds
<1>4. GatesAreExact' /\ ValidatorIsExact'
    BY <1>3 DEF GatesAreExact, ValidatorIsExact
<1>5. QED BY <1>1, <1>3, <1>4, WorldStays DEF CandidateInv

\* It goes on with what it has read and made of it.
LEMMA RetargetGoesOn ==
    ASSUME ToolInv, tool.name = "retarget", Running, WorldInv',
           NEW t, IsTool(t), tool' = [t EXCEPT !.todo = Tail(@)], t.todo = tool.todo, Question # "sync",
           \A x \in Fields \ {"from", "text"} : t[x] = tool[x],
           Recorded(t.from, t.text), t.from # None
    PROVE  CandidateInv'
<1>1. /\ IsTool(tool') /\ tool'.todo = Tail(tool.todo) /\ \A x \in Fields \ {"todo"} : tool'[x] = t[x]
    BY GoesOn
<1>2. /\ tool'.name = "retarget" /\ tool'.quiet = tool.quiet /\ tool'.to = tool.to
      /\ tool'.outcome = tool.outcome /\ tool'.from = t.from /\ tool'.text = t.text
      /\ tool'.id = tool.id /\ tool'.release = tool.release
    BY <1>1 DEF Fields
<1>3. PICK from, to \in Spots :
        tool.todo \in {<< <<"read", from>>, <<"create", to>>, <<"write", to>>, <<"sync", to>> >>,
                       << <<"create", to>>, <<"write", to>>, <<"sync", to>> >>,
                       << <<"write", to>>, <<"sync", to>> >>, << <<"sync", to>> >>}
    BY DEF ToolInv, RetargetInv
<1>4. tool'.todo \in {<< <<"create", to>>, <<"write", to>>, <<"sync", to>> >>,
                      << <<"write", to>>, <<"sync", to>> >>, << <<"sync", to>> >>}
    <2>1. Head(tool.todo)[1] # "sync"
        BY DEF Question
    <2>2. CASE tool.todo = << <<"read", from>>, <<"create", to>>, <<"write", to>>, <<"sync", to>> >>
        BY <1>1, <2>2
    <2>3. CASE tool.todo = << <<"create", to>>, <<"write", to>>, <<"sync", to>> >>
        BY <1>1, <2>3
    <2>4. CASE tool.todo = << <<"write", to>>, <<"sync", to>> >>
        BY <1>1, <2>4
    <2>5. CASE tool.todo = << <<"sync", to>> >>
        BY <2>1, <2>5
    <2>6. QED BY <1>3, <2>2, <2>3, <2>4, <2>5
<1>5. Recorded(tool.from, tool.text)' /\ tool'.from # None /\ Pinned(t.text)
    BY <1>2 DEF Recorded, Pinned
<1>6. RetargetInv'
    BY <1>2, <1>3, <1>4, <1>5 DEF RetargetInv, ToolInv
<1>7. ToolInv'
    BY <1>1, <1>2, <1>5, <1>6 DEF ToolInv, Running, Gates, Pinned
<1>8. tool'.outcome = "none"
    BY <1>2 DEF ToolInv
<1>9. QED BY <1>7, <1>8, Unended DEF CandidateInv

\* The candidate is read and made one for another release.
LEMMA RetargetStep == ASSUME WorldInv, ToolInv, Retarget PROVE CandidateInv'
<1>1. Running /\ Question = "read" /\ tool.name = "retarget" /\ ToolOnly /\ IsTool(tool)
    BY WhoAsks DEF Retarget, Asked, ToolInv
<1>2. PICK s : s = shelf[Subject]
    OBVIOUS
<1>3. CASE Refuses
    BY <1>1, <1>3, RetargetRefuses
<1>4. CASE /\ Retargetable(s) /\ tool.id # s.id /\ Fits(tool.release) /\ s.defect # "format"
           /\ Proceed([tool EXCEPT !.from = s, !.text = [s EXCEPT !.id = tool.id, !.min = tool.release,
                                                                  !.max = tool.release + 1]])
    <2>1. /\ Subject \in Spots /\ tool.id \in {"generated", "retargeted"} /\ tool.release \in Releases
        BY <1>1 DEF ToolInv, RetargetInv, Question, Subject
    <2>2. s \in Texts /\ ValidProfile(s) /\ ~s.link /\ s.status = "candidate" /\ s.evidence = "absent"
        BY <1>2, <1>4, <2>1 DEF WorldInv, IsShelf, Retargetable, RegularFile, Unqualified
    <2>3. s.defect = None /\ s # None
        BY <1>4, <2>2, ValidIsFlawless, TextsExist
    <2>4. PICK g : g = [s EXCEPT !.id = tool.id, !.min = tool.release, !.max = tool.release + 1]
        OBVIOUS
    <2>5. tool.release + 1 \in Releases
        BY <1>4 DEF Fits
    <2>6. g \in Texts /\ g.link = s.link /\ g.defect = s.defect /\ g.status = s.status
          /\ g.evidence = s.evidence /\ g.min = tool.release /\ g.max = tool.release + 1
          /\ g.bound = s.bound /\ g.lock = s.lock /\ g.sources = s.sources
        BY <2>1, <2>2, <2>4, <2>5 DEF Texts
    <2>7. Recorded(s, g)
        BY <2>2, <2>3, <2>6 DEF Recorded, Pinned
    <2>8. PICK t : t = [tool EXCEPT !.from = s, !.text = g]
        OBVIOUS
    <2>9. IsTool(t) /\ t.from = s /\ t.text = g /\ \A x \in Fields \ {"from", "text"} : t[x] = tool[x]
        BY <1>1, <2>8 DEF IsTool, Fields
    <2>10. tool' = [t EXCEPT !.todo = Tail(@)] /\ t.todo = tool.todo
        BY <1>4, <2>4, <2>8, <2>9 DEF Proceed, Fields
    <2>11. WorldInv'
        BY <1>1, WorldStays DEF ToolOnly
    <2>12. QED BY <1>1, <2>3, <2>7, <2>9, <2>10, <2>11, RetargetGoesOn
<1>5. QED BY <1>2, <1>3, <1>4 DEF Retarget

\* What the tool has made of what it read goes on with it.
LEMMA RetargetKeeps ==
    ASSUME ToolInv, Running, tool.name = "retarget", Question \in {"create", "write"}, Proceed(tool), WorldInv'
    PROVE  CandidateInv'
<1>1. IsTool(tool) /\ tool' = [tool EXCEPT !.todo = Tail(@)]
    BY DEF ToolInv, Proceed
<1>2. Recorded(tool.from, tool.text) /\ tool.from # None
    BY DEF ToolInv, RetargetInv, Question
<1>3. QED BY <1>1, <1>2, RetargetGoesOn

\* Where and what it writes.
LEMMA RetargetWrites ==
    ASSUME ToolInv, Running, tool.name = "retarget", Question \in {"create", "write"}
    PROVE  Subject \in Spots /\ tool.text \in Texts /\ Unwritten \in Texts
<1>1. PICK to \in Spots : tool.todo \in {<< <<"create", to>>, <<"write", to>>, <<"sync", to>> >>,
                                         << <<"write", to>>, <<"sync", to>> >>}
    BY DEF ToolInv, RetargetInv, Question
<1>2. tool.text \in Texts
    BY DEF ToolInv, RetargetInv, Question, Recorded, Pinned
<1>3. Unwritten \in Texts
    BY <1>2 DEF Unwritten, Texts, Defects
<1>4. QED BY <1>1, <1>2, <1>3 DEF Subject

\* The output is created empty, and written.
LEMMA CreateOutputStep == ASSUME WorldInv, ToolInv, CreateOutput PROVE CandidateInv'
<1>1. /\ Running /\ Question = "create" /\ tool.name = "retarget"
      /\ UNCHANGED <<rpms, extracted, lock, receipts, edits, runs>>
    BY WhoAsks DEF CreateOutput, Asked
<1>2. CASE Persist(Subject, Unwritten) /\ Proceed(tool)
    <2>1. IsShelf(shelf)'
        BY <1>1, <1>2, RetargetWrites DEF WorldInv, IsShelf, Persist
    <2>2. WorldInv'
        BY <1>1, <2>1 DEF WorldInv, IsDirectory, IsRoot
    <2>3. QED BY <1>1, <1>2, <2>2, RetargetKeeps
<1>3. CASE shelf[Subject] # None /\ Refuses /\ UNCHANGED shelf
    <2>1. ToolOnly
        BY <1>1, <1>3 DEF ToolOnly, world
    <2>2. QED BY <1>1, <1>3, <2>1, RetargetRefuses
<1>4. QED BY <1>2, <1>3 DEF CreateOutput

\* A file just created is written, if it is still there.
LEMMA WriteOutputStep == ASSUME WorldInv, ToolInv, WriteOutput PROVE CandidateInv'
<1>1. /\ Running /\ Question = "write" /\ tool.name = "retarget" /\ Proceed(tool)
      /\ UNCHANGED <<rpms, extracted, lock, receipts, edits, runs>>
    BY WhoAsks DEF WriteOutput, Asked
<1>2. IsShelf(shelf)'
    <2>1. shelf' = IF shelf[Subject] = Unwritten THEN [shelf EXCEPT ![Subject] = tool.text] ELSE shelf
        BY DEF WriteOutput
    <2>2. IsShelf(shelf) /\ tool.text \in Texts /\ Subject \in Spots
        BY <1>1, RetargetWrites DEF WorldInv
    <2>3. QED BY <2>1, <2>2 DEF IsShelf
<1>3. WorldInv'
    BY <1>1, <1>2 DEF WorldInv, IsDirectory, IsRoot
<1>4. QED BY <1>1, <1>3, RetargetKeeps

-----------------------------------------------------------------------------
(* validate-profiles.                                                      *)

\* The whole listing is still to be read at first.
LEMMA WholeListing == ASSUME NEW n \in Nat, NEW at PROVE Rest(Listed(at, n), 1) = Listed(at, n)
<1> DEFINE A == [i \in 1 .. n |-> <<"profile", Shelf[at[i]]>>]
           B == << <<"verdict", None>> >>
           S == {A[i] : i \in 1 .. n} \cup {<<"verdict", None>>}
<1>1. A \in Seq(S) /\ B \in Seq(S)
    OBVIOUS
<1>2. Listed(at, n) = A \o B
    BY DEF Listed
<1> HIDE DEF A, B, S
<1>3. Listed(at, n) \in Seq(S)
    BY <1>1, <1>2, ConcatProperties
<1>4. Len(Listed(at, n)) = n + 1
    BY ListedFacts
<1>5. Listed(at, n) = [i \in 1 .. n + 1 |-> Listed(at, n)[i]]
    BY <1>3, <1>4
<1>6. Rest(Listed(at, n), 1) = [i \in 1 .. (n + 1) + 1 - 1 |-> Listed(at, n)[i + 1 - 1]]
    BY <1>4 DEF Rest
<1>7. [i \in 1 .. (n + 1) + 1 - 1 |-> Listed(at, n)[i + 1 - 1]] = [i \in 1 .. n + 1 |-> Listed(at, n)[i]]
    <2>1. (n + 1) + 1 - 1 = n + 1 /\ \A i \in 1 .. n + 1 : i + 1 - 1 = i
        OBVIOUS
    <2>2. QED BY <2>1
<1>8. QED BY <1>5, <1>6, <1>7

\* The validator is at some file of its listing, or at the end of it.
ListingAt(n, at, k) ==
    /\ n \in Nat /\ n \in 0 .. Len(Shelf) /\ at \in [1 .. n -> DOMAIN Shelf] /\ k \in 1 .. n + 1
    /\ tool.todo = Rest(Listed(at, n), k) /\ tool.invalid \in BOOLEAN
    /\ tool.quiet => IsListing(at) /\ ReadInv(at, k)
    /\ Tail(tool.todo) = Rest(Listed(at, n), k + 1)
    /\ k \in 1 .. n => Question = "profile" /\ Subject = Shelf[at[k]]
    /\ k = n + 1 => Question = "verdict"

\* A validator that has listed the directory stands somewhere in its listing.
LEMMA ValidatorIsAt ==
    ASSUME ToolInv, Running, tool.name = "validate", Question # "list"
    PROVE  \E n, at, k : ListingAt(n, at, k)
<1>1. tool.todo # << <<"list", None>>, <<"verdict", None>> >>
    BY DEF Question
<1>2. PICK n \in 0 .. Len(Shelf) : \E at \in [1 .. n -> DOMAIN Shelf] : \E k \in 1 .. n + 1 :
         /\ tool.todo = Rest(Listed(at, n), k) /\ tool.invalid \in BOOLEAN
         /\ tool.quiet => IsListing(at) /\ ReadInv(at, k)
    BY <1>1 DEF ToolInv, ValidateInv
<1>3. PICK at \in [1 .. n -> DOMAIN Shelf] : \E k \in 1 .. n + 1 :
         /\ tool.todo = Rest(Listed(at, n), k) /\ tool.invalid \in BOOLEAN
         /\ tool.quiet => IsListing(at) /\ ReadInv(at, k)
    BY <1>2
<1>4. PICK k \in 1 .. n + 1 :
         /\ tool.todo = Rest(Listed(at, n), k) /\ tool.invalid \in BOOLEAN
         /\ tool.quiet => IsListing(at) /\ ReadInv(at, k)
    BY <1>3
<1>5. n \in Nat /\ Len(Listed(at, n)) = n + 1
    BY ListedFacts, CandidateConstants
<1>6. Len(Listed(at, n)) \in Nat /\ k \in 1 .. Len(Listed(at, n))
    BY <1>5
<1>7. Head(tool.todo) = Listed(at, n)[k] /\ Tail(tool.todo) = Rest(Listed(at, n), k + 1)
    BY <1>4, <1>6, RestMoves
<1>8. k \in 1 .. n => Listed(at, n)[k] = <<"profile", Shelf[at[k]]>>
    BY <1>5, ListedFacts
<1>9. k = n + 1 => Listed(at, n)[k] = <<"verdict", None>>
    BY <1>5, ListedFacts
<1>10. ListingAt(n, at, k)
    BY <1>4, <1>5, <1>7, <1>8, <1>9 DEF ListingAt, Question, Subject
<1>11. QED BY <1>10

\* The validator goes on with what it knows.
LEMMA ValidatorGoesOn ==
    ASSUME WorldInv, ToolInv, Running, tool.name = "validate", ToolOnly,
           IsTool(tool'), \A x \in Fields \ {"todo", "ids", "invalid"} : tool'[x] = tool[x], ValidateInv'
    PROVE  CandidateInv'
<1>1. /\ tool'.name = "validate" /\ tool'.quiet = tool.quiet /\ tool'.to = tool.to
      /\ tool'.text = tool.text /\ tool'.outcome = tool.outcome
    BY DEF Fields
<1>2. ToolInv'
    BY <1>1 DEF ToolInv, Running, Gates
<1>3. tool'.outcome = "none"
    BY <1>1 DEF ToolInv
<1>4. WorldInv'
    BY WorldStays DEF ToolOnly
<1>5. QED BY <1>2, <1>3, <1>4, Unended DEF CandidateInv

\* The directory is listed.
LEMMA ListProfilesStep == ASSUME WorldInv, ToolInv, ListProfiles PROVE CandidateInv'
<1>1. /\ Running /\ Question = "list" /\ tool.name = "validate" /\ IsTool(tool) /\ ToolOnly /\ shelf' = shelf
    BY WhoAsks DEF ListProfiles, Asked, ToolInv, ToolOnly, world
<1>2. PICK n \in 0 .. Len(Shelf) : \E at \in [1 .. n -> DOMAIN Shelf] :
         /\ IsListing(at)
         /\ tool' = [tool EXCEPT !.todo = [i \in 1 .. n |-> <<"profile", Shelf[at[i]]>>] \o Tail(@),
                                 !.invalid = \E s \in Spots : shelf[s] # None /\ shelf[s].link]
    BY DEF ListProfiles
<1>3. PICK at \in [1 .. n -> DOMAIN Shelf] :
         /\ IsListing(at)
         /\ tool' = [tool EXCEPT !.todo = [i \in 1 .. n |-> <<"profile", Shelf[at[i]]>>] \o Tail(@),
                                 !.invalid = \E s \in Spots : shelf[s] # None /\ shelf[s].link]
    BY <1>2
<1>4. n \in Nat
    BY CandidateConstants
<1>5. tool.todo = << <<"list", None>>, <<"verdict", None>> >> /\ tool.ids = {} /\ tool.invalid = FALSE
    <2>1. ASSUME NEW m \in Nat, NEW bt, NEW k \in 1 .. m + 1, tool.todo = Rest(Listed(bt, m), k) PROVE FALSE
        <3>1. Len(Listed(bt, m)) = m + 1 /\ Len(Listed(bt, m)) \in Nat /\ k \in 1 .. Len(Listed(bt, m))
            <4>1. Len(Listed(bt, m)) = m + 1
                BY ListedFacts
            <4>2. QED BY <2>1, <4>1
        <3>2. Head(tool.todo) = Listed(bt, m)[k]
            BY <2>1, <3>1, RestMoves
        <3>3. k \in 1 .. m => Listed(bt, m)[k] = <<"profile", Shelf[bt[k]]>>
            BY ListedFacts
        <3>4. k = m + 1 => Listed(bt, m)[k] = <<"verdict", None>>
            BY ListedFacts
        <3>5. QED BY <1>1, <3>2, <3>3, <3>4 DEF Question
    <2>2. Len(Shelf) \in Nat
        BY CandidateConstants
    <2>3. QED BY <1>1, <2>1, <2>2 DEF ToolInv, ValidateInv
<1>6. Tail(tool.todo) = << <<"verdict", None>> >>
    BY <1>5
<1>7. PICK invalid \in BOOLEAN : invalid <=> \E s \in Spots : shelf[s] # None /\ shelf[s].link
    OBVIOUS
<1>8. PICK todo : todo = Listed(at, n)
    OBVIOUS
<1>9. tool' = [tool EXCEPT !.todo = todo, !.invalid = invalid]
    <2>1. invalid = \E s \in Spots : shelf[s] # None /\ shelf[s].link
        BY <1>7
    <2>2. todo = [i \in 1 .. n |-> <<"profile", Shelf[at[i]]>>] \o Tail(tool.todo)
        BY <1>6, <1>8 DEF Listed
    <2>3. QED BY <1>3, <2>1, <2>2
<1>10. /\ IsTool(tool') /\ tool'.todo = todo /\ tool'.invalid = invalid
       /\ \A x \in Fields \ {"todo", "invalid"} : tool'[x] = tool[x]
    BY <1>1, <1>9 DEF IsTool, Fields
<1>11. tool'.ids = {} /\ tool'.todo = Rest(Listed(at, n), 1)
    BY <1>4, <1>5, <1>8, <1>10, WholeListing DEF Fields
<1>12. ReadInv(at, 1)' /\ IsListing(at)'
    <2>1. 1 .. 1 - 1 = {}
        OBVIOUS
    <2>2. IsListing(at)'
        BY <1>1, <1>3 DEF IsListing
    <2>3. QED BY <1>1, <1>7, <1>10, <1>11, <2>1, <2>2 DEF ReadInv
<1>13. ValidateInv'
    <2>1. 1 \in 1 .. n + 1
        BY <1>4
    <2>2. QED BY <1>10, <1>11, <1>12, <2>1 DEF ValidateInv
<1>14. \A x \in Fields \ {"todo", "ids", "invalid"} : tool'[x] = tool[x]
    BY <1>10
<1>15. QED BY <1>1, <1>10, <1>13, <1>14, ValidatorGoesOn

\* What the parser takes of a profile file.
LEMMA ValidMeans ==
    ASSUME NEW t \in Texts
    PROVE  ValidProfile(t) <=> /\ t.defect \in {None, "format"} /\ t.min < t.max
                               /\ t.status = "qualified" => t.evidence = "complete"
<1>1. t.defect \in Defects \cup {None} /\ None \notin Defects
    BY CandidateConstants DEF Texts
<1>2. QED BY <1>1 DEF ValidProfile, WellFormed, SchemaSupported, WithinLimits, FieldsFilled, ConflictsSorted,
                  PciIdsNormal, RangeOrdered, ComponentsComplete, ProvidersExact, EvidenceComplete, Defects

\* One file more has been read.
LEMMA ReadOneMore ==
    ASSUME WorldInv, ToolInv, NEW n, NEW at, NEW k, ListingAt(n, at, k), k \in 1 .. n,
           IsListing(at), ReadInv(at, k), NEW t, t = shelf[Shelf[at[k]]],
           shelf' = shelf, tool.invalid \in BOOLEAN,
           \/ ValidProfile(t) /\ t.id \notin tool.ids /\ tool'.ids = tool.ids \cup {t.id}
                /\ tool'.invalid = tool.invalid
           \/ ~(ValidProfile(t) /\ t.id \notin tool.ids) /\ tool'.ids = tool.ids /\ tool'.invalid = TRUE
    PROVE  ReadInv(at, k + 1)'
<1> DEFINE id(j) == shelf[Shelf[at[j]]].id
           P(j) == Proper(Shelf[at[j]])
           Linked == \E s \in Spots : shelf[s] # None /\ shelf[s].link
           Repeated(m) == \E i, j \in 1 .. m : i # j /\ id(i) = id(j)
<1>1. 1 .. (k + 1) - 1 = (1 .. k - 1) \cup {k} /\ k \notin 1 .. k - 1
    OBVIOUS
<1>2. /\ tool.ids \subseteq {id(j) : j \in 1 .. k - 1}
      /\ tool.invalid <=> Linked \/ (\E j \in 1 .. k - 1 : ~P(j)) \/ Repeated(k - 1)
      /\ ~tool.invalid => tool.ids = {id(j) : j \in 1 .. k - 1}
    BY DEF ReadInv
<1>3. RegularFile(t)
    <2>1. k \in DOMAIN at
        BY DEF ListingAt
    <2>2. Shelf[at[k]] \in {s \in Spots : RegularFile(shelf[s])}
        BY <2>1 DEF IsListing
    <2>3. QED BY <2>2
<1>4. (P(k) <=> ValidProfile(t)) /\ id(k) = t.id
    BY <1>3 DEF Proper
<1> HIDE DEF id, P, Linked
<1>5. Repeated((k + 1) - 1) <=> Repeated(k - 1) \/ t.id \in {id(j) : j \in 1 .. k - 1}
    BY <1>1, <1>4
<1>6. (\E j \in 1 .. (k + 1) - 1 : ~P(j)) <=> (\E j \in 1 .. k - 1 : ~P(j)) \/ ~ValidProfile(t)
    BY <1>1, <1>4
<1>7. {id(j) : j \in 1 .. (k + 1) - 1} = {id(j) : j \in 1 .. k - 1} \cup {t.id}
    BY <1>1, <1>4
<1> HIDE DEF Repeated
<1>8. /\ tool'.ids \subseteq {id(j) : j \in 1 .. (k + 1) - 1}
      /\ tool'.invalid <=> Linked \/ (\E j \in 1 .. (k + 1) - 1 : ~P(j)) \/ Repeated((k + 1) - 1)
      /\ ~tool'.invalid => tool'.ids = {id(j) : j \in 1 .. (k + 1) - 1}
    <2>1. CASE /\ ValidProfile(t) /\ t.id \notin tool.ids /\ tool'.ids = tool.ids \cup {t.id}
               /\ tool'.invalid = tool.invalid
        BY <1>2, <1>5, <1>6, <1>7, <2>1
    <2>2. CASE ~(ValidProfile(t) /\ t.id \notin tool.ids) /\ tool'.ids = tool.ids /\ tool'.invalid = TRUE
        BY <1>2, <1>5, <1>6, <1>7, <2>2
    <2>3. QED BY <2>1, <2>2
<1>9. \A s : Proper(s)' <=> Proper(s)
    BY DEF Proper
<1>10. QED BY <1>8, <1>9 DEF ReadInv, id, P, Linked, Repeated

\* A file is read, or is gone.
LEMMA ReadProfileStep == ASSUME WorldInv, ToolInv, ReadProfile PROVE CandidateInv'
<1>1. /\ Running /\ Question = "profile" /\ tool.name = "validate" /\ IsTool(tool) /\ ToolOnly /\ shelf' = shelf
      /\ tool.quiet \in BOOLEAN
    BY WhoAsks DEF ReadProfile, Asked, ToolInv, ToolOnly, world
<1>2. PICK n, at, k : ListingAt(n, at, k)
    BY <1>1, ValidatorIsAt
<1>3. k \in 1 .. n /\ Subject = Shelf[at[k]] /\ n \in Nat
    BY <1>1, <1>2 DEF ListingAt
<1>4. PICK t : t = shelf[Subject]
    OBVIOUS
<1>5. CASE t = None /\ Refuses
    <2>1. tool' = [NoTool EXCEPT !.name = tool.name, !.to = tool.to, !.outcome = "refused",
                                 !.quiet = tool.quiet]
        BY <1>5 DEF Refuses, Ends
    <2>2. ToolInv' /\ tool'.name = tool.name /\ tool'.quiet = tool.quiet
        BY <1>1, <2>1, ToolEnds
    <2>3. ~tool.quiet
        <3>1. k \in DOMAIN at
            BY <1>2, <1>3 DEF ListingAt
        <3>2. IsListing(at) => RegularFile(t)
            <4>1. IsListing(at) => Shelf[at[k]] \in {s \in Spots : RegularFile(shelf[s])}
                BY <3>1 DEF IsListing
            <4>2. QED BY <1>3, <1>4, <4>1
        <3>3. QED BY <1>2, <1>5, <3>2 DEF ListingAt, RegularFile
    <2>4. GatesAreExact' /\ ValidatorIsExact'
        BY <1>1, <2>2, <2>3 DEF GatesAreExact, ValidatorIsExact
    <2>5. QED BY <1>1, <2>2, <2>4, WorldStays DEF CandidateInv, ToolOnly
<1>6. ASSUME NEW u, IsTool(u), u.todo = tool.todo, tool' = [u EXCEPT !.todo = Tail(@)],
             \A x \in Fields \ {"ids", "invalid"} : u[x] = tool[x],
             \/ ValidProfile(t) /\ t.id \notin tool.ids /\ u.ids = tool.ids \cup {t.id}
                  /\ u.invalid = tool.invalid
             \/ ~(ValidProfile(t) /\ t.id \notin tool.ids) /\ u.ids = tool.ids /\ u.invalid = TRUE
      PROVE  CandidateInv'
    <2>1. /\ IsTool(tool') /\ tool'.todo = Tail(tool.todo) /\ \A x \in Fields \ {"todo"} : tool'[x] = u[x]
        BY <1>6, GoesOn
    <2>2. /\ tool'.ids = u.ids /\ tool'.invalid = u.invalid /\ tool'.quiet = tool.quiet
          /\ \A x \in Fields \ {"todo", "ids", "invalid"} : tool'[x] = tool[x]
        BY <1>6, <2>1 DEF Fields
    <2>3. tool.quiet => IsListing(at) /\ ReadInv(at, k + 1)'
        <3>1. tool.quiet => IsListing(at) /\ ReadInv(at, k) /\ tool.invalid \in BOOLEAN
            BY <1>2 DEF ListingAt
        <3>2. t = shelf[Shelf[at[k]]]
            BY <1>3, <1>4
        <3>3. \/ ValidProfile(t) /\ t.id \notin tool.ids /\ tool'.ids = tool.ids \cup {t.id}
                   /\ tool'.invalid = tool.invalid
              \/ ~(ValidProfile(t) /\ t.id \notin tool.ids) /\ tool'.ids = tool.ids /\ tool'.invalid = TRUE
            BY <1>6, <2>2
        <3>4. QED BY <1>1, <1>2, <1>3, <3>1, <3>2, <3>3, ReadOneMore
    <2>4. tool'.invalid \in BOOLEAN /\ tool'.todo = Rest(Listed(at, n), k + 1)
        BY <1>2, <1>6, <2>1, <2>2 DEF ListingAt
    <2>5. IsListing(at)' <=> IsListing(at)
        BY <1>1 DEF IsListing
    <2>6. ValidateInv'
        <3>1. k + 1 \in 1 .. n + 1 /\ n \in 0 .. Len(Shelf) /\ at \in [1 .. n -> DOMAIN Shelf]
            BY <1>2, <1>3 DEF ListingAt
        <3>2. (tool.quiet => IsListing(at) /\ ReadInv(at, k + 1))'
            BY <2>2, <2>3, <2>5
        <3>3. QED BY <2>4, <3>1, <3>2 DEF ValidateInv
    <2>7. QED BY <1>1, <2>1, <2>2, <2>6, ValidatorGoesOn
<1>7. CASE ValidProfile(t) /\ ~RepeatedId(t.id) /\ Proceed([tool EXCEPT !.ids = @ \cup {t.id}])
    <2>1. PICK u : u = [tool EXCEPT !.ids = @ \cup {t.id}]
        OBVIOUS
    <2>2. IsTool(u) /\ u.ids = tool.ids \cup {t.id} /\ \A x \in Fields \ {"ids"} : u[x] = tool[x]
        BY <1>1, <2>1 DEF IsTool, Fields
    <2>3. u.invalid = tool.invalid /\ u.todo = tool.todo /\ tool' = [u EXCEPT !.todo = Tail(@)]
        BY <1>7, <2>1, <2>2 DEF Fields, Proceed
    <2>4. QED BY <1>6, <1>7, <2>2, <2>3 DEF RepeatedId
<1>8. CASE ~(ValidProfile(t) /\ ~RepeatedId(t.id)) /\ Proceed([tool EXCEPT !.invalid = TRUE])
    <2>1. PICK u : u = [tool EXCEPT !.invalid = TRUE]
        OBVIOUS
    <2>2. IsTool(u) /\ u.invalid = TRUE /\ \A x \in Fields \ {"invalid"} : u[x] = tool[x]
        BY <1>1, <2>1 DEF IsTool, Fields
    <2>3. u.ids = tool.ids /\ u.todo = tool.todo /\ tool' = [u EXCEPT !.todo = Tail(@)]
        BY <1>8, <2>1, <2>2 DEF Fields, Proceed
    <2>4. QED BY <1>6, <1>8, <2>2, <2>3 DEF RepeatedId
<1>9. QED BY <1>4, <1>5, <1>7, <1>8 DEF ReadProfile

\* The verdict is the right one.
LEMMA VerdictStep == ASSUME WorldInv, ToolInv, ConcludeValidation PROVE CandidateInv'
<1>1. /\ Running /\ Question = "verdict" /\ tool.name = "validate" /\ ToolOnly /\ shelf' = shelf
      /\ tool.quiet \in BOOLEAN
    BY WhoAsks DEF ConcludeValidation, Asked, ToolInv, ToolOnly, world
<1>2. PICK n, at, k : ListingAt(n, at, k)
    BY <1>1, ValidatorIsAt
<1>3. k = n + 1 /\ n \in Nat /\ tool.invalid \in BOOLEAN /\ DOMAIN at = 1 .. n
      /\ at \in [1 .. n -> DOMAIN Shelf]
    BY <1>1, <1>2 DEF ListingAt
<1>4. PICK outcome \in {"accepted", "refused"} : outcome = IF tool.invalid THEN "refused" ELSE "accepted"
    BY <1>3
<1>5. tool' = [NoTool EXCEPT !.name = tool.name, !.to = tool.to, !.outcome = outcome, !.quiet = tool.quiet]
    BY <1>4 DEF ConcludeValidation, Ends
<1>6. ToolInv' /\ tool'.name = "validate" /\ tool'.outcome = outcome /\ tool'.quiet = tool.quiet
    BY <1>1, <1>5, ToolEnds
<1> DEFINE There == {s \in Spots : shelf[s] # None}
           Sound(t) == /\ ~t.link /\ t.defect \in {None, "format"} /\ t.min < t.max
                       /\ t.status = "qualified" => t.evidence = "complete"
<1>7. ASSUME tool.quiet
      PROVE  ~tool.invalid <=> /\ \A s \in There : Sound(shelf[s])
                               /\ \A r, s \in There : r # s => shelf[r].id # shelf[s].id
    <2>1. IsListing(at) /\ ReadInv(at, k)
        BY <1>2, <1>7 DEF ListingAt
    <2>2. /\ {Shelf[at[i]] : i \in 1 .. n} = {s \in Spots : RegularFile(shelf[s])}
          /\ \A i, j \in 1 .. n : i < j => at[i] < at[j]
        BY <1>3, <2>1 DEF IsListing
    <2>3. k - 1 = n
        BY <1>3
    <2>4. tool.invalid <=> \/ \E s \in Spots : shelf[s] # None /\ shelf[s].link
                           \/ \E j \in 1 .. n : ~Proper(Shelf[at[j]])
                           \/ \E i, j \in 1 .. n : i # j /\ shelf[Shelf[at[i]]].id = shelf[Shelf[at[j]]].id
        BY <2>1, <2>3 DEF ReadInv
    <2>5. \A s \in There : shelf[s] \in Texts
        BY DEF WorldInv, IsShelf
    <2>6. ASSUME ~tool.invalid, NEW s \in There
          PROVE  Sound(shelf[s]) /\ \E j \in 1 .. n : s = Shelf[at[j]]
        <3>1. ~shelf[s].link
            BY <2>4, <2>6
        <3>2. PICK j \in 1 .. n : s = Shelf[at[j]]
            <4>1. s \in {r \in Spots : RegularFile(shelf[r])}
                BY <3>1 DEF RegularFile
            <4>2. QED BY <2>2, <4>1
        <3>3. Proper(s)
            BY <2>4, <2>6, <3>2
        <3>4. Sound(shelf[s])
            BY <2>5, <3>1, <3>3, ValidMeans DEF Proper
        <3>5. QED BY <3>2, <3>4
    <2>7. ASSUME ~tool.invalid, NEW r \in There, NEW s \in There, r # s PROVE shelf[r].id # shelf[s].id
        <3>1. PICK i \in 1 .. n : r = Shelf[at[i]]
            BY <2>6, <2>7
        <3>2. PICK j \in 1 .. n : s = Shelf[at[j]]
            BY <2>6, <2>7
        <3>3. QED BY <2>4, <2>7, <3>1, <3>2
    <2>8. ASSUME \A s \in There : Sound(shelf[s]), \A r, s \in There : r # s => shelf[r].id # shelf[s].id
          PROVE  ~tool.invalid
        <3>1. ~(\E s \in Spots : shelf[s] # None /\ shelf[s].link)
            BY <2>8
        <3>2. ASSUME NEW j \in 1 .. n PROVE Proper(Shelf[at[j]]) /\ Shelf[at[j]] \in There
            <4>1. Shelf[at[j]] \in {s \in Spots : RegularFile(shelf[s])}
                BY <2>2
            <4>2. Shelf[at[j]] \in There /\ RegularFile(shelf[Shelf[at[j]]])
                BY <4>1 DEF RegularFile
            <4>3. QED BY <2>5, <2>8, <4>2, ValidMeans DEF Proper
        <3>3. ASSUME NEW i \in 1 .. n, NEW j \in 1 .. n, i # j
              PROVE  shelf[Shelf[at[i]]].id # shelf[Shelf[at[j]]].id
            <4>1. at[i] # at[j]
                <5>1. at[i] \in DOMAIN Shelf /\ at[j] \in DOMAIN Shelf /\ DOMAIN Shelf \subseteq Nat
                    BY <1>3, CandidateConstants
                <5>2. i < j \/ j < i
                    BY <3>3
                <5>3. QED BY <2>2, <5>1, <5>2
            <4>2. at[i] \in DOMAIN Shelf /\ at[j] \in DOMAIN Shelf
                BY <1>3
            <4>3. Shelf[at[i]] # Shelf[at[j]]
                BY <4>1, <4>2, CandidateConstants
            <4>4. QED BY <2>8, <3>2, <4>3
        <3>4. QED BY <2>4, <3>1, <3>2, <3>3
    <2>9. QED BY <2>6, <2>7, <2>8
<1>8. ValidatorIsExact'
    BY <1>1, <1>4, <1>6, <1>7 DEF ValidatorIsExact
<1>9. GatesAreExact'
    BY <1>6 DEF GatesAreExact
<1>10. QED BY <1>1, <1>6, <1>8, <1>9, WorldStays DEF CandidateInv, ToolOnly

-----------------------------------------------------------------------------
(* Starts.                                                                 *)

\* At first all of an agenda is left.
LEMMA WholeAgenda ==
    ASSUME NEW A, NEW L \in Nat \ {0}, Len(A) = L, A = [k \in 1 .. L |-> A[k]]
    PROVE  Rest(A, 1) = A /\ 1 \in 1 .. Len(A) /\ Rest(A, 1) # <<>>
<1>1. Rest(A, 1) = [i \in 1 .. L + 1 - 1 |-> A[i + 1 - 1]]
    BY DEF Rest
<1>2. L + 1 - 1 = L /\ \A i \in 1 .. L : i + 1 - 1 = i
    OBVIOUS
<1>3. Rest(A, 1) = A
    <2>1. [i \in 1 .. L + 1 - 1 |-> A[i + 1 - 1]] = [k \in 1 .. L |-> A[k]]
        BY <1>2
    <2>2. QED BY <1>1, <2>1
<1>4. Len(<<>>) = 0
    OBVIOUS
<1>5. QED BY <1>3, <1>4

\* A gate that starts has asked nothing yet.
LEMMA GateStarts ==
    ASSUME WorldInv, rpms # Nothing, UNCHANGED <<rpms, extracted>>, WorldInv',
           IsTool(tool'), tool'.name \in Gates, tool'.outcome = "none", tool'.quiet = TRUE,
           tool'.text = None, tool'.from = None, tool'.seen = NoAnswers,
           tool'.swaps = [p \in Packages |-> 0], tool'.to \in Spots \cup {None},
           tool'.name = "generate" => tool'.to \in Spots, tool'.todo = Agenda'
    PROVE  CandidateInv'
<1>1. IsDirectory(rpms)' /\ IsRoot(extracted)'
    BY DEF WorldInv, IsDirectory, IsRoot
<1>2. PICK L \in Nat \ {0} : Len(Agenda') = L /\ Agenda' = [k \in 1 .. L |-> Agenda'[k]]
    <2>1. CASE tool'.name = "generate"
        <3>1. PICK D \in Nat : D = Len(Directory)
            BY Packaged
        <3>2. GenerateLaid(GenerateAgenda(tool'.to), tool'.to, D)
            BY <3>1, GenerateOrder
        <3>3. PICK A : A = GenerateAgenda(tool'.to)
            OBVIOUS
        <3>4. Len(A) = 8 * D + 7 /\ A = [k \in 1 .. 8 * D + 7 |-> A[k]] /\ Agenda' = A
            BY <2>1, <3>2, <3>3 DEF GenerateLaid, Agenda
        <3>5. 8 * D + 7 \in Nat \ {0}
            OBVIOUS
        <3>6. QED BY <3>4, <3>5
    <2>2. CASE tool'.name = "pair"
        BY <2>2, PairFacts DEF Agenda
    <2>3. CASE tool'.name = "family"
        <3>1. PICK F \in Nat : F = Len(Family)
            BY Packaged
        <3>2. FamilyLaid(FamilyAgenda, F)
            BY <3>1, FamilyOrder
        <3>3. PICK A : A = FamilyAgenda
            OBVIOUS
        <3>4. Len(A) = 5 * F + 1 + 2 * F /\ A = [k \in 1 .. 5 * F + 1 + 2 * F |-> A[k]] /\ Agenda' = A
            BY <2>3, <3>2, <3>3 DEF FamilyLaid, Agenda
        <3>5. 5 * F + 1 + 2 * F \in Nat \ {0}
            OBVIOUS
        <3>6. QED BY <3>4, <3>5
    <2>4. QED BY <2>1, <2>2, <2>3 DEF Gates
<1>3. Rest(Agenda', 1) = Agenda' /\ 1 \in 1 .. Len(Agenda') /\ Agenda' # <<>>
    <2>1. PICK A : A = Agenda'
        OBVIOUS
    <2>2. Rest(A, 1) = A /\ 1 \in 1 .. Len(A) /\ Rest(A, 1) # <<>>
        BY <1>2, <2>1, WholeAgenda
    <2>3. QED BY <2>1, <2>2
<1>4. 1 .. 1 - 1 = {}
    OBVIOUS
<1>5. \A p \in Packages, q \in Questions : tool'.seen[p][q] = None
    BY DEF NoAnswers
<1>6. /\ tool'.seen \in Known /\ tool'.swaps \in [Packages -> Nat]
    BY DEF Known, Answers, NoAnswers
<1>7. Answered(1)' /\ Undisturbed'
    BY <1>4, <1>5 DEF Answered, Undisturbed, Before
<1>8. Rehashed'
    <2>1. "digest" \in Questions
        BY DEF Questions
    <2>2. QED BY <1>5, <2>1 DEF Rehashed
<1>9. Drafted(1)' /\ Compared(1)'
    BY <1>4 DEF Drafted, Compared, After, Before
<1>10. GateInv(1)'
    BY <1>6, <1>7, <1>8, <1>9 DEF GateInv
<1>11. \E k \in 1 .. Len(Agenda') : tool'.todo = Rest(Agenda', k) /\ GateInv(k)'
    BY <1>3, <1>10
<1>12. ToolInv'
    BY <1>1, <1>11 DEF ToolInv, Running, Gates
<1>13. QED BY <1>12, Unended DEF CandidateInv

\* The gates and the generator start.
LEMMA StartGateStep ==
    ASSUME WorldInv, StartPair \/ StartFamily \/ StartGenerate(Shelf[1])
    PROVE  CandidateInv'
<1>1. rpms # Nothing /\ UNCHANGED world /\ UNCHANGED <<rpms, extracted>> /\ UNCHANGED <<receipts, edits>>
    BY DEF StartPair, StartFamily, StartGenerate, Untouched, ToolOnly, world
<1>2. CASE StartPair \/ StartFamily
    <2>1. PICK name \in {"pair", "family"} :
            tool' = Started(name, IF name = "pair" THEN PairAgenda ELSE FamilyAgenda)
        BY <1>2 DEF StartPair, StartFamily
    <2>a. PICK todo : todo = IF name = "pair" THEN PairAgenda ELSE FamilyAgenda
        OBVIOUS
    <2>2. /\ IsTool(tool') /\ tool'.name = name /\ tool'.todo = todo /\ tool'.outcome = "none"
          /\ tool'.quiet = TRUE /\ tool'.text = None /\ tool'.from = None /\ tool'.to = None
          /\ tool'.seen = NoAnswers /\ tool'.swaps = [p \in Packages |-> 0]
        <3>1. tool' = Started(name, todo)
            BY <2>1, <2>a
        <3>2. QED BY <3>1 DEF IsTool, NoTool, Started, Fields
    <2>3. WorldInv'
        BY <1>2, WorldStays DEF StartPair, StartFamily, ToolOnly
    <2>4. tool'.todo = Agenda'
        BY <2>1, <2>a, <2>2 DEF Agenda
    <2>5. QED BY <1>1, <2>1, <2>2, <2>3, <2>4, GateStarts DEF Gates
<1>3. CASE StartGenerate(Shelf[1])
    <2>1. PICK to \in Spots : to = Shelf[1]
        BY CandidateConstants DEF Spots
    <2>2. PICK t : t = Started("generate", GenerateAgenda(to))
        OBVIOUS
    <2>3. /\ IsTool(t) /\ t.name = "generate" /\ t.todo = GenerateAgenda(to) /\ t.outcome = "none"
          /\ t.quiet = TRUE /\ t.text = None /\ t.from = None
          /\ t.seen = NoAnswers /\ t.swaps = [p \in Packages |-> 0]
        BY <2>2 DEF IsTool, NoTool, Started, Fields
    <2>4. tool' = [t EXCEPT !.to = to]
        BY <1>3, <2>1, <2>2 DEF StartGenerate
    <2>5. IsTool(tool') /\ tool'.to = to /\ \A x \in Fields \ {"to"} : tool'[x] = t[x]
        BY <2>3, <2>4 DEF IsTool, Fields
    <2>6. /\ tool'.name = "generate" /\ tool'.todo = GenerateAgenda(to) /\ tool'.outcome = "none"
          /\ tool'.quiet = TRUE /\ tool'.text = None /\ tool'.from = None
          /\ tool'.seen = NoAnswers /\ tool'.swaps = [p \in Packages |-> 0]
        BY <2>3, <2>5 DEF Fields
    <2>7. tool'.todo = Agenda'
        BY <2>5, <2>6 DEF Agenda
    <2>8. WorldInv'
        <3>1. runs' \in 0 .. MaxRuns
            BY <1>3, CandidateConstants DEF StartGenerate, Untouched
        <3>2. QED BY <1>1, <3>1 DEF WorldInv, world, IsDirectory, IsRoot, IsShelf
    <2>9. QED BY <1>1, <2>5, <2>6, <2>7, <2>8, GateStarts DEF Gates
<1>4. QED BY <1>2, <1>3

\* Neither retarget nor validate look at the RPMs.
LEMMA StartOtherStep ==
    ASSUME WorldInv, NEW name \in {"retarget", "validate"}, IsTool(tool'), tool'.name = name,
           tool'.outcome = "none", tool'.quiet = TRUE, tool'.text = None, tool'.to = None,
           name = "retarget" => RetargetInv', name = "validate" => ValidateInv',
           ForgetRpms, runs < MaxRuns, runs' = runs + 1, UNCHANGED <<receipts, edits>>
    PROVE  CandidateInv'
<1>1. runs' \in 0 .. MaxRuns
    BY CandidateConstants DEF WorldInv
<1>2. WorldInv'
    BY <1>1 DEF WorldInv, ForgetRpms, IsShelf
<1>3. ToolInv'
    BY DEF ToolInv, Running, Gates
<1>4. QED BY <1>2, <1>3, Unended DEF CandidateInv

\* retarget-candidate is started.
LEMMA StartRetargetStep ==
    ASSUME WorldInv, NEW from \in Spots, NEW to \in Spots, NEW id \in {"generated", "retargeted"},
           NEW release \in Releases, StartRetarget(from, to, id, release)
    PROVE  CandidateInv'
<1>1. PICK todo : todo = << <<"read", from>>, <<"create", to>>, <<"write", to>>, <<"sync", to>> >>
    OBVIOUS
<1>2. tool' = [NoTool EXCEPT !.name = "retarget", !.id = id, !.release = release, !.todo = todo]
    BY <1>1 DEF StartRetarget
<1>3. /\ IsTool(tool') /\ tool'.name = "retarget" /\ tool'.id = id /\ tool'.release = release
      /\ tool'.todo = todo /\ tool'.outcome = "none" /\ tool'.quiet = TRUE /\ tool'.text = None
      /\ tool'.to = None
    BY <1>2 DEF IsTool, NoTool, Fields
<1>4. RetargetInv'
    <2>1. Head(todo)[1] = "read"
        BY <1>1
    <2>2. QED BY <1>1, <1>3, <2>1 DEF RetargetInv
<1>5. QED BY <1>3, <1>4, StartOtherStep DEF StartRetarget

\* validate-profiles is started.
LEMMA StartValidateStep == ASSUME WorldInv, StartValidate PROVE CandidateInv'
<1>1. PICK todo : todo = << <<"list", None>>, <<"verdict", None>> >>
    OBVIOUS
<1>2. tool' = [NoTool EXCEPT !.name = "validate", !.todo = todo]
    BY <1>1 DEF StartValidate
<1>3. /\ IsTool(tool') /\ tool'.name = "validate" /\ tool'.ids = {} /\ tool'.invalid = FALSE
      /\ tool'.todo = todo /\ tool'.outcome = "none" /\ tool'.quiet = TRUE /\ tool'.text = None
      /\ tool'.to = None
    BY <1>2 DEF IsTool, NoTool, Fields
<1>4. ValidateInv'
    BY <1>1, <1>3 DEF ValidateInv
<1>5. QED BY <1>3, <1>4, StartOtherStep DEF StartValidate

-----------------------------------------------------------------------------
(* What disturbs a tool.                                                   *)

\* Nothing is said of a disturbed tool's verdict.
LEMMA TroubleStep == ASSUME WorldInv, ToolInv, Trouble PROVE CandidateInv'
<1>1. tool' = [NoTool EXCEPT !.name = tool.name, !.to = tool.to, !.outcome = "refused", !.quiet = FALSE]
    BY DEF Trouble
<1>2. ToolInv' /\ tool'.quiet = FALSE
    BY <1>1, ToolEnds
<1>3. WorldInv'
    BY WorldStays DEF Trouble, ToolOnly
<1>4. QED BY <1>2, <1>3 DEF CandidateInv, GatesAreExact, ValidatorIsExact

\* A tool that others disturb is where it was.
LEMMA ToolDisturbed ==
    ASSUME ToolInv, IsTool(tool'), tool'.quiet = FALSE,
           \A x \in Fields \ {"quiet", "swaps"} : tool'[x] = tool[x],
           Running /\ tool.name \in Gates =>
                /\ IsDirectory(rpms)' /\ IsRoot(extracted)'
                /\ tool.swaps \in [Packages -> Nat] => tool'.swaps \in [Packages -> Nat]
                /\ tool.name = "generate" /\ Rehashed /\ tool.swaps \in [Packages -> Nat] => Rehashed'
    PROVE  ToolInv' /\ GatesAreExact' /\ ValidatorIsExact'
<1>1. /\ tool'.name = tool.name /\ tool'.todo = tool.todo /\ tool'.outcome = tool.outcome
      /\ tool'.seen = tool.seen /\ tool'.sources = tool.sources /\ tool'.lock = tool.lock
      /\ tool'.from = tool.from /\ tool'.text = tool.text /\ tool'.to = tool.to /\ tool'.id = tool.id
      /\ tool'.release = tool.release /\ tool'.ids = tool.ids /\ tool'.invalid = tool.invalid
    BY DEF Fields
<1>2. Agenda' = Agenda /\ (Running' <=> Running)
    BY <1>1 DEF Agenda, Running
<1>3. ASSUME NEW k, GateInv(k), Running, tool.name \in Gates PROVE GateInv(k)'
    <2>1. \A q, p : Passes(q, p, tool.seen[p])' <=> Passes(q, p, tool.seen[p])
        BY <1>1 DEF Passes
    <2>2. Answered(k)'
        BY <1>1, <1>2, <1>3, <2>1 DEF GateInv, Answered
    <2>3. Undisturbed'
        BY DEF Undisturbed
    <2>4. tool.name = "generate" => Drafted(k)'
        <3>1. Pinned(tool.text)' <=> Pinned(tool.text)
            BY <1>1 DEF Pinned
        <3>2. QED BY <1>1, <1>2, <1>3, <3>1 DEF GateInv, Drafted
    <2>5. tool.name = "family" => Compared(k)'
        BY <1>1, <1>2, <1>3 DEF GateInv, Compared
    <2>6. QED BY <1>1, <1>3, <2>2, <2>3, <2>4, <2>5 DEF GateInv
<1>4. RetargetInv => RetargetInv'
    <2>1. Recorded(tool.from, tool.text)' <=> Recorded(tool.from, tool.text)
        BY <1>1 DEF Recorded, Pinned
    <2>2. QED BY <1>1, <2>1 DEF RetargetInv
<1>5. ValidateInv => ValidateInv'
    BY <1>1 DEF ValidateInv
<1>6. Running /\ tool.name \in Gates => \E k \in 1 .. Len(Agenda') : tool'.todo = Rest(Agenda', k) /\ GateInv(k)'
    BY <1>1, <1>2, <1>3 DEF ToolInv
<1>7. ToolInv'
    BY <1>1, <1>2, <1>4, <1>5, <1>6 DEF ToolInv
<1>8. QED BY <1>7 DEF GatesAreExact, ValidatorIsExact

\* Others change something else than RPMs.
LEMMA OthersDisturb ==
    ASSUME ToolInv, Disturbed, rpms' = rpms, WorldInv',
           Running /\ tool.name \in Gates => IsRoot(extracted)'
    PROVE  CandidateInv'
<1>1. IsTool(tool)
    BY DEF ToolInv
<1>2. IsTool(tool') /\ tool'.quiet = FALSE /\ \A x \in Fields \ {"quiet"} : tool'[x] = tool[x]
    BY <1>1, GetsDisturbed DEF Disturbed
<1>3. tool'.swaps = tool.swaps /\ tool'.seen = tool.seen
    BY <1>2 DEF Fields
<1>4. Rehashed' <=> Rehashed
    <2>1. \A p : Steady(p)' <=> Steady(p)
        BY <1>3 DEF Steady
    <2>2. QED BY <1>3, <2>1 DEF Rehashed
<1>5. Running /\ tool.name \in Gates => IsDirectory(rpms)'
    BY DEF ToolInv, IsDirectory
<1>6. ToolInv' /\ GatesAreExact' /\ ValidatorIsExact'
    BY <1>2, <1>3, <1>4, <1>5, ToolDisturbed
<1>7. QED BY <1>6 DEF CandidateInv

\* The bound on what others change.
LEMMA MeddlingIsBounded == ASSUME WorldInv, Meddles PROVE edits' \in 0 .. MaxEdits
BY CandidateConstants DEF WorldInv, Meddles

\* An RPM is built again.
LEMMA RebuildStep == ASSUME WorldInv, ToolInv, NEW p \in Packages, Rebuild(p) PROVE CandidateInv'
<1>1. /\ Running /\ Question \in Questions /\ tool.name \in Gates /\ IsDirectory(rpms) /\ IsRoot(extracted)
      /\ IsTool(tool) /\ UNCHANGED <<extracted, lock, shelf>> /\ UNCHANGED <<receipts, runs>>
    BY WhoAsks DEF Rebuild, ToolInv, Meddles
<1>2. PICK f \in RpmFiles(p) \cup {None} : f # rpms[p] /\ rpms' = [rpms EXCEPT ![p] = f]
    <2>1. Fresh \in RpmFiles(p)
        <3>1. 1 \in 1 .. Builds
            BY PackageConstants
        <3>2. QED BY <3>1 DEF Fresh, RpmFiles
    <2>2. QED BY <2>1 DEF Rebuild
<1>3. IsDirectory(rpms)'
    BY <1>1, <1>2 DEF IsDirectory
<1>4. IsRoot(extracted)'
    BY <1>1 DEF IsRoot
<1>5. WorldInv'
    BY <1>1, <1>3, <1>4, MeddlingIsBounded DEF WorldInv, Rebuild, IsShelf
<1>6. /\ rpms'[p] = f /\ \A q \in Packages \ {p} : rpms'[q] = rpms[q]
    BY <1>1, <1>2 DEF IsDirectory
<1>7. PICK swaps : swaps = [tool.swaps EXCEPT ![p] = @ + 1]
    OBVIOUS
<1>8. /\ IsTool(tool') /\ tool'.quiet = FALSE /\ tool'.swaps = swaps
      /\ \A x \in Fields \ {"quiet", "swaps"} : tool'[x] = tool[x]
    <2>1. tool' = [tool EXCEPT !.swaps = swaps, !.quiet = FALSE]
        BY <1>7 DEF Rebuild
    <2>2. QED BY <1>1, <2>1 DEF IsTool, Fields
<1>9. ASSUME tool.swaps \in [Packages -> Nat]
      PROVE  /\ tool'.swaps \in [Packages -> Nat] /\ tool'.swaps[p] = tool.swaps[p] + 1
             /\ \A q \in Packages \ {p} : tool'.swaps[q] = tool.swaps[q]
    BY <1>7, <1>8, <1>9
<1>10. ASSUME Rehashed, tool.swaps \in [Packages -> Nat] PROVE Rehashed'
    <2>1. tool'.seen = tool.seen
        BY <1>8 DEF Fields
    <2>2. \A q : Steady(q)' <=> Steady(q)
        BY <2>1 DEF Steady
    <2>3. \A q \in Packages : Hashed(q)
        BY <1>10 DEF Rehashed, Hashed
    <2>4. ASSUME NEW q \in Packages \ {p} PROVE Hashed(q)'
        BY <1>6, <1>9, <1>10, <2>1, <2>2, <2>3 DEF Hashed
    <2>5. Hashed(p)'
        <3>1. tool'.swaps[p] <= 1 => tool.swaps[p] = 0 /\ tool'.swaps[p] = 1
            BY <1>9, <1>10
        <3>2. Hashed(p) /\ rpms'[p] # rpms[p]
            BY <1>2, <1>6, <2>3
        <3>3. QED BY <2>1, <2>2, <3>1, <3>2 DEF Hashed
    <2>6. \A q \in Packages : Hashed(q)'
        BY <2>4, <2>5
    <2>7. QED BY <2>6 DEF Rehashed, Hashed
<1>11. ToolInv' /\ GatesAreExact' /\ ValidatorIsExact'
    BY <1>3, <1>4, <1>8, <1>9, <1>10, ToolDisturbed
<1>12. QED BY <1>5, <1>11 DEF CandidateInv

\* The payload is extracted again.
LEMMA ReExtractStep == ASSUME WorldInv, ToolInv, NEW p \in Family1, ReExtract(p) PROVE CandidateInv'
<1>1. /\ Running /\ Question \in {"payload", "elf"} /\ tool.name \in Gates /\ IsDirectory(rpms)
      /\ IsRoot(extracted) /\ Disturbed /\ UNCHANGED <<rpms, lock, shelf>> /\ UNCHANGED <<receipts, runs>>
    BY WhoAsks DEF ReExtract, ToolInv, Meddles
<1>2. PICK f \in RpmFiles(p) \cup {None} : extracted' = [extracted EXCEPT ![p] = f]
    <2>1. rpms[p] \in RpmFiles(p) \cup {None}
        BY <1>1, Families DEF IsDirectory
    <2>2. QED BY <2>1 DEF ReExtract
<1>3. IsRoot(extracted)' /\ IsDirectory(rpms)'
    BY <1>1, <1>2 DEF IsRoot, IsDirectory
<1>4. WorldInv'
    BY <1>1, <1>3, MeddlingIsBounded DEF WorldInv, ReExtract, IsShelf
<1>5. QED BY <1>1, <1>3, <1>4, OthersDisturb

\* The lock is edited.
LEMMA EditLockStep == ASSUME WorldInv, ToolInv, EditLock PROVE CandidateInv'
<1>1. /\ Disturbed /\ UNCHANGED <<rpms, extracted, shelf>> /\ UNCHANGED <<receipts, runs>>
      /\ lock' \in {None, 1, 2}
    BY DEF EditLock, Meddles
<1>2. WorldInv'
    BY <1>1, MeddlingIsBounded DEF WorldInv, EditLock, IsShelf, IsDirectory, IsRoot
<1>3. Running /\ tool.name \in Gates => IsRoot(extracted)'
    BY <1>1 DEF ToolInv, IsRoot
<1>4. QED BY <1>1, <1>2, <1>3, OthersDisturb

\* A profile file is edited, removed or put there.
LEMMA EditProfileStep == ASSUME WorldInv, ToolInv, NEW s \in Spots, EditProfile(s) PROVE CandidateInv'
<1>1. /\ Disturbed /\ UNCHANGED <<rpms, extracted, lock>> /\ UNCHANGED <<receipts, runs>>
    BY DEF EditProfile, Meddles
<1>2. PICK t \in Texts \cup {None} : shelf' = [shelf EXCEPT ![s] = t]
    <2>1. \A r \in Spots : shelf[r] \in Texts \cup {None}
        BY DEF WorldInv, IsShelf
    <2>2. shelf[s] # None => Edited(shelf[s]) \subseteq Texts \cup {None}
        BY <2>1, EditsAreTexts
    <2>3. {Foreign} \cup {shelf[r] : r \in Spots} \subseteq Texts \cup {None}
        BY <2>1, ForeignIsText
    <2>4. QED BY <2>2, <2>3 DEF EditProfile
<1>3. IsShelf(shelf)'
    BY <1>2 DEF WorldInv, IsShelf
<1>4. WorldInv'
    BY <1>1, <1>3, MeddlingIsBounded DEF WorldInv, EditProfile, IsDirectory, IsRoot
<1>5. Running /\ tool.name \in Gates => IsRoot(extracted)'
    BY <1>1 DEF ToolInv, IsRoot
<1>6. QED BY <1>1, <1>4, <1>5, OthersDisturb

-----------------------------------------------------------------------------

\* Whatever tools and others do keeps the invariant.
LEMMA CandidateStep == ASSUME CandidateInv, CandidateNext PROVE CandidateInv'
<1>1. WorldInv /\ ToolInv
    BY DEF CandidateInv
<1>2. CASE Begin
    BY <1>1, <1>2, StartGateStep, StartValidateStep, StartRetargetStep DEF Begin
<1>3. CASE Tool
    BY <1>1, <1>3, LookStep, JudgeFamilyStep, OutputStep, ReadLockStep, ListEntriesStep, JudgeSetStep,
       PublishStep, PrintRecordStep, RetargetStep, CreateOutputStep, WriteOutputStep, ListProfilesStep,
       ReadProfileStep, VerdictStep, TroubleStep DEF Tool
<1>4. CASE Others
    BY <1>1, <1>4, RebuildStep, ReExtractStep, EditLockStep, EditProfileStep DEF Others, Family1
<1>5. QED BY <1>2, <1>3, <1>4 DEF CandidateNext

-----------------------------------------------------------------------------
(* What the invariant says.                                                *)

\* At first nothing has been asked.
LEMMA CandidatesBegin == ASSUME CandidateInit PROVE CandidateInv
<1>1. \A p \in Packages : Fresh \in RpmFiles(p)
    <2>1. 1 \in 1 .. Builds
        BY PackageConstants
    <2>2. QED BY <2>1 DEF Fresh, RpmFiles
<1>2. PICK q \in Packages : \E f \in RpmFiles(q) : rpms = [p \in Packages |-> IF p = q THEN f ELSE Fresh]
    BY DEF CandidateInit
<1>3. IsDirectory(rpms)
    <2>1. PICK f \in RpmFiles(q) : rpms = [p \in Packages |-> IF p = q THEN f ELSE Fresh]
        BY <1>2
    <2>2. QED BY <1>1, <2>1 DEF IsDirectory
<1>4. IsRoot(extracted)
    <2>1. CASE extracted = [p \in Family1 |-> rpms[p]]
        BY <1>3, <2>1, Families DEF IsDirectory, IsRoot
    <2>2. ASSUME NEW q0 \in Family1,
                 extracted = [p \in Family1 |-> IF p = q0 THEN [Fresh EXCEPT !.build = Builds] ELSE Fresh]
          PROVE  IsRoot(extracted)
        <3>1. Builds \in 1 .. Builds
            BY PackageConstants
        <3>2. \A p \in Family1 : [Fresh EXCEPT !.build = Builds] \in RpmFiles(p) /\ Fresh \in RpmFiles(p)
            BY <1>1, <3>1, Families DEF Fresh, RpmFiles
        <3>3. PICK g : g = [Fresh EXCEPT !.build = Builds]
            OBVIOUS
        <3>4. \A p \in Family1 : g \in RpmFiles(p) /\ Fresh \in RpmFiles(p)
            BY <3>2, <3>3
        <3>5. extracted = [p \in Family1 |-> IF p = q0 THEN g ELSE Fresh]
            BY <2>2, <3>3
        <3>6. QED BY <3>4, <3>5 DEF IsRoot
    <2>3. QED BY <2>1, <2>2 DEF CandidateInit, Family1
<1>5. WorldInv
    <2>1. edits \in 0 .. MaxEdits /\ runs \in 0 .. MaxRuns
        BY CandidateConstants DEF CandidateInit
    <2>2. lock \in {None, 1, 2} /\ receipts = {} /\ IsShelf(shelf)
        BY DEF CandidateInit, IsShelf
    <2>3. QED BY <1>3, <1>4, <2>1, <2>2 DEF WorldInv
<1>6. ToolInv /\ GatesAreExact /\ ValidatorIsExact
    BY NoToolIsTool DEF CandidateInit, ToolInv, Running, GatesAreExact, ValidatorIsExact
<1>7. QED BY <1>5, <1>6 DEF CandidateInv

\* What the generator has published is sound.
LEMMA PublishedSoundly == ASSUME WorldInv, ToolInv PROVE PublishedIsSound
<1> SUFFICES ASSUME tool.name = "generate", Asked("sync"), NEW p \in Packages, tool.swaps[p] <= 1
             PROVE  LET f == tool.seen[p]["digest"]
                    IN /\ \A q \in Questions \ {"file"} : tool.seen[p][q] \in {None, f}
                       /\ f.flaw \notin FoundByGenerator(p) \ {"irregular"}
    BY DEF PublishedIsSound
<1>1. PICK k, L \in Nat : At(k, L) /\ GeneratorAt(k)
    BY GeneratorIsAt DEF Asked
<1>2. /\ \A s \in Packages, r \in InspectQuestions : Before(Agenda, k, r, s)
      /\ After(Agenda, k, "set") /\ \A s : ~Before(Agenda, k, "provides", s)
    BY <1>1, GenerateAt DEF Asked
<1>3. /\ CompleteSet(tool.seen) /\ \A s \in Providers : tool.seen[s]["files"].flaw # "crowded"
      /\ Answered(k) /\ Hashed(p)
    BY <1>1, <1>2 DEF GeneratorAt, At, GateInv, Rehashed, Hashed
<1>4. PICK f : f = tool.seen[p]["digest"]
    OBVIOUS
<1>5. {"digest", "again"} \subseteq InspectQuestions /\ InspectQuestions \subseteq Questions
    BY QuestionSets DEF InspectQuestions
<1>6. ASSUME NEW r \in InspectQuestions
      PROVE  /\ tool.seen[p][r] \in RpmFiles(p) /\ tool.seen[p][r] # None
             /\ Inspects(r, tool.seen[p][r], tool.seen[p])
    <2>1. tool.seen[p][r] \in RpmFiles(p) /\ Passes(r, p, tool.seen[p])
        BY <1>2, <1>3, <1>5 DEF Answered
    <2>2. tool.seen[p][r] # None
        BY <2>1, PackageConstants
    <2>3. QED BY <2>1, <2>2 DEF Passes
<1>7. Steady(p)
    BY <1>3, <1>5, <1>6 DEF Hashed
<1>8. \A q \in Questions \ {"file"} : tool.seen[p][q] \in {None, f}
    BY <1>4, <1>7 DEF Steady
<1>9. \A r \in InspectQuestions \ {"file"} : tool.seen[p][r] = f /\ Inspects(r, f, tool.seen[p])
    BY <1>5, <1>6, <1>8
<1>10. f \in RpmFiles(p)
    BY <1>4, <1>5, <1>6
<1>11. f.flaw \notin FoundByGenerator(p) \ {"irregular"}
    BY <1>3, <1>9, <1>10, NothingFound
<1>12. QED BY <1>4, <1>8, <1>11

\* No tool changes a profile file that it did not make.
KeepsOutputs ==
    edits' = edits /\ tool' # NoTool =>
         \A s \in Spots : \/ shelf[s] \in {None, shelf'[s]}
                          \/ Asked("write") /\ Subject = s /\ shelf[s] = Unwritten

\* So do all the steps of tools and others.
LEMMA OutputsKept == ASSUME WorldInv, CandidateNext PROVE KeepsOutputs
<1>1. CASE shelf' = shelf
    BY <1>1 DEF KeepsOutputs
<1>2. ASSUME NEW to, NEW text, Persist(to, text) PROVE KeepsOutputs
    BY <1>2 DEF Persist, KeepsOutputs, WorldInv, IsShelf
<1>3. CASE WriteOutput
    <2>1. PICK to : to = Subject
        OBVIOUS
    <2>2. shelf' = IF shelf[to] = Unwritten THEN [shelf EXCEPT ![to] = tool.text] ELSE shelf
        BY <1>3, <2>1 DEF WriteOutput
    <2>3. CASE shelf[to] = Unwritten
        <3>1. \A s \in Spots : s # to => shelf'[s] = shelf[s]
            BY <2>2, <2>3 DEF WorldInv, IsShelf
        <3>2. QED BY <1>3, <2>1, <2>3, <3>1 DEF KeepsOutputs, WriteOutput
    <2>4. CASE shelf[to] # Unwritten
        BY <1>1, <2>2, <2>4
    <2>5. QED BY <2>3, <2>4
<1>4. CASE Meddles
    BY <1>4 DEF KeepsOutputs, Meddles, WorldInv
<1>5. CASE Begin
    BY <1>1, <1>5 DEF Begin, StartPair, StartFamily, StartValidate, StartGenerate, StartRetarget,
                      ToolOnly, world, ForgetRpms
<1>6. CASE Tool
    BY <1>1, <1>2, <1>3, <1>6
       DEF Tool, Look, JudgeFamily, OutputIsFree, ReadLock, ListEntries, JudgeSet, Publish, PrintRecord,
           Retarget, CreateOutput, ListProfiles, ReadProfile, ConcludeValidation, Trouble, ToolOnly, world
<1>7. CASE Others
    BY <1>4, <1>7 DEF Others, Rebuild, ReExtract, EditLock, EditProfile
<1>8. QED BY <1>5, <1>6, <1>7 DEF CandidateNext

\* The digests that are pinned are of drafts that go back to one run of the generator.
Rooted(t) ==
    /\ Pinned(t)
    /\ \E r \in receipts : /\ r.from = None
                           /\ r.text.bound = t.bound /\ r.text.lock = t.lock /\ r.text.sources = t.sources

\* A digest that is pinned is of such a draft.
LEMMA TracedIsRooted == ASSUME WorldInv PROVE \A t \in Traced : Rooted(t)
<1> DEFINE G == {r.text : r \in {r \in receipts : r.from = None}}
           N(texts) == texts \cup {r.text : r \in {r \in receipts : r.from \in texts}}
<1>1. \A r \in receipts : Recorded(r.from, r.text)
    BY DEF WorldInv
<1>2. \A t \in G : Rooted(t)
    BY <1>1 DEF Rooted, Recorded
<1>3. ASSUME NEW texts, \A t \in texts : Rooted(t) PROVE \A t \in N(texts) : Rooted(t)
    <2>1. ASSUME NEW r \in receipts, r.from \in texts PROVE Rooted(r.text)
        <3>1. Rooted(r.from) /\ Recorded(r.from, r.text)
            BY <1>1, <1>3, <2>1
        <3>2. r.from # None
            BY <3>1, TextsExist DEF Rooted, Pinned
        <3>3. QED BY <3>1, <3>2 DEF Rooted, Recorded
    <2>2. QED BY <1>3, <2>1
<1>4. Traced = N(N(G))
    BY DEF Traced
<1> HIDE DEF G, N
<1>5. \A t \in N(G) : Rooted(t)
    BY <1>2, <1>3
<1>6. \A t \in N(N(G)) : Rooted(t)
    BY <1>3, <1>5
<1>7. QED BY <1>4, <1>6

-----------------------------------------------------------------------------
(* Profiles and sessions together.                                         *)

\* Nothing has been inspected yet.
Uninspected ==
    /\ system = HealthySystem
    /\ query = [n \in Names |-> Unasked]
    /\ hash = [f \in Paths |-> "unread"]
    /\ owned = [f \in Paths |-> "unasked"]
    /\ provider = <<>>
    /\ checks = [i \in Ids |-> "none"]
    /\ reboot = FALSE /\ unsafe = FALSE
    /\ before = NoSnapshot
    /\ native = [m \in Helpers |-> Idle]
    /\ early = 0 /\ late = 0 /\ faulted = FALSE

\* As long as tools work on profiles no session has begun.
SessionWaits ==
    /\ Uninspected
    /\ inputs = NoInputs /\ command = "status" /\ root = FALSE
    /\ pc = "done" /\ verdict = "none" /\ phase = "inspect"
    /\ wasHealthy = TRUE /\ wasReady = TRUE
    /\ handed = None

\* A collection that read a file of another digest.
CollectRefused ==
    /\ Uninspected
    /\ inputs = NoInputs /\ Collecting /\ root \in BOOLEAN
    /\ pc = "done" /\ verdict = "refused" /\ phase = "preflight"
    /\ wasHealthy = HealthyIn(system) /\ wasReady = ReadyIn(system)

FilesPutAway ==
    /\ rpms = Nothing /\ extracted = Nothing /\ shelf = Nothing
    /\ lock = None /\ tool = NoTool
    /\ receipts = {} /\ edits = 0 /\ runs = 0

QualificationInv ==
    IF NoSession THEN SessionWaits /\ CandidateInv
    ELSE FilesPutAway /\ IInv /\ FInv /\ handed \in {None} \cup Texts

\* Before anything is inspected everything has its type.
LEMMA UninspectedIsTyped ==
    ASSUME Uninspected, inputs = NoInputs, command \in {"status", "doctor", "preflight", "probe"},
           root \in BOOLEAN, pc = "done", verdict \in {"none", "refused"},
           phase \in {"preflight", "inspect"}, wasHealthy \in BOOLEAN, wasReady \in BOOLEAN
    PROVE  TypeOK
<1>1. system \in Systems
    <2>1. ASSUME NEW f \in Paths PROVE Package[CHOOSE c \in Components : f \in Files[c]] \in Names
        <3>1. \E c \in Components : f \in Files[c]
            BY Parts
        <3>2. (CHOOSE c \in Components : f \in Files[c]) \in Components
            BY <3>1
        <3>3. QED BY <3>2, Parts
    <2>2. 1 \in 0 .. MaxBusy
        BY InspectionConstants
    <2>3. QED BY <2>1, <2>2 DEF Uninspected, HealthySystem, Systems, Versions, Contents, Nodes
<1>2. native \in [Helpers -> HelperStates]
    <2>1. Idle \in HelperStates
        BY InspectionConstants DEF HelperStates, Idle, Stages, Reports
    <2>2. QED BY <2>1 DEF Uninspected
<1>3. before \in [shown : BOOLEAN, busy : 0 .. MaxBusy]
    BY InspectionConstants DEF Uninspected, NoSnapshot
<1>4. provider \in Seq({"pass", "fail"}) /\ Len(provider) <= Len(Capabilities)
    BY Parts DEF Uninspected
<1>5. /\ query \in [Names -> [answer : Versions \cup {"unasked", "failed"}, recent : BOOLEAN]]
      /\ hash \in [Paths -> Contents \cup {"unread", "failed"}]
      /\ owned \in [Paths -> Names \cup {"unasked", "failed"}]
      /\ checks \in [Ids -> {"none", "pass", "warn", "fail", "blocked"}]
    BY DEF Uninspected, Unasked
<1>6. early \in 0 .. MaxEarly /\ late \in 0 .. MaxLate
    BY InspectionConstants DEF Uninspected
<1>7. reboot \in BOOLEAN /\ unsafe \in BOOLEAN /\ faulted \in BOOLEAN
    BY DEF Uninspected
<1>8. QED BY <1>1, <1>2, <1>3, <1>4, <1>5, <1>6, <1>7 DEF TypeOK, HelperStates

\* A refused collection is a session that has ended.
LEMMA RefusedIsRight == CollectRefused => IInv /\ FInv
<1> SUFFICES ASSUME CollectRefused PROVE IInv /\ FInv
    OBVIOUS
<1>1. HealthyIn(system) \in BOOLEAN /\ ReadyIn(system) \in BOOLEAN
    BY DEF HealthyIn, ReadyIn, PackagesHealthyIn, RebootPendingIn
<1>2. TypeOK
    BY <1>1, UninspectedIsTyped DEF CollectRefused, Collecting
<1>3. /\ native \in [Helpers -> HelperStates] /\ \A m \in Helpers : native[m] = Idle
      /\ \A m \in Helpers : HelperFits(m, native[m])
    BY <1>2 DEF CollectRefused, Uninspected, TypeOK, HelperStates, HelperFits, Idle
<1>4. StageInv /\ JudgeInv
    BY Parts DEF CollectRefused, Uninspected, StageInv, JudgeInv, DevicesSeen, Ids
<1>5. HelperInv
    BY <1>3, HelperByState
<1>6. LaunchInv
    BY <1>3 DEF CollectRefused, Uninspected, LaunchInv, Idle, Ids, Helpers
<1>7. CheckInv
    BY DEF CollectRefused, CheckInv, DevicesSeen, ExitsZero
<1>8. late = 0 /\ ~Looking /\ ~AllPassed /\ ~SeenNode
    BY Parts DEF CollectRefused, Uninspected, Looking, AllPassed, SeenNode, Ids
<1>9. AgreeInv
    BY <1>8 DEF CollectRefused, AgreeInv
<1>10. StuckInv
    BY <1>8 DEF CollectRefused, StuckInv
<1>11. FInv
    BY DEF CollectRefused, Uninspected, FInv, FreshInv, FairInv, Fair, Ids
<1>12. QED BY <1>2, <1>4, <1>5, <1>6, <1>7, <1>9, <1>10, <1>11 DEF IInv

\* The invariant holds at first.
LEMMA QualificationBegins == QualificationInit => QualificationInv
<1> SUFFICES ASSUME QualificationInit PROVE QualificationInv
    OBVIOUS
<1>1. CandidateInv
    BY CandidatesBegin DEF QualificationInit
<1>2. SessionWaits
    BY DEF QualificationInit, SessionWaits, Uninspected
<1>3. QED BY <1>1, <1>2 DEF QualificationInit, QualificationInv, NoSession

\* However a session begins, its invariant holds.
LEMMA BeginsRight == Init \/ CollectRefused => IInv /\ FInv
BY StartsRight, FairBegins, RefusedIsRight

\* A command starts inspecting.
LEMMA SessionBegins ==
    ASSUME SessionWaits, Begins, PutAway, handed' \in {None} \cup Texts,
           command' \in {"status", "doctor", "preflight", "probe"}, root' \in BOOLEAN,
           \/ inputs' \in Requests /\ pc' = "select" /\ verdict' = verdict
           \/ Collecting' /\ inputs' = inputs /\ pc' = "done" /\ verdict' = "refused"
    PROVE  QualificationInv'
<1>1. Uninspected'
    BY DEF SessionWaits, Uninspected, Begins, caches
<1>2. /\ phase' = (IF Collecting' THEN "preflight" ELSE "inspect")
      /\ wasHealthy' = HealthyIn(system)' /\ wasReady' = ReadyIn(system)'
    BY DEF Begins
<1>3. (Init \/ CollectRefused)'
    <2>1. CASE inputs' \in Requests /\ pc' = "select" /\ verdict' = verdict
        <3>1. Init'
            BY <1>1, <1>2, <2>1 DEF SessionWaits, Uninspected, Init
        <3>2. QED BY <3>1
    <2>2. CASE Collecting' /\ inputs' = inputs /\ pc' = "done" /\ verdict' = "refused"
        <3>1. CollectRefused'
            BY <1>1, <1>2, <2>2 DEF SessionWaits, CollectRefused
        <3>2. QED BY <3>1
    <2>3. QED BY <2>1, <2>2
<1>4. IInv' /\ FInv'
    BY <1>3, BeginsRight, PTL
<1>5. ~NoSession'
    BY DEF NoSession, SessionWaits
<1>6. FilesPutAway'
    BY DEF PutAway, FilesPutAway, NoTool, Nothing
<1>7. QED BY <1>4, <1>5, <1>6 DEF QualificationInv

\* Tools and others leave the sessions alone.
LEMMA WorkStep == ASSUME QualificationInv, ProfileWork PROVE QualificationInv'
<1>1. NoSession /\ SessionWaits /\ CandidateInv /\ CandidateNext /\ UNCHANGED vars /\ handed' = handed
    BY DEF QualificationInv, ProfileWork
<1>2. CandidateInv'
    BY <1>1, CandidateStep
<1>3. NoSession' /\ SessionWaits'
    BY <1>1 DEF vars, NoSession, SessionWaits, Uninspected
<1>4. QED BY <1>2, <1>3 DEF QualificationInv

\* status or doctor begins.
LEMMA PublicStep == ASSUME QualificationInv, StartPublic PROVE QualificationInv'
<1>1. SessionWaits
    BY DEF QualificationInv, StartPublic
<1>2. QED BY <1>1, SessionBegins DEF StartPublic, SessionWaits

\* A text that is taken for collection is a request for its kernel window.
LEMMA RequestIsTyped ==
    ASSUME NEW t \in Texts, ValidProfile(t), NEW accept \in BOOLEAN, NEW platform \in BOOLEAN,
           NEW kernel \in Kernels
    PROVE  [channel |-> "stable", accept |-> accept, kernel |-> kernel,
            profiles |-> [p \in Profiles |->
                [status |-> t.status, platform |-> platform, min |-> t.min, max |-> t.max]]] \in Requests
<1>1. t.min \in Kernels /\ t.max \in Kernels /\ t.min < t.max
    BY QualificationConstants DEF Texts, ValidProfile, RangeOrdered
<1>2. t.status \in {"candidate", "experimental", "qualified", "deprecated"}
    BY DEF Texts
<1>3. PICK r : r = [status |-> t.status, platform |-> platform, min |-> t.min, max |-> t.max]
    OBVIOUS
<1>4. r \in ProfileRecords
    BY <1>1, <1>2, <1>3 DEF ProfileRecords
<1>5. [p \in Profiles |-> r] \in [Profiles -> ProfileRecords]
    BY <1>4
<1>6. QED BY <1>3, <1>5 DEF Requests

\* collect-candidate begins, or refuses the file it has read.
LEMMA CollectStep == ASSUME QualificationInv, StartCollect PROVE QualificationInv'
<1>1. SessionWaits /\ WorldInv
    BY DEF QualificationInv, StartCollect, CandidateInv
<1>2. PICK s \in Spots, pin \in Traced :
         IF DigestMatches(shelf[s], pin)
         THEN /\ \E accept, platform \in BOOLEAN, kernel \in Kernels :
                   inputs' = [channel |-> "stable", accept |-> accept, kernel |-> kernel,
                              profiles |-> [p \in Profiles |->
                                  [status |-> shelf[s].status, platform |-> platform,
                                   min |-> shelf[s].min, max |-> shelf[s].max]]]
              /\ pc' = "select"
              /\ handed' = shelf[s]
              /\ UNCHANGED verdict
         ELSE /\ pc' = "done" /\ verdict' = "refused"
              /\ UNCHANGED <<inputs, handed>>
    BY DEF StartCollect
<1>3. /\ Begins /\ PutAway /\ Collecting' /\ root' \in BOOLEAN
      /\ command' \in {"status", "doctor", "preflight", "probe"}
    BY DEF StartCollect, Collecting
<1>4. CASE DigestMatches(shelf[s], pin)
    <2>1. shelf[s] \in Texts /\ ValidProfile(shelf[s])
        BY <1>1, <1>4 DEF DigestMatches, RegularFile, WorldInv, IsShelf
    <2>2. inputs' \in Requests
        BY <1>2, <1>4, <2>1, RequestIsTyped
    <2>3. handed' \in {None} \cup Texts /\ pc' = "select" /\ verdict' = verdict
        BY <1>2, <1>4, <2>1
    <2>4. QED BY <1>1, <1>3, <2>2, <2>3, SessionBegins
<1>5. CASE ~DigestMatches(shelf[s], pin)
    BY <1>1, <1>2, <1>3, <1>5, SessionBegins DEF SessionWaits
<1>6. QED BY <1>4, <1>5

\* A session never looks as if it had not begun.
LEMMA SessionRemains == ASSUME IInv, ~NoSession, Next PROVE ~NoSession'
<1>1. CASE Refuse \/ SelectProfile \/ CollectCandidate
    BY <1>1 DEF Refuse, SelectProfile, CollectCandidate, SelectionDone, NoSession
<1>2. CASE Inspect
    BY <1>2 DEF Inspect, QueryPackage, HashFile, QueryOwner, JudgeProvider, PackagesInspected,
                PreflightIsReport, PreflightPassed, NoSession, Examining
<1>3. CASE ListNodes \/ OpenNodes \/ SampleBefore \/ SampleAfter
    BY <1>3 DEF ListNodes, OpenNodes, SampleBefore, SampleAfter, NoSession
<1>4. CASE Run
    BY <1>4 DEF Run, Launch, LaunchFails, TakeReport, RefuseReport, LoseHelper, SkipOpenVino, Launched,
                Helpers, Concluded, LevelZeroConcluded, OpenVinoConcluded, NoSession
<1>5. CASE Report
    BY <1>5 DEF Report, Verdict, NoSession
<1>6. CASE \E m \in Helpers : Helper(m)
    BY <1>6 DEF Helper, Discover, Place, Infer, ReportInference, HelperFails, HelperStep, session, NoSession
<1>7. CASE DisturbEarly \/ DisturbLate
    BY <1>7 DEF DisturbEarly, DisturbLate, session, NoSession
<1>8. CASE Finished
    BY <1>8 DEF Finished, vars, NoSession
<1>9. QED BY <1>1, <1>2, <1>3, <1>4, <1>5, <1>6, <1>7, <1>8 DEF Next, Session

\* The session goes on.
LEMMA SessionStep ==
    ASSUME QualificationInv, ~NoSession, Next, handed' = None, UNCHANGED candidateVars
    PROVE  QualificationInv'
<1>1. FilesPutAway /\ IInv /\ FInv
    BY DEF QualificationInv
<1>2. IInv' /\ FInv' /\ ~NoSession'
    BY <1>1, StaysRight, FairKeeps, SessionRemains
<1>3. FilesPutAway'
    BY <1>1 DEF FilesPutAway, candidateVars
<1>4. QED BY <1>2, <1>3 DEF QualificationInv

\* Nothing changes.
LEMMA CandidatesRest == ASSUME CandidateInv, UNCHANGED candidateVars PROVE CandidateInv'
<1>1. /\ rpms' = rpms /\ extracted' = extracted /\ lock' = lock /\ shelf' = shelf /\ tool' = tool
      /\ receipts' = receipts /\ edits' = edits /\ runs' = runs
    BY DEF candidateVars
<1>2. WorldInv'
    BY <1>1 DEF CandidateInv, WorldInv, IsDirectory, IsRoot, IsShelf
<1>3. /\ Running' = Running /\ Agenda' = Agenda
      /\ IsTool(tool)' = IsTool(tool) /\ IsDirectory(rpms)' = IsDirectory(rpms)
      /\ IsRoot(extracted)' = IsRoot(extracted)
    BY <1>1 DEF Running, Agenda, IsTool, IsDirectory, IsRoot
<1>4. ASSUME NEW k PROVE GateInv(k)' <=> GateInv(k)
    <2>1. \A q, p, a : Passes(q, p, a)' <=> Passes(q, p, a)
        BY <1>1 DEF Passes
    <2>2. Answered(k)' <=> Answered(k)
        BY <1>1, <1>3, <2>1 DEF Answered
    <2>3. (Undisturbed' <=> Undisturbed) /\ (Drafted(k)' <=> Drafted(k)) /\ (Compared(k)' <=> Compared(k))
        BY <1>1, <1>3 DEF Undisturbed, Drafted, Compared
    <2>4. Rehashed' <=> Rehashed
        <3>1. \A p : Steady(p)' <=> Steady(p)
            BY <1>1 DEF Steady
        <3>2. QED BY <1>1, <3>1 DEF Rehashed
    <2>5. QED BY <1>1, <2>2, <2>3, <2>4 DEF GateInv
<1>5. (RetargetInv' <=> RetargetInv) /\ (ValidateInv' <=> ValidateInv)
    <2>1. \A at, k : ReadInv(at, k)' <=> ReadInv(at, k)
        <3>1. \A s : Proper(s)' <=> Proper(s)
            BY <1>1 DEF Proper
        <3>2. QED BY <1>1, <3>1 DEF ReadInv
    <2>2. \A at : IsListing(at)' <=> IsListing(at)
        BY <1>1 DEF IsListing
    <2>3. ValidateInv' <=> ValidateInv
        BY <1>1, <2>1, <2>2 DEF ValidateInv
    <2>4. RetargetInv' <=> RetargetInv
        BY <1>1 DEF RetargetInv
    <2>5. QED BY <2>3, <2>4
<1>6. ToolInv'
    BY <1>1, <1>3, <1>4, <1>5 DEF CandidateInv, ToolInv
<1>7. GatesAreExact' /\ ValidatorIsExact'
    BY <1>1 DEF CandidateInv, GatesAreExact, ValidatorIsExact
<1>8. QED BY <1>2, <1>6, <1>7 DEF CandidateInv

\* Every step keeps the invariant.
LEMMA QualificationStays ==
    QualificationInv /\ [QualificationNext]_qualificationVars => QualificationInv'
<1> SUFFICES ASSUME QualificationInv, [QualificationNext]_qualificationVars PROVE QualificationInv'
    OBVIOUS
<1>1. CASE UNCHANGED qualificationVars
    <2>1. UNCHANGED vars /\ UNCHANGED candidateVars /\ handed' = handed /\ (NoSession' <=> NoSession)
        BY <1>1 DEF qualificationVars, vars, NoSession
    <2>2. CASE NoSession
        <3>1. SessionWaits /\ CandidateInv
            BY <2>2 DEF QualificationInv
        <3>2. SessionWaits'
            BY <2>1, <3>1 DEF vars, SessionWaits, Uninspected
        <3>3. CandidateInv'
            BY <2>1, <3>1, CandidatesRest
        <3>4. QED BY <2>1, <2>2, <3>2, <3>3 DEF QualificationInv
    <2>3. CASE ~NoSession
        <3>1. FilesPutAway /\ IInv /\ FInv /\ handed \in {None} \cup Texts
            BY <2>3 DEF QualificationInv
        <3>2. IInv' /\ FInv'
            BY <2>1, <3>1, StaysRight, FairKeeps
        <3>3. FilesPutAway'
            BY <2>1, <3>1 DEF FilesPutAway, candidateVars
        <3>4. QED BY <2>1, <2>3, <3>1, <3>2, <3>3 DEF QualificationInv
    <2>4. QED BY <2>2, <2>3
<1>2. CASE ProfileWork
    BY <1>2, WorkStep
<1>3. CASE StartPublic
    BY <1>3, PublicStep
<1>4. CASE StartCollect
    BY <1>4, CollectStep
<1>5. CASE ~NoSession /\ Next /\ handed' = None /\ UNCHANGED candidateVars
    BY <1>5, SessionStep
<1>6. QED BY <1>1, <1>2, <1>3, <1>4, <1>5 DEF QualificationNext

-----------------------------------------------------------------------------
(* What holds of profiles and sessions.                                    *)

\* Whoever inspects and whatever is made of profiles, the invariant holds.
THEOREM QualificationIsRight == QualificationSpec => []QualificationInv
<1>1. QualificationInit => QualificationInv
    BY QualificationBegins
<1>2. QualificationInv /\ [QualificationNext]_qualificationVars => QualificationInv'
    BY QualificationStays
<1>3. QED BY <1>1, <1>2, PTL DEF QualificationSpec

\* What the invariant says of the session, whether one has begun or not.
LEMMA SessionIsRight == QualificationInv => TypeOK /\ ExitZeroWasEarned /\ HealthyExitsZero
<1> SUFFICES ASSUME QualificationInv PROVE TypeOK /\ ExitZeroWasEarned /\ HealthyExitsZero
    OBVIOUS
<1>1. CASE NoSession
    <2>1. SessionWaits
        BY <1>1 DEF QualificationInv
    <2>2. TypeOK
        BY <2>1, UninspectedIsTyped DEF SessionWaits
    <2>3. ExitZeroWasEarned /\ HealthyExitsZero
        BY <2>1 DEF SessionWaits, Uninspected, ExitZeroWasEarned, HealthyExitsZero, ExitsZero, Ids
    <2>4. QED BY <2>2, <2>3
<1>2. CASE ~NoSession
    <2>1. IInv /\ FInv
        BY <1>2 DEF QualificationInv
    <2>2. TypeOK /\ ExitZeroWasEarned
        BY <2>1, Earned DEF IInv
    <2>3. HealthyExitsZero
        BY <2>1 DEF FInv, FairInv, Fair, SeenFair, ChecksFair, HealthyExitsZero
    <2>4. QED BY <2>2, <2>3
<1>3. QED BY <1>1, <1>2

\* What the invariant says of the profiles, before and after they are put away.
LEMMA ProfilesAreRight ==
    QualificationInv => /\ CandidateTypeOK /\ handed \in {None} \cup Texts
                        /\ PublishedIsSound /\ GatesAreExact /\ ValidatorIsExact
<1> SUFFICES ASSUME QualificationInv
             PROVE  /\ CandidateTypeOK /\ handed \in {None} \cup Texts
                    /\ PublishedIsSound /\ GatesAreExact /\ ValidatorIsExact
    OBVIOUS
<1>1. CASE NoSession
    <2>1. SessionWaits /\ WorldInv /\ ToolInv /\ GatesAreExact /\ ValidatorIsExact
        BY <1>1 DEF QualificationInv, CandidateInv
    <2>2. \A r \in receipts : r.text \in Texts /\ (r.from = None \/ r.from \in Texts)
        BY <2>1 DEF WorldInv, Recorded, Pinned
    <2>3. CandidateTypeOK
        BY <2>1, <2>2 DEF WorldInv, ToolInv, IsDirectory, IsRoot, IsShelf, Family1, CandidateTypeOK
    <2>4. PublishedIsSound
        BY <2>1, PublishedSoundly
    <2>5. QED BY <2>1, <2>3, <2>4 DEF SessionWaits
<1>2. CASE ~NoSession
    <2>1. FilesPutAway /\ handed \in {None} \cup Texts
        BY <1>2 DEF QualificationInv
    <2>2. CandidateTypeOK
        BY <2>1, CandidateConstants DEF FilesPutAway, NoTool, CandidateTypeOK
    <2>3. PublishedIsSound /\ GatesAreExact /\ ValidatorIsExact
        BY <2>1 DEF FilesPutAway, NoTool, Asked, Running, PublishedIsSound, GatesAreExact, ValidatorIsExact
    <2>4. QED BY <2>1, <2>2, <2>3
<1>3. QED BY <1>1, <1>2

\* Type correctness of tools, files and sessions (xtask's subcommands, stack-cli's run).
THEOREM QualificationTyped == QualificationSpec => []QualificationTypeOK
<1>1. QualificationInv => QualificationTypeOK
    BY SessionIsRight, ProfilesAreRight DEF QualificationTypeOK
<1>2. QED BY <1>1, QualificationIsRight, PTL

\* generate_candidate publishes only what it has read twice alike and found without a flaw:
\* of every package that changed once at most meanwhile, one file, for any number of packages.
THEOREM SoundnessOfPublished == QualificationSpec => []PublishedIsSound
<1>1. QualificationInv => PublishedIsSound
    BY ProfilesAreRight
<1>2. QED BY <1>1, QualificationIsRight, PTL

\* Undisturbed, inspect_pair, inspect_family and generate_candidate find every flaw that is
\* theirs to find, and refuse nothing else.
THEOREM ExactnessOfGates == QualificationSpec => []GatesAreExact
<1>1. QualificationInv => GatesAreExact
    BY ProfilesAreRight
<1>2. QED BY <1>1, QualificationIsRight, PTL

\* Undisturbed, validate-profiles accepts a directory exactly if all of it is in order, in
\* whatever order the directory is listed.
THEOREM ExactnessOfValidator == QualificationSpec => []ValidatorIsExact
<1>1. QualificationInv => ValidatorIsExact
    BY ProfilesAreRight
<1>2. QED BY <1>1, QualificationIsRight, PTL

\* Exit 0 is earned (finalize), whether a release's profile is used or a collected one.
THEOREM QualifiedByExitZero == QualificationSpec => [](ExitZeroWasEarned /\ HealthyExitsZero)
<1>1. QualificationInv => ExitZeroWasEarned /\ HealthyExitsZero
    BY SessionIsRight
<1>2. QED BY <1>1, QualificationIsRight, PTL

\* persist_noclobber and create_new: no tool replaces or removes a file it did not make.
THEOREM ToolsKeepOutputs == QualificationSpec => OutputsAreKept
<1>1. QualificationInv /\ [QualificationNext]_qualificationVars => KeepsOutputs \/ UNCHANGED candidateVars
    <2> SUFFICES ASSUME QualificationInv, [QualificationNext]_qualificationVars
                 PROVE  KeepsOutputs \/ UNCHANGED candidateVars
        OBVIOUS
    <2>1. CASE ProfileWork
        <3>1. WorldInv /\ CandidateNext
            BY <2>1 DEF ProfileWork, QualificationInv, CandidateInv
        <3>2. QED BY <3>1, OutputsKept
    <2>2. CASE StartPublic \/ StartCollect
        BY <2>2 DEF StartPublic, StartCollect, PutAway, KeepsOutputs
    <2>3. CASE UNCHANGED qualificationVars \/ UNCHANGED candidateVars
        BY <2>3 DEF qualificationVars
    <2>4. QED BY <2>1, <2>2, <2>3 DEF QualificationNext
<1>2. QualificationSpec => [][KeepsOutputs]_candidateVars
    BY <1>1, QualificationIsRight, PTL DEF QualificationSpec
<1>3. QED BY <1>2, PTL DEF OutputsAreKept, KeepsOutputs

\* The text is whole and unqualified, for one kernel release, and bound to one run's record.
IsPinned(t) ==
    /\ ~t.link /\ t.defect = None
    /\ t.status = "candidate" /\ t.evidence = "absent"
    /\ t.max = t.min + 1
    /\ \E r \in receipts : /\ r.from = None
                           /\ r.text.bound = t.bound
                           /\ r.text.lock = t.lock /\ r.text.sources = t.sources

\* collect-candidate inspects this host only with what generate-fedora-profile and
\* retarget-candidate recorded, however many retargetings lie between.
THEOREM CollectionIsPinned == QualificationSpec => CollectedIsPinned
<1>1. QualificationInv /\ [QualificationNext]_qualificationVars =>
        (handed' # None => IsPinned(handed')) \/ UNCHANGED qualificationVars
    <2> SUFFICES ASSUME QualificationInv, QualificationNext, handed' # None PROVE IsPinned(handed')
        OBVIOUS
    <2>1. NoSession /\ (StartCollect \/ handed' = handed)
        <3>1. StartCollect => NoSession
            BY DEF StartCollect
        <3>2. QED BY <3>1 DEF QualificationNext, ProfileWork, StartPublic, qualificationVars
    <2>2. handed = None /\ WorldInv
        BY <2>1 DEF QualificationInv, SessionWaits, CandidateInv
    <2>3. StartCollect
        BY <2>1, <2>2
    <2>4. PICK s \in Spots, pin \in Traced : DigestMatches(shelf[s], pin) /\ handed' = shelf[s]
        BY <2>2, <2>3 DEF StartCollect
    <2>5. handed' = pin /\ Rooted(pin)
        BY <2>2, <2>4, TracedIsRooted DEF DigestMatches
    <2>6. QED BY <2>5 DEF Rooted, Pinned, IsPinned
<1>2. QualificationSpec => [][handed' # None => IsPinned(handed')]_qualificationVars
    BY <1>1, QualificationIsRight, PTL DEF QualificationSpec
<1>3. QED BY <1>2, PTL DEF CollectedIsPinned, IsPinned
=============================================================================
