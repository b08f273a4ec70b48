---------------------------- MODULE CctpMessage ----------------------------
(***************************************************************************)
(* The bytes Circle signs for a burn with the Wotta hook, as the router    *)
(* reads them (cctp_codec.cairo) and as the API and the web client do      *)
(* (codecs/cctp.ts, codecs/hook.ts).  A value of w bytes is the sequence   *)
(* of its w big-endian bytes, so a read is a SubSeq at an offset and a     *)
(* conversion to a narrower type a condition on the leading bytes.  The    *)
(* encoders are those of the tests of either language and of the burn      *)
(* plans; f holds what they are given, an address or a felt in 32 bytes.   *)
(***************************************************************************)
EXTENDS Integers, Sequences

LOCAL INSTANCE SequencesExt

CONSTANT Inputs   \* what the encoders are given

Zeros(n) == [i \in 1..n |-> 0]
Small(v, width) == Zeros(width - 2) \o <<v \div 256, v % 256>>

BodyOffset == 148
HookOffset == 228
HeaderLength == 7
HookLength == 129
WrapperLength == HeaderLength + HookLength
MessageLength == BodyOffset + HookOffset + WrapperLength
StarknetDomain == Small(25, 4)
CctpMagic == <<67, 67, 84, 80>>
WottMagic == <<87, 79, 84, 84>>

-----------------------------------------------------------------------------
(* The types of Cairo a value must fit in. *)

Below(a, b) == \E i \in DOMAIN a : a[i] < b[i] /\ SubSeq(a, 1, i - 1) = SubSeq(b, 1, i - 1)

\* 2^251 + 17 * 2^192 + 1
Prime == <<8>> \o Zeros(6) \o <<17>> \o Zeros(23) \o <<1>>

IsFelt(b) == Below(b, Prime)
IsAddress(b) == b[1] < 8
Fits(b, width) == SubSeq(b, 1, Len(b) - width) = Zeros(Len(b) - width)
Narrow(b, width) == SubSeq(b, Len(b) - width + 1, Len(b))
Wide(b) == Zeros(32 - Len(b)) \o b

-----------------------------------------------------------------------------
(* cctp_codec.cairo *)

Encodable(f) == /\ Fits(f.intentId, 16) /\ Fits(f.denominationCode, 2)
                /\ Fits(f.manifestVersion, 2)

EncodeForTest(f) ==
    FlattenSeq(<<
        Zeros(4), f.sourceDomain, f.destinationDomain, Small(9, 32), Small(291, 32),
        f.recipient, f.destinationCaller, Zeros(4), Zeros(4),
        Zeros(4), Small(1110, 32), f.mintRecipient, Wide(f.amount), Small(291, 32),
        Zeros(32), Zeros(32), Zeros(32),
        CctpMagic, <<1>>, Small(HookLength, 2),
        WottMagic, <<1>>, Narrow(f.intentId, 16), Narrow(f.denominationCode, 2),
        f.escrowPool, f.claimHash, f.publicRefundRecipient, f.expiresAt,
        Narrow(f.manifestVersion, 2) >>)

At(m, offset, width) == SubSeq(m, offset + 1, offset + width)

\* The message of CctpMessageV2, or a panic.
CairoFields(m) ==
    LET hook == BodyOffset + HookOffset + 7
    IN  [sourceDomain |-> At(m, 4, 4), destinationDomain |-> At(m, 8, 4),
         recipient |-> At(m, 76, 32), destinationCaller |-> At(m, 108, 32),
         mintRecipient |-> At(m, BodyOffset + 36, 32),
         amount |-> Narrow(At(m, BodyOffset + 68, 32), 16),
         intentId |-> Wide(At(m, hook + 5, 16)),
         denominationCode |-> Wide(At(m, hook + 21, 2)),
         escrowPool |-> At(m, hook + 23, 32), claimHash |-> At(m, hook + 55, 32),
         publicRefundRecipient |-> At(m, hook + 87, 32),
         expiresAt |-> At(m, hook + 119, 8),
         manifestVersion |-> Wide(At(m, hook + 127, 2))]

CairoInRange(fields) ==
    /\ IsAddress(fields.recipient) /\ IsAddress(fields.destinationCaller)
    /\ IsAddress(fields.mintRecipient) /\ IsAddress(fields.escrowPool)
    /\ IsFelt(fields.claimHash) /\ IsAddress(fields.publicRefundRecipient)

CairoDecodes(m) ==
    LET wrapper == BodyOffset + HookOffset
        hook == wrapper + 7
    IN  /\ Len(m) = MessageLength
        /\ At(m, wrapper, 4) = CctpMagic
        /\ At(m, wrapper + 4, 1) = <<1>>
        /\ At(m, wrapper + 5, 2) = Small(HookLength, 2)
        /\ At(m, hook, 4) = WottMagic
        /\ At(m, hook + 4, 1) = <<1>>
        /\ At(m, hook + 127, 2) = Small(1, 2)
        /\ Fits(At(m, BodyOffset + 68, 32), 16)
        /\ CairoInRange(CairoFields(m))

-----------------------------------------------------------------------------
(* codecs/cctp.ts and codecs/hook.ts *)

EncodeWottaHook(f) ==
    FlattenSeq(<< WottMagic, <<1>>, Narrow(f.intentId, 16), Narrow(f.denominationCode, 2),
                  f.escrowPool, f.claimHash, f.publicRefundRecipient, f.expiresAt,
                  Narrow(f.manifestVersion, 2) >>)

EncodeHookWrapper(f) ==
    LET hook == EncodeWottaHook(f)
    IN  CctpMagic \o <<1>> \o Small(Len(hook), 2) \o hook

EncodeCircleMessage(f) ==
    FlattenSeq(<<
        Zeros(4), f.sourceDomain, f.destinationDomain, Small(9, 32), Small(291, 32),
        f.recipient, f.destinationCaller, f.minFinalityThreshold,
        f.finalityThresholdExecuted,
        Zeros(4), f.burnToken, f.mintRecipient, Wide(f.amount), Small(291, 32),
        f.maxFee, f.feeExecuted, Zeros(32), EncodeHookWrapper(f) >>)

WottaHookDecodes(h) == Len(h) = HookLength /\ At(h, 0, 4) = WottMagic /\ At(h, 4, 1) = <<1>>

HookFields(h) ==
    [intentId |-> Wide(At(h, 5, 16)), denominationCode |-> Wide(At(h, 21, 2)),
     escrowPool |-> At(h, 23, 32), claimHash |-> At(h, 55, 32),
     publicRefundRecipient |-> At(h, 87, 32), expiresAt |-> At(h, 119, 8),
     manifestVersion |-> Wide(At(h, 127, 2))]

HookWrapperDecodes(w) ==
    /\ Len(w) >= HeaderLength
    /\ At(w, 0, 4) = CctpMagic /\ At(w, 4, 1) = <<1>>
    /\ At(w, 5, 2) = Small(Len(w) - HeaderLength, 2)
    /\ WottaHookDecodes(At(w, HeaderLength, Len(w) - HeaderLength))

CircleDecodes(m) ==
    /\ Len(m) = MessageLength
    /\ HookWrapperDecodes(At(m, BodyOffset + HookOffset, WrapperLength))

CircleFields(m) ==
    [sourceDomain |-> At(m, 4, 4), destinationDomain |-> At(m, 8, 4),
     recipient |-> At(m, 76, 32), destinationCaller |-> At(m, 108, 32),
     minFinalityThreshold |-> At(m, 140, 4), finalityThresholdExecuted |-> At(m, 144, 4),
     burnToken |-> At(m, BodyOffset + 4, 32), mintRecipient |-> At(m, BodyOffset + 36, 32),
     amount |-> At(m, BodyOffset + 68, 32), maxFee |-> At(m, BodyOffset + 132, 32),
     feeExecuted |-> At(m, BodyOffset + 164, 32)]
    @@ HookFields(At(m, BodyOffset + HookOffset + HeaderLength, HookLength))

-----------------------------------------------------------------------------

\* What the router reads, of a record of more fields.
ReadByBoth(fields) ==
    [k \in {"sourceDomain", "destinationDomain", "recipient", "destinationCaller",
            "mintRecipient", "amount", "intentId", "denominationCode", "escrowPool",
            "claimHash", "publicRefundRecipient", "expiresAt", "manifestVersion"} |->
        IF k = "amount" THEN Wide(fields[k]) ELSE fields[k]]

\* The message, with any one byte another, cut short and made longer.
Altered(m) == {m} \cup {[m EXCEPT ![i] = b] : i \in DOMAIN m, b \in {0, 2, 8, 255}}
                  \cup {Tail(m), Append(m, 0)}

\* The two sides of the bridge read one message the same way.  What the API
\* encodes for a burn the contract decodes to the very terms of the intent; of
\* any message the contract accepts the API reads the same fields, so a check
\* of the API is about what the contract will do; and a message only the API
\* accepts has another manifest version or a value Cairo has no room for.
ASSUME CodecsAgree ==
    \A f \in Inputs :
        /\ Encodable(f) => EncodeForTest(f) = EncodeCircleMessage(f)
        /\ CairoDecodes(EncodeCircleMessage(f)) <=> /\ f.manifestVersion = Small(1, 32)
                                                   /\ CairoInRange(f)
        /\ \A m \in Altered(EncodeCircleMessage(f)) :
              LET circle == CircleFields(m)
              IN  /\ CairoDecodes(m) => /\ CircleDecodes(m)
                                       /\ ReadByBoth(CairoFields(m)) = ReadByBoth(circle)
                  /\ CircleDecodes(m) /\ ~CairoDecodes(m) =>
                        \/ circle.manifestVersion # Small(1, 32)
                        \/ ~Fits(circle.amount, 16) \/ ~CairoInRange(circle)
=============================================================================
