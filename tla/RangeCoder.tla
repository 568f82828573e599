----------------------------- MODULE RangeCoder -----------------------------
(***************************************************************************)
(* The adaptive range coder of codec/template.py.  The encoder narrows an  *)
(* interval by each symbol's share, writes the bits its ends agree on and  *)
(* holds back those of an interval that straddles the middle; the decoder  *)
(* repeats every step from the bits alone.  Both adapt the same model,     *)
(* which is halved when its total reaches a limit.                         *)
(*                                                                         *)
(* Bits are a sequence: bytes only pad it with zeros, which is also what   *)
(* the reader finds past the end.                                          *)
(***************************************************************************)
EXTENDS Integers, Sequences, SequencesExt, FiniteSetsExt

CONSTANTS CodeBits,      \* RANGE_CODE_BITS
          NumSymbols,    \* RANGE_MODEL_SYMBOLS
          MaxTotal,      \* RANGE_MODEL_MAX_TOTAL
          MaxMessage     \* length of a message

\* The total stays within a quarter of the range, so no share is ever empty.
ASSUME RangeBounds == MaxTotal <= 2^(CodeBits - 2) /\ NumSymbols \in 1..(MaxTotal - 1)

VARIABLES symbols,   \* the symbols encoded so far
          encoder,   \* [low, high, pending, freq, bits]
          stream,    \* the bits, once finished: <<>> before
          decoder,   \* [low, high, code, read, freq]
          decoded    \* the symbols decoded so far

rangeVars == <<symbols, encoder, stream, decoder, decoded>>

Full == 2^CodeBits
Half == Full \div 2
Quarter == Half \div 2
Alphabet == 0..(NumSymbols - 1)

-----------------------------------------------------------------------------
(* _RangeModel: how often each symbol was seen. *)

FreshModel == [s \in Alphabet |-> 1]
Total(freq) == MapThenSumSet(LAMBDA s : freq[s], Alphabet)
CumulativeBelow(freq, s) == MapThenSumSet(LAMBDA t : freq[t], 0..(s - 1))

\* interval.
Interval(freq, s) == [from |-> CumulativeBelow(freq, s), to |-> CumulativeBelow(freq, s) + freq[s]]

\* symbol_for_scaled: the first symbol whose share reaches past the value.
SymbolForScaled(freq, scaled) ==
    CHOOSE s \in Alphabet : CumulativeBelow(freq, s) <= scaled /\ scaled < CumulativeBelow(freq, s) + freq[s]

\* update.
Updated(freq, s) ==
    LET counted == [freq EXCEPT ![s] = @ + 1] IN
    IF Total(counted) >= MaxTotal
    THEN [t \in Alphabet |-> Max({1, (counted[t] + 1) \div 2})]
    ELSE counted

-----------------------------------------------------------------------------
(* The interval, the same in both directions. *)

Narrowed(c, share, total) ==
    LET span == c.high - c.low + 1 IN
    [c EXCEPT !.low = c.low + (span * share.from) \div total,
              !.high = c.low + (span * share.to) \div total - 1]

\* What the renormalisation loop drops from the interval in its next round: the
\* lower half, the upper half or the middle; -1 when it stops.
Shift(c) ==
    CASE c.high < Half -> 0
      [] c.low >= Half -> Half
      [] c.low >= Quarter /\ c.high < 3 * Quarter /\ c.low < Half /\ c.high >= Half -> Quarter
      [] OTHER -> -1

Doubled(c, shift) ==
    [c EXCEPT !.low = 2 * (@ - shift), !.high = 2 * (@ - shift) + 1]

-----------------------------------------------------------------------------
(* _range_encode *)

\* Faulty: the bits held back repeat the bit they follow.
FollowWithSame(c, bit) ==
    [c EXCEPT !.bits = @ \o [i \in 1..(c.pending + 1) |-> bit], !.pending = 0]

\* write_bit_plus_follow: the bits held back are the opposite of the next one.
BitPlusFollow(c, bit) ==
    [c EXCEPT !.bits = @ \o <<bit>> \o [i \in 1..c.pending |-> 1 - bit], !.pending = 0]

RECURSIVE Written(_)
Written(c) ==
    LET shift == Shift(c) IN
    CASE shift = -1 -> c
      [] shift = Quarter -> Written(Doubled([c EXCEPT !.pending = @ + 1], shift))
      [] OTHER -> Written(Doubled(BitPlusFollow(c, shift \div Half), shift))

Encoded(c, s) ==
    [Written(Narrowed(c, Interval(c.freq, s), Total(c.freq))) EXCEPT !.freq = Updated(@, s)]

Finished(c) ==
    BitPlusFollow([c EXCEPT !.pending = @ + 1], IF c.low < Quarter THEN 0 ELSE 1).bits

-----------------------------------------------------------------------------
(* _range_decode *)

\* _BitReader.read.
BitAt(bits, i) == IF i > Len(bits) THEN 0 ELSE bits[i]

RECURSIVE Refilled(_, _)
Refilled(c, bits) ==
    LET shift == Shift(c) IN
    IF shift = -1 THEN c
    ELSE Refilled([Doubled(c, shift) EXCEPT !.code = 2 * (@ - shift) + BitAt(bits, c.read + 1),
                                            !.read = @ + 1], bits)

DecoderOf(bits) ==
    [low |-> 0, high |-> Full - 1, freq |-> FreshModel, read |-> CodeBits,
     code |-> FoldLeft(LAMBDA code, i : 2 * code + BitAt(bits, i), 0,
                       [i \in 1..CodeBits |-> i])]

Scaled(c) == ((c.code - c.low + 1) * Total(c.freq) - 1) \div (c.high - c.low + 1)

Decoded(c, bits, s) ==
    [Refilled(Narrowed(c, Interval(c.freq, s), Total(c.freq)), bits)
        EXCEPT !.freq = Updated(@, s)]

-----------------------------------------------------------------------------

RangeInit ==
    /\ symbols = <<>> /\ stream = <<>> /\ decoded = <<>>
    /\ encoder = [low |-> 0, high |-> Full - 1, pending |-> 0, freq |-> FreshModel,
                  bits |-> <<>>]
    /\ decoder = DecoderOf(<<>>)

EncodeSymbol(s) ==
    /\ stream = <<>> /\ Len(symbols) < MaxMessage
    /\ symbols' = Append(symbols, s)
    /\ encoder' = Encoded(encoder, s)
    /\ UNCHANGED <<stream, decoder, decoded>>

FinishEncoding ==
    /\ stream = <<>>
    /\ stream' = Finished(encoder)
    /\ decoder' = DecoderOf(stream')
    /\ UNCHANGED <<symbols, encoder, decoded>>

\* The length of the message travels beside the bits.  A scaled value outside
\* the model raises and ends the decoding.
DecodeSymbol ==
    /\ stream # <<>> /\ Len(decoded) < Len(symbols)
    /\ Scaled(decoder) \in 0..(Total(decoder.freq) - 1)
    /\ LET s == SymbolForScaled(decoder.freq, Scaled(decoder)) IN
         /\ decoded' = Append(decoded, s)
         /\ decoder' = Decoded(decoder, stream, s)
    /\ UNCHANGED <<symbols, encoder, stream>>

RangeNext ==
    \/ \E s \in Alphabet : EncodeSymbol(s)
    \/ FinishEncoding
    \/ DecodeSymbol

-----------------------------------------------------------------------------

\* The decoder follows the encoder: what it has decoded is a prefix of the
\* message, the code it holds lies in its interval, so that it can go on, and
\* after the last symbol it has the encoder's interval and model.  The shares
\* never run empty, whatever the interval and the halvings of the model.
DecoderFollows ==
    /\ encoder.low < encoder.high
    /\ stream # <<>> =>
         /\ IsPrefix(decoded, symbols)
         /\ decoder.low <= decoder.code /\ decoder.code <= decoder.high
         /\ decoded = symbols => /\ decoder.freq = encoder.freq
                                 /\ decoder.low = encoder.low
                                 /\ decoder.high = encoder.high
=============================================================================
