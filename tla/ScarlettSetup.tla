--------------------------- MODULE ScarlettSetup ---------------------------
(***************************************************************************)
(* How the mixer of a Focusrite Scarlett is set up when it is plugged in   *)
(* (sound/usb/scarlettmixer.c): the table of controls of each model, the   *)
(* register of the device that each control stands for, and the messages   *)
(* that bring the routes and gains to their defaults.                      *)
(*                                                                         *)
(* A register is the pair <<wIndex, wValue>> of a UAC2_CS_CUR request.     *)
(* What the controls do afterwards is module ScarlettMixer.                *)
(***************************************************************************)
EXTENDS Integers, FiniteSets, SequencesExt

CONSTANT Models      \* the models that may be plugged in

AllModels == {"8i6", "18i6", "18i8", "18i20"}
ASSUME ModelsAssumption == Models \subseteq AllModels

VARIABLES
    model,           \* the model that was plugged in
    made,            \* how many controls of its table exist
    sent,            \* how many messages the last of them has sent
    dev,             \* the registers written so far, with their values
    outcome          \* "going", "done" or "failed"

vars == <<model, made, sent, dev, outcome>>

(***************************************************************************)
(* The tables.  A source is named as in the enum texts: <<"PCM", 1>>.      *)
(***************************************************************************)
Bank(name, n) == [k \in 1..n |-> <<name, k>>]
Count(first, n) == [k \in 1..n |-> first + k - 1]

\* scarlett_device_info: the texts of opt_master by bank, the sizes of the
\* matrix, the first codes, the number of outputs and matrix_mux_init.
Info(m) ==
    CASE m = "8i6"   -> [texts |-> Bank("PCM", 12) \o Bank("Analog", 4) \o Bank("SPDIF", 2)
                                     \o Bank("Mix", 6),
                         matrix_out |-> 6, input_len |-> 8, outputs |-> 3,
                         pcm_start |-> 0, analog_start |-> 12, mix_start |-> 18,
                         mux |-> Count(12, 4) \o Count(16, 2) \o Count(0, 12)]
      [] m = "18i6"  -> [texts |-> Bank("PCM", 6) \o Bank("Analog", 8) \o Bank("SPDIF", 2)
                                     \o Bank("ADAT", 8) \o Bank("Mix", 6),
                         matrix_out |-> 6, input_len |-> 18, outputs |-> 3,
                         pcm_start |-> 0, analog_start |-> 6, mix_start |-> 24,
                         mux |-> Count(6, 8) \o Count(16, 6) \o Count(14, 2) \o Count(0, 2)]
      [] m = "18i8"  -> [texts |-> Bank("PCM", 8) \o Bank("Analog", 8) \o Bank("SPDIF", 2)
                                     \o Bank("ADAT", 8) \o Bank("Mix", 8),
                         matrix_out |-> 8, input_len |-> 18, outputs |-> 4,
                         pcm_start |-> 0, analog_start |-> 8, mix_start |-> 26,
                         mux |-> Count(8, 8) \o Count(18, 6) \o Count(16, 2) \o Count(0, 2)]
      [] m = "18i20" -> [texts |-> Bank("PCM", 20) \o Bank("Analog", 8) \o Bank("SPDIF", 2)
                                     \o Bank("ADAT", 8) \o Bank("Mix", 16),
                         matrix_out |-> 16, input_len |-> 18, outputs |-> 10,
                         pcm_start |-> 0, analog_start |-> 20, mix_start |-> 38,
                         mux |-> Count(20, 8) \o Count(30, 6) \o Count(28, 2) \o Count(0, 2)]

\* What an enum with start = -1 shows for a code: codes beyond its last text,
\* save the first two, are "Off", as 0xff is.
Shown(texts, code) == IF code < 0 \/ code > Len(texts) + 1 THEN <<"Off", 0>>
                      ELSE IF code >= Len(texts) THEN Last(texts) ELSE texts[code + 1]

\* opt_matrix has the texts of opt_master without the mixes.
MatrixTexts(m) == SubSeq(Info(m).texts, 1, Info(m).mix_start)

\* A control: its first register, its channels (in consecutive registers),
\* and the values it is initialised to, one after the other.
Control(cmd, off, no, count, init) ==
    [index |-> cmd, value |-> 256 * off + no, count |-> count, init |-> init]

Switch(cmd, off, no, count) == Control(cmd, off, no, count, <<>>)
Enum(cmd, off, no, init)    == Control(cmd, off, no, 1, init)
Master(cmd, off, no, count) == Control(cmd, off, no, count, <<0>>)
Silence == -32768                                     \* -128 dB
Mem == 256

OutputCtls(m, k) ==
    << Switch(10, 1, 2 * k + 1, 2), Master(10, 2, 2 * k + 1, 2),
       Enum(51, 0, 2 * k, <<Info(m).mix_start>>),
       Enum(51, 0, 2 * k + 1, <<Info(m).mix_start + 1>>) >>

\* Impedance switches (9) and pad switches (11) of the analog inputs.
InputCtls(m) ==
    LET Of(off, nos) == [k \in 1..Len(nos) |-> Enum(1, off, nos[k], <<>>)]
    IN CASE m = "8i6"   -> Of(9, <<1, 2>>) \o Of(11, <<3, 4>>)
         [] m = "18i6"  -> Of(9, <<1, 2>>)
         [] m = "18i8"  -> Of(9, <<1>>) \o Of(11, <<1>>) \o Of(9, <<2>>) \o Of(11, <<2, 3, 4>>)
         [] m = "18i20" -> <<>>

NodeOfFour(i, o) == 4 * i + (o % 8)                     \* a faulty variant
\* The matrix node of input i and mix o.
Node(i, o) == 8 * i + (o % 8)

InitOnce(m, i, o) == <<Silence>>                      \* a faulty variant
\* A gain is silent, but PCM 1 and 2 are let into Mix A and B.
GainInit(m, i, o) ==
    IF \E k \in {0, 1} : o = k /\ Info(m).mux[i + 1] = Info(m).pcm_start + k
    THEN <<Silence, 0>> ELSE <<Silence>>

MatrixCtls(m, i) ==
    <<Enum(50, 6, i, <<Info(m).mux[i + 1]>>)>>
        \o [o \in 1..Info(m).matrix_out |-> Control(60, 0, Node(i, o - 1), 1, GainInit(m, i, o - 1))]

CaptureOfEight(m, i) == Enum(52, 0, i, <<Info(m).analog_start + (i % 8)>>)  \* a faulty variant
CaptureCtl(m, i) == Enum(52, 0, i, <<Info(m).analog_start + i>>)

\* What scarlett_mixer_controls makes, in its order; the last three are the
\* clock source, the sync status and the save switch.  The last two are
\* UAC2_CS_MEM requests, whose registers are others: Mem sets them apart.
TableOf(m) ==
    <<Switch(10, 1, 0, 1), Master(10, 2, 0, 1)>>
        \o FlattenSeq([k \in 1..Info(m).outputs |-> OutputCtls(m, k - 1)])
        \o InputCtls(m)
        \o FlattenSeq([i \in 1..18 |-> MatrixCtls(m, i - 1)])
        \o [i \in 1..Info(m).input_len |-> CaptureCtl(m, i - 1)]
        \o <<Control(40, 1, 0, 1, <<>>), Control(Mem + 60, 0, 2, 1, <<>>),
             Control(Mem + 60, 0, 90, 1, <<>>)>>

Table == [m \in Models |-> TableOf(m)]

Register(c, ch) == <<c.index, c.value + ch>>
Registers(c) == {Register(c, ch) : ch \in 0..c.count - 1}

(***************************************************************************)
(* scarlett_mixer_controls.                                                *)
(***************************************************************************)
Init ==
    /\ model \in Models
    /\ made = 0 /\ sent = 0
    /\ dev = <<>>
    /\ outcome = "going"

Newest == Table[model][made]
Pending == made > 0 /\ sent < Newest.count * Len(Newest.init)

\* The k-th message of a control: all its channels, then the next value.
MessageRegister(c, k) == Register(c, (k - 1) % c.count)
MessageValue(c, k)    == c.init[(k - 1) \div c.count + 1]

AddNewCtl ==
    /\ outcome = "going" /\ ~ Pending
    /\ made < Len(Table[model])
    /\ made' = made + 1 /\ sent' = 0
    /\ UNCHANGED <<model, dev, outcome>>

SetCtlValue ==
    /\ outcome = "going" /\ Pending
    /\ sent' = sent + 1
    /\ LET r == MessageRegister(Newest, sent')
       IN dev' = [q \in DOMAIN dev \cup {r} |-> IF q = r THEN MessageValue(Newest, sent') ELSE dev[q]]
    /\ UNCHANGED <<model, made, outcome>>

\* No memory, or ten failed messages: the mixer is given up.
GiveUp ==
    /\ outcome = "going"
    /\ made < Len(Table[model]) \/ Pending
    /\ outcome' = "failed"
    /\ UNCHANGED <<model, made, sent, dev>>

Finish ==
    /\ outcome = "going" /\ ~ Pending
    /\ made = Len(Table[model])
    /\ outcome' = "done"
    /\ UNCHANGED <<model, made, sent, dev>>

Next == AddNewCtl \/ SetCtlValue \/ GiveUp \/ Finish

Spec == Init /\ [][Next]_vars

(***************************************************************************)
(* Properties.                                                             *)
(***************************************************************************)
\* The controls made are a prefix of the table, and only what they
\* initialise has been written.
TypeOK ==
    /\ model \in Models /\ outcome \in {"going", "done", "failed"}
    /\ made \in 0..Len(Table[model])
    /\ sent \in Nat /\ (made = 0 => sent = 0)
    /\ DOMAIN dev \subseteq UNION {Registers(Table[model][k]) : k \in 1..made}
    /\ \A r \in DOMAIN dev : dev[r] \in Silence..Len(Info(model).texts) - 1

\* "Matrix Mixer gains, wValue=mixer-node" (scarlettmixer.c:86): a control
\* never stands for a register that an earlier one stands for already, so
\* that what it caches is its own.
OwnRegister ==
    \A k \in 1..made - 1 : Registers(Table[model][k]) \cap Registers(Newest) = {}

\* What matrix_mux_init is commented with (scarlettmixer.c:1051-1054, 1097, 1143 and
\* 1195): the inputs of the matrix.
Inputs(m) == IF m = "8i6" THEN Bank("Analog", 4) \o Bank("SPDIF", 2) \o Bank("PCM", 12)
             ELSE Bank("Analog", 8) \o Bank("ADAT", 6) \o Bank("SPDIF", 2) \o Bank("PCM", 2)

\* The loop over input_len (scarlettmixer.c:1258-1262) means the hardware inputs, of
\* which the 8i6 has two fewer than capture channels.
Captures(m) == IF m = "8i6" THEN Bank("Analog", 4) \o Bank("SPDIF", 2) \o Bank("Mix", 2)
               ELSE Bank("Analog", 8) \o Bank("SPDIF", 2) \o Bank("ADAT", 8)

\* After the set-up each of the 18 inputs of the matrix takes the source that the comment
\* on its initial route names, and every capture channel records the hardware input of
\* its number: analog, then SPDIF, then ADAT, and on the 8i6 two mixes in the end.  The
\* codes, the first codes of the banks, the lists of texts and the registers are written
\* down apart in the tables; a user sees the text.
RoutesAsCommented ==
    outcome = "done" =>
        /\ \A i \in 1..18 : Shown(MatrixTexts(model), dev[<<50, 256 * 6 + i - 1>>]) = Inputs(model)[i]
        /\ Len(Captures(model)) = Info(model).input_len
        /\ \A i \in 1..Info(model).input_len :
              Shown(Info(model).texts, dev[<<52, i - 1>>]) = Captures(model)[i]

\* "enable PCM 1 / 2 on Mix A / B" (scarlettmixer.c:1252): once the mixer is
\* set up, what is played on PCM 1 and 2 comes out of every pair of outputs:
\* an input of the matrix takes it, the gain to the mix is 0 dB, the pair
\* plays that mix, and no volume on the way is down.
PcmReachesOutputs ==
    outcome = "done" =>
        \A side \in {1, 2} :
            /\ \E i \in 0..17 :
                  /\ Shown(MatrixTexts(model), dev[<<50, 256 * 6 + i>>]) = <<"PCM", side>>
                  /\ dev[<<60, 8 * i + side - 1>>] = 0
            /\ \A k \in 0..Info(model).outputs - 1 :
                  /\ Shown(Info(model).texts, dev[<<51, 2 * k + side - 1>>]) = <<"Mix", side>>
                  /\ dev[<<10, 512 + 2 * k + side>>] = 0
            /\ dev[<<10, 512>>] = 0

=============================================================================
