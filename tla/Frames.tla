-------------------------------- MODULE Frames --------------------------------
(***************************************************************************)
(* The messages of the socket: heartbeat, warning and data report, and the *)
(* responses to the three commands, as the bytes that are sent; and the    *)
(* encoding of the measured quantities, which alternate between voltage    *)
(* and current from one sample to the next.                                *)
(*                                                                         *)
(* A frame is 9E BF, Length (2), Type, Cmd, Data, CheckSum, EE BA.  The    *)
(* arithmetic of the measurements is exact here; in the code it is         *)
(* floating point, which may change the last unit of a quantity.           *)
(***************************************************************************)
EXTENDS Integers, SequencesExt

CONSTANTS
    Pulses,    \* values the pulse counters may have
    Times,     \* what current_time may return: sequences of six bytes
    DeviceNo   \* the device number: a sequence of eight bytes

Byte == 0 .. 255

ASSUME PulsesAssumption == \A cf \in Pulses : cf \in Nat /\ cf <= 32767     \* int16_t
ASSUME TimesAssumption  == Times \subseteq [1 .. 6 -> Byte]
ASSUME DeviceAssumption == DeviceNo \in [1 .. 8 -> Byte]

Never == -1
Module == 10                 \* 0x0A

VARIABLES
    upload,     \* the quantities V, I, P, Q as they will be sent
    mark,       \* 0: the next sample counts current, 1: voltage
    phase,      \* what timer_task has done since its last wake-up
    frame,      \* the last frame sent, <<>> before the first
    answered,   \* the command that frame answers, "none" if it is no response
    measured    \* history: the pulses of the last sample of each quantity

vars == <<upload, mark, phase, frame, answered, measured>>

Quantities == {"V", "I", "P", "Q"}

-----------------------------------------------------------------------------
(* Frames                                                                  *)

Sum(s) == FoldLeft(+, 0, s)

\* Type to CheckSum of a frame of n bytes before the tail
LengthShort(n) == n - 5           \* mutant: CheckSum is not counted
LengthField(n) == n - 4

\* for (i = HEAD; i < offset - HEAD; i++) checksum += data_hex[i]
CheckSumWide(bytes) == Sum(SubSeq(bytes, 3, Len(bytes) - 2))   \* mutant: checksum is not a byte
CheckSum(bytes) == Sum(SubSeq(bytes, 3, Len(bytes) - 2)) % 256

\* The frame of a publish: the checksum is computed before Length is filled in.
Frame(cmd, content) ==
    LET body == <<158, 191, 0, 0, 33, cmd>> \o content
        all  == Append(body, CheckSum(body))
    IN  [all EXCEPT ![4] = LengthField(Len(all))] \o <<238, 186>>

BeatFrame == Frame(1, <<Module>> \o DeviceNo \o <<34, 86, 49, 46, 48, 49, 34>> \o <<32, 1, 32>>)

WarnFrame(time, alarm) == Frame(23, <<Module>> \o DeviceNo \o time \o <<0, alarm, 0>>)

\* sign, multiple (2), number of bytes, value
Field(q) == <<0>> \o q.multiple \o <<Len(q.value)>> \o q.value

DataFrame(time) ==
    Frame(19, <<Module>> \o DeviceNo \o time \o <<1>>
              \o Field(upload["V"]) \o Field(upload["I"]) \o Field(upload["P"]) \o Field(upload["Q"]))

-----------------------------------------------------------------------------
(* Quantities                                                              *)

\* byte_count
ByteCountTight(dt) == IF dt <= 256 THEN 1 ELSE IF dt <= 65536 THEN 2 ELSE IF dt <= 16777216 THEN 3 ELSE 4
                                  \* mutant: off by one at each boundary
ByteCount(dt) == IF dt <= 255 THEN 1 ELSE IF dt <= 65535 THEN 2 ELSE IF dt <= 16777215 THEN 3 ELSE 4

\* value[byte - p - 1] = dt >> (8 * p) & 0xFF
Encode(dt) == [k \in 1 .. ByteCount(dt) |-> (dt \div 256 ^ (ByteCount(dt) - k)) % 256]

TenThousand == <<39, 16>>
One         == <<0, 1>>

Quantity(multiple, dt) == [multiple |-> multiple, value |-> Encode(dt)]

\* Pulses to the unit that is sent (times 10000, the voltage times 1)
Power(cf)   == cf * 14601
Energy(cf)  == (cf * 14601) \div 1000
Current(cf) == cf * 118
Voltage(cf) == (cf * 1317) \div 10000

-----------------------------------------------------------------------------
(* timer_task                                                              *)

Init ==
    /\ upload = [q \in Quantities |-> [multiple |-> <<0, 0>>, value |-> <<>>]]
    /\ mark = 0
    /\ phase = "wait"
    /\ frame = <<>>
    /\ answered = "none"
    /\ measured = [q \in {"V", "I", "P"} |-> Never]

\* The quantity that CF1 carries in this sample
Carries == IF mark = 0 THEN "I" ELSE "V"

\* Pulse_count; without a report the frame of the last second is forgotten here.
Sample(cf, cf1) ==
    /\ phase \in {"wait", "reported"}
    /\ upload' = [upload EXCEPT
         !["P"] = Quantity(TenThousand, Power(cf)),
         !["Q"] = Quantity(TenThousand, Energy(cf)),
         ![Carries] = IF Carries = "I" THEN Quantity(TenThousand, Current(cf1))
                                       ELSE Quantity(One, Voltage(cf1))]
    /\ measured' = [measured EXCEPT !["P"] = cf, ![Carries] = cf1]
    /\ mark' = 1 - mark
    /\ phase' = "sampled"
    /\ frame' = <<>>
    /\ answered' = "none"

\* if (sod >= nomral) is false
NotDue ==
    /\ phase = "sampled"
    /\ phase' = "wait"
    /\ UNCHANGED <<upload, mark, frame, answered, measured>>

Send(f) == frame' = f /\ answered' = "none" /\ UNCHANGED <<upload, mark, measured>>

\* mqtt_publish_data
PublishData(time) == phase = "sampled" /\ phase' = "reported" /\ Send(DataFrame(time))

\* mqtt_publish_warn: 1 overload, 2 unplugged, 4 power cut
PublishWarn(time, alarm) == phase = "reported" /\ UNCHANGED phase /\ Send(WarnFrame(time, alarm))

-----------------------------------------------------------------------------
(* pub_task and process_task                                               *)

\* mqtt_publish_beat
PublishBeat == UNCHANGED phase /\ Send(BeatFrame)

\* A command as the protocol defines it: Type A1, every byte of Length, Type,
\* Cmd and Data in the checksum.
Command(cmd, content) ==
    LET body == <<158, 191, 0, Len(content) + 3, 161, cmd>> \o content
    IN  body \o <<Sum(SubSeq(body, 3, Len(body))) % 256, 238, 186>>

Blank == <<Module>> \o DeviceNo
SwitchCommands    == {Command(21, Blank \o <<1, state>> \o time) : state \in 0 .. 2, time \in Times}
IpCommands        == {Command(4, Blank \o <<34, 49, 46, 49, 34>> \o <<34, 56, 48, 34>>)}
FrequencyCommands == {Command(1, Blank \o [k \in 1 .. 12 |-> v]) : v \in {0, 60, 255}}

\* The first n bytes of the command come back with Type A2; the byte at index
\* at (from 0) is raised by the given amount.
Response(c, n, at, by) == [SubSeq(c, 1, n) EXCEPT ![5] = 162, ![at + 1] = (@ + by) % 256]

\* mqtt_cmd_sw
SwitchResponseTwo(c) == Response(c, 26, 23, 2)   \* mutant: as the other two commands
SwitchResponse(c) == Response(c, 26, 23, 1)
\* mqtt_cmd_ip: frame_hex[check] += 2 with check = data_len + 3; ip_cmd_len bytes
IpResponse(c) == Response(c, c[4] + 6, c[4] + 3, 2)
\* mqtt_cmd_frequence
FrequencyResponse(c) == Response(c, 30, 27, 2)

Answer(cmd, f) == frame' = f /\ answered' = cmd /\ UNCHANGED <<upload, mark, phase, measured>>

RespondSwitch    == \E c \in SwitchCommands : Answer("switch", SwitchResponse(c))
RespondIp        == \E c \in IpCommands : Answer("ip", IpResponse(c))
RespondFrequency == \E c \in FrequencyCommands : Answer("frequency", FrequencyResponse(c))

Next ==
    \/ \E cf, cf1 \in Pulses : Sample(cf, cf1)
    \/ NotDue
    \/ \E time \in Times : PublishData(time) \/ \E alarm \in {1, 2, 4} : PublishWarn(time, alarm)
    \/ PublishBeat \/ RespondSwitch \/ RespondIp \/ RespondFrequency

Spec == Init /\ [][Next]_vars

-----------------------------------------------------------------------------
(* The receiver, by the protocol (MQTT.h)                                  *)

Sent == frame # <<>>

\* What the checksum of a frame should be
Documented(f) == Sum(SubSeq(f, 3, Len(f) - 3)) % 256
Received(f) == f[Len(f) - 2]

BigEndian(s) == FoldLeft(LAMBDA acc, b : 256 * acc + b, 0, s)

\* The quantities of a data report start at byte 23; each gives the start of
\* the next.
Start(q, f) ==
    LET after(p) == p + 4 + f[p + 3]
    IN  CASE q = "V" -> 23
          [] q = "I" -> after(23)
          [] q = "P" -> after(after(23))
          [] q = "Q" -> after(after(after(23)))
          [] q = "end" -> after(after(after(after(23))))
Multiple(q, f) == BigEndian(SubSeq(f, Start(q, f) + 1, Start(q, f) + 2))
Value(q, f) == BigEndian(SubSeq(f, Start(q, f) + 4, Start(q, f) + 3 + f[Start(q, f) + 3]))

IsData == Sent /\ answered = "none" /\ frame[6] = 19

-----------------------------------------------------------------------------
(* Properties                                                              *)

\* Type invariant: every byte sent is a byte, no frame outgrows the buffer of
\* 100 bytes, no value the four bytes of an unsigned int.
TypeOK ==
    /\ \A q \in Quantities : upload[q].multiple \in {<<0, 0>>, One, TenThousand} /\ Len(upload[q].value) <= 4
    /\ mark \in {0, 1}
    /\ phase \in {"wait", "sampled", "reported"}
    /\ Len(frame) <= 100 /\ \A k \in 1 .. Len(frame) : frame[k] \in Byte
    /\ answered \in {"none", "switch", "ip", "frequency"}
    /\ measured \in [{"V", "I", "P"} -> Pulses \union {Never}]

\* Length of every frame sent, responses included, is the number of bytes
\* from Type to CheckSum, and the frame ends where Length says.
LengthCorrect ==
    Sent => /\ Len(frame) = 256 * frame[3] + frame[4] + 6
            /\ SubSeq(frame, Len(frame) - 1, Len(frame)) = <<238, 186>>

\* A server that reads a data report field by field gets the last measurement
\* of each quantity: the power and energy of this sample, and of voltage and
\* current the one of this sample and the one of the sample before.
ReportDecodes ==
    IsData =>
      /\ Start("end", frame) = Len(frame) - 2
      /\ Value("P", frame) = Power(measured["P"]) /\ Value("Q", frame) = Energy(measured["P"])
      /\ measured["V"] # Never => Value("V", frame) = Voltage(measured["V"]) /\ Multiple("V", frame) = 1
      /\ measured["I"] # Never => Value("I", frame) = Current(measured["I"]) /\ Multiple("I", frame) = 10000

\* The response to a valid switch command is a valid frame: the one byte that
\* changes (Type) is made up for in the checksum.
SwitchResponseValid == answered = "switch" => Received(frame) = Documented(frame)

\* The checksum of every report, warning and heartbeat is the sum of Length,
\* Type, Cmd and all data bytes.
ChecksumAsDocumented == Sent /\ answered = "none" => Received(frame) = Documented(frame)
=============================================================================
