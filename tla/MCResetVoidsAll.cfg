\* Two calls of one account: a refresh and the reset it races with.
SPECIFICATION AcctSpec
CONSTANTS
  Calls = {c1, c2}
  Otps = {o1}
  NoOtp = NoOtp
  MaxChanges = 2
INVARIANT ResetVoidsAll
CHECK_DEADLOCK FALSE
