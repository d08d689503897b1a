SPECIFICATION Spec
CONSTANTS
  a = a  b = b  a1 = a1  a2 = a2  b1 = b1  b2 = b2
  Client <- MCClient
  NoClient = NoClient
  Req <- ThreeReqs
  adapter_dir <- MCAdapter
  input_len <- ThreeInputLen
  max_output_len <- ThreeOutputLen
  lora_rank <- NoLora
  max_total_tokens = 9
  batch_max_tokens = 4
  running_max_req_size = 2
  max_req_input_len = 3
  max_req_total_len = 4
  service_def = "linear"
  HIGH_TIER_START = 2
  QUADRATIC_DIVISOR = 1
  max_wait_tokens = 1
PROPERTIES AbortHonoured
